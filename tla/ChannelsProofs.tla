--------------------------- MODULE ChannelsProofs ---------------------------
(***************************************************************************)
(* Theorems about the connections and the channels of chirc (modules Irc   *)
(* and Channels), for any number of threads, descriptors, nicknames,       *)
(* channels and messages.                                                  *)
(*                                                                         *)
(* The argument is in what a thread has seen and what may have changed     *)
(* since.  A nickname, a name of a channel or a descriptor that has been   *)
(* looked for and not found stays unlisted, or is in the set of those that *)
(* a race excuses (Choosing, UpToDate, NotYetIn).  Positions in the lists  *)
(* are left to the lemmas about sequences: what is listed is stated with   *)
(* InList.                                                                 *)
(*                                                                         *)
(* As long as no PART and no TOPIC runs beside another handler, and no     *)
(* lookup goes wrong beside an addition that is half done, the invariant   *)
(* is Orderly: the channel of a handler is there, the counter of users     *)
(* does not lead the list of members, and a channel without members has a  *)
(* handler that brings one or is about to take the channel away.           *)
(***************************************************************************)
EXTENDS Channels, TLAPS, WellFoundedInduction, SequenceTheorems, FiniteSetTheorems

(***************************************************************************)
(* Connections: the inductive invariant.                                   *)
(***************************************************************************)
InList(s, x) == \E i \in 1..Len(s) : s[i] = x
Distinct(s) == \A i, j \in 1..Len(s) : i # j => s[i] # s[j]

Label == {"none", "start", "append", "recv", "nick", "welcome", "lusers",
          "counting", "answer", "motd", "quit", "delete", "close"}

ThreadRec == [pc : Label, fd : Fd \union {Null}, nick : Nicks \union {Null},
              c : Thread \union {Null}, pos : Nat]
ClientRec == [fd : Fd \union {Null}, nick : Nicks \union {Null}, user : BOOLEAN,
              registered : BOOLEAN]

IrcTypes ==
  /\ handlingSocket \in Fd \union {Null} /\ open \in SUBSET Fd
  /\ thr \in [Thread -> ThreadRec]
  /\ client \in [Thread -> ClientRec]
  /\ clientList \in Seq(Thread)
  /\ counting \in Thread \union {Null}
  /\ contended \in SUBSET Nicks
  /\ messages \in 0..MaxMessages /\ fate \in {"alive", "crashed"}

(* A client is listed once, by its thread; until then it has no nickname.  *)
Listed ==
  /\ Distinct(clientList)
  /\ \A t \in Thread : thr[t].pc \in {"none", "start", "append"} =>
       ~InList(clientList, t) /\ client[t].nick = Null

(* What a thread works on.                                                 *)
Working ==
  \A t \in Thread : /\ thr[t].pc = "welcome" => thr[t].c \in Thread
                    /\ thr[t].pc = "nick" => thr[t].nick \in Nicks

(* A nickname that was free may have been taken since it was looked for,   *)
(* by one who looked for it at the same time.                              *)
Choosing ==
  \A t \in Thread : thr[t].pc = "nick" =>
    /\ \A c \in Thread : InList(clientList, c) /\ client[c].nick = thr[t].nick =>
         thr[t].nick \in contended
    /\ \A u \in Thread \ {t} : thr[u].pc = "nick" /\ thr[u].nick = thr[t].nick =>
         thr[t].nick \in contended

(* SharedOnlyByRace, without the positions in the list.                    *)
Shared ==
  \A c, d \in Thread :
    c # d /\ InList(clientList, c) /\ InList(clientList, d) /\ client[c].nick = client[d].nick =>
      client[c].nick \in contended \union {Null}

IrcSafe == /\ IrcTypes /\ Listed /\ Working /\ Choosing /\ Shared
           /\ RegisteredIsNamed /\ NamedIsRegistered

-----------------------------------------------------------------------------
(***************************************************************************)
(* Lists.                                                                  *)
(***************************************************************************)
Cut(s, i) == SubSeq(s, 1, i - 1) \o SubSeq(s, i + 1, Len(s))

LEMMA HasLeast ==
  ASSUME NEW S \in SUBSET Nat, S # {}
  PROVE  \E m \in S : \A n \in S : m <= n
  <1>1. IsWellFoundedOn(OpToRel(<, Nat), Nat)
    BY NatLessThanWellFounded
  <1>2. PICK m \in S : \A n \in S : ~(<<n, m>> \in OpToRel(<, Nat))
    <2> HIDE DEF OpToRel
    <2> QED
      BY <1>1, WFMin
  <1>3. \A n \in S : ~(n < m)
    BY <1>2 DEF OpToRel
  <1> QED
    BY <1>3

LEMMA CutFacts ==
  ASSUME NEW T, NEW s \in Seq(T), NEW i \in 1..Len(s)
  PROVE  LET r == Cut(s, i)
         IN /\ r \in Seq(T) /\ Len(r) = Len(s) - 1
            /\ \A j \in 1..Len(r) : r[j] = IF j < i THEN s[j] ELSE s[j + 1]
  <1> DEFINE a == SubSeq(s, 1, i - 1)
             b == SubSeq(s, i + 1, Len(s))
  <1>1. a \in Seq(T) /\ Len(a) = i - 1 /\ \A j \in 1..(i - 1) : a[j] = s[j]
    OBVIOUS
  <1>2. b \in Seq(T) /\ Len(b) = Len(s) - i /\ \A j \in 1..(Len(s) - i) : b[j] = s[j + i]
    OBVIOUS
  <1>3. Cut(s, i) = a \o b
    BY DEF Cut
  <1>0. Len(s) \in Nat
    OBVIOUS
  <1> HIDE DEF a, b
  <1>4. a \o b \in Seq(T) /\ Len(a \o b) = Len(s) - 1
    <2>1. a \o b \in Seq(T) /\ Len(a \o b) = Len(a) + Len(b)
      <3>1. a \in Seq(T) /\ b \in Seq(T)
        BY <1>1, <1>2
      <3> QED
        BY <3>1, ConcatProperties
    <2> QED
      BY <1>0, <1>1, <1>2, <2>1
  <1>5. ASSUME NEW j \in 1..(Len(s) - 1)
        PROVE  (a \o b)[j] = IF j < i THEN s[j] ELSE s[j + 1]
    <2>1. CASE j < i
      BY <1>1, <1>2, <2>1
    <2>2. CASE ~(j < i)
      <3>1. j - (i - 1) \in 1..(Len(s) - i) /\ (j - (i - 1)) + i = j + 1
        BY <2>2
      <3>2. (a \o b)[j] = b[j - (i - 1)]
        BY <1>1, <1>2, <2>2
      <3> QED
        BY <1>2, <2>2, <3>1, <3>2
    <2> QED
      BY <2>1, <2>2
  <1> QED
    BY <1>3, <1>4, <1>5

(* What is left is what was there, but for the one that was taken out.     *)
LEMMA CutKeeps ==
  ASSUME NEW T, NEW s \in Seq(T), NEW i \in 1..Len(s),
         \A j, k \in 1..Len(s) : j # k => s[j] # s[k]
  PROVE  LET r == Cut(s, i)
         IN /\ r \in Seq(T)
            /\ \A j, k \in 1..Len(r) : j # k => r[j] # r[k]
            /\ \A x : (\E j \in 1..Len(r) : r[j] = x)
                     <=> x # s[i] /\ \E j \in 1..Len(s) : s[j] = x
  <1> DEFINE r == Cut(s, i)
  <1>1. /\ r \in Seq(T) /\ Len(r) = Len(s) - 1 /\ Len(s) \in Nat
        /\ \A j \in 1..Len(r) : r[j] = IF j < i THEN s[j] ELSE s[j + 1]
    BY CutFacts
  <1> HIDE DEF r
  <1>2. ASSUME NEW j \in 1..Len(r), NEW k \in 1..Len(r), j # k PROVE r[j] # r[k]
    BY <1>1, <1>2
  <1>3. ASSUME NEW x, NEW j \in 1..Len(r), r[j] = x
        PROVE  x # s[i] /\ \E l \in 1..Len(s) : s[l] = x
    BY <1>1, <1>3
  <1>4. ASSUME NEW x, x # s[i], NEW j \in 1..Len(s), s[j] = x
        PROVE  \E l \in 1..Len(r) : r[l] = x
    <2>1. CASE j < i
      BY <1>1, <1>4, <2>1
    <2>2. CASE j > i
      <3>1. j - 1 \in 1..Len(r) /\ ~(j - 1 < i) /\ (j - 1) + 1 = j
        BY <1>1, <2>2
      <3> QED
        BY <1>1, <1>4, <3>1
    <2> QED
      BY <1>4, <2>1, <2>2
  <1> QED
    BY <1>1, <1>2, <1>3, <1>4 DEF r

LEMMA FirstFacts ==
  ASSUME clientList \in Seq(Thread), NEW S
  PROVE  /\ First(S) \in 0..Len(clientList)
         /\ First(S) = 0 <=> \A i \in 1..Len(clientList) : clientList[i] \notin S
         /\ First(S) # 0 => clientList[First(S)] \in S
  <1> DEFINE I == {i \in 1..Len(clientList) : clientList[i] \in S}
  <1>0. DOMAIN clientList = 1..Len(clientList) /\ Len(clientList) \in Nat
    OBVIOUS
  <1>1. CASE I = {}
    BY <1>0, <1>1 DEF First
  <1>2. CASE I # {}
    <2>1. I \in SUBSET Nat
      OBVIOUS
    <2>2. PICK m \in I : \A n \in I : m <= n
      BY <1>2, <2>1, HasLeast
    <2>3. m \in DOMAIN clientList /\ clientList[m] \in S
          /\ \A j \in 1..(m - 1) : clientList[j] \notin S
      <3>1. m \in 1..Len(clientList) /\ clientList[m] \in S
        OBVIOUS
      <3>2. ASSUME NEW j \in 1..(m - 1), clientList[j] \in S PROVE FALSE
        <4>1. j \in I /\ ~(m <= j)
          BY <1>0, <3>1, <3>2
        <4> QED
          BY <2>2, <4>1
      <3> QED
        BY <1>0, <3>1, <3>2
    <2> DEFINE P(i) == clientList[i] \in S /\ \A j \in 1..(i - 1) : clientList[j] \notin S
    <2>4. First(S) = CHOOSE i \in DOMAIN clientList : P(i)
      BY <2>3 DEF First
    <2>5. \E i \in DOMAIN clientList : P(i)
      BY <2>3
    <2> HIDE DEF P
    <2>6. First(S) \in DOMAIN clientList /\ P(First(S))
      BY <2>4, <2>5
    <2> QED
      BY <1>0, <2>6 DEF P
  <1> QED
    BY <1>1, <1>2

LEMMA SeekFacts ==
  ASSUME clientList \in Seq(Thread), NEW fd
  PROVE  /\ Seek(fd) \in Thread \union {Null}
         /\ Seek(fd) # Null => /\ Seek(fd) \in Thread /\ InList(clientList, Seek(fd))
                               /\ client[Seek(fd)].fd = fd
  <1> DEFINE S == {c \in Thread : client[c].fd = fd}
  <1>1. Seek(fd) = IF First(S) = 0 THEN Null ELSE clientList[First(S)]
    BY DEF Seek
  <1>2. /\ First(S) \in 0..Len(clientList)
        /\ First(S) # 0 => clientList[First(S)] \in S
    BY FirstFacts
  <1>3. CASE First(S) = 0
    BY <1>1, <1>3
  <1>4. CASE First(S) # 0
    <2>1. First(S) \in 1..Len(clientList)
      BY <1>2, <1>4
    <2>2. clientList[First(S)] \in Thread /\ client[clientList[First(S)]].fd = fd
      BY <1>2, <1>4
    <2> QED
      BY <1>1, <1>4, <2>1, <2>2 DEF InList
  <1> QED
    BY <1>3, <1>4

LEMMA DeletedFacts ==
  ASSUME clientList \in Seq(Thread), Distinct(clientList), NEW i \in Nat
  PROVE  /\ Deleted(i) \in Seq(Thread) /\ Distinct(Deleted(i))
         /\ \A x : InList(Deleted(i), x) => InList(clientList, x)
  <1> DEFINE r == Cut(clientList, i)
  <1>1. DOMAIN clientList = 1..Len(clientList)
    OBVIOUS
  <1>2. Deleted(i) = IF counting # Null \/ i \notin 1..Len(clientList) THEN clientList ELSE r
    BY <1>1 DEF Deleted, Cut
  <1>3. CASE i \notin 1..Len(clientList) \/ counting # Null
    BY <1>2, <1>3
  <1>4. CASE i \in 1..Len(clientList) /\ counting = Null
    <2>2. /\ r \in Seq(Thread)
          /\ \A j, k \in 1..Len(r) : j # k => r[j] # r[k]
          /\ \A x : (\E j \in 1..Len(r) : r[j] = x)
                   <=> x # clientList[i] /\ \E j \in 1..Len(clientList) : clientList[j] = x
      BY <1>4, CutKeeps DEF Distinct
    <2> HIDE DEF r
    <2> QED
      BY <1>2, <1>4, <2>2 DEF Distinct, InList
  <1> QED
    BY <1>3, <1>4

LEMMA AppendKeeps ==
  ASSUME NEW T, NEW s \in Seq(T), NEW y \in T
  PROVE  /\ Append(s, y) \in Seq(T) /\ Len(Append(s, y)) = Len(s) + 1
         /\ \A i \in 1..Len(s) : Append(s, y)[i] = s[i]
         /\ Append(s, y)[Len(s) + 1] = y
         /\ \A x : InList(Append(s, y), x) <=> InList(s, x) \/ x = y
         /\ Distinct(s) /\ ~InList(s, y) => Distinct(Append(s, y))
  <1> DEFINE r == Append(s, y)
  <1>1. /\ r \in Seq(T) /\ Len(r) = Len(s) + 1 /\ Len(s) \in Nat
        /\ \A i \in 1..Len(s) : r[i] = s[i]
        /\ r[Len(s) + 1] = y
    OBVIOUS
  <1> HIDE DEF r
  <1>2. \A i \in 1..Len(r) : i \in 1..Len(s) \/ i = Len(s) + 1
    BY <1>1
  <1>3. \A i \in 1..Len(s) : i \in 1..Len(r) /\ i # Len(s) + 1
    BY <1>1
  <1>4. Len(s) + 1 \in 1..Len(r)
    BY <1>1
  <1>5. ASSUME NEW x PROVE InList(r, x) <=> InList(s, x) \/ x = y
    BY <1>1, <1>2, <1>3, <1>4 DEF InList
  <1>6. ASSUME Distinct(s), ~InList(s, y) PROVE Distinct(r)
    BY <1>1, <1>2, <1>3, <1>6 DEF InList, Distinct
  <1> QED
    BY <1>1, <1>5, <1>6 DEF r

LEMMA AcceptFailsSafe ==
  ASSUME IrcSafe, AcceptFails
  PROVE  IrcSafe'
  <1>1. /\ IrcTypes /\ Listed /\ Working /\ Choosing /\ Shared
        /\ RegisteredIsNamed /\ NamedIsRegistered
    BY DEF IrcSafe
  <1>2. /\ \A u \in Thread : thr[u] \in ThreadRec /\ client[u] \in ClientRec
        /\ clientList \in Seq(Thread) /\ Null \notin Nicks /\ Null \notin Thread
    BY <1>1, IrcAssumption DEF IrcTypes, Thread
  <1>3. handlingSocket' \in Fd \union {Null}
    BY DEF AcceptFails
  <1>4. /\ open' = open /\ thr' = thr /\ client' = client /\ clientList' = clientList
        /\ counting' = counting /\ contended' = contended /\ messages' = messages /\ fate' = fate
    BY DEF AcceptFails
  <1>5. IrcTypes'
    BY <1>1, <1>2, <1>3, <1>4 DEF IrcTypes
  <1>6. Listed'
    BY <1>1, <1>2, <1>3, <1>4 DEF Listed
  <1>7. Working'
    BY <1>1, <1>2, <1>3, <1>4 DEF Working
  <1>8. Choosing'
    BY <1>1, <1>2, <1>3, <1>4 DEF Choosing
  <1>9. Shared'
    BY <1>1, <1>2, <1>3, <1>4 DEF Shared
  <1>10. RegisteredIsNamed'
    BY <1>1, <1>2, <1>3, <1>4 DEF RegisteredIsNamed
  <1>11. NamedIsRegistered'
    BY <1>1, <1>2, <1>3, <1>4 DEF NamedIsRegistered
  <1> QED
    BY <1>5, <1>6, <1>7, <1>8, <1>9, <1>10, <1>11 DEF IrcSafe

LEMMA CrashSafe ==
  ASSUME IrcSafe, Crash
  PROVE  IrcSafe'
  <1>1. /\ IrcTypes /\ Listed /\ Working /\ Choosing /\ Shared
        /\ RegisteredIsNamed /\ NamedIsRegistered
    BY DEF IrcSafe
  <1>2. /\ \A u \in Thread : thr[u] \in ThreadRec /\ client[u] \in ClientRec
        /\ clientList \in Seq(Thread) /\ Null \notin Nicks /\ Null \notin Thread
    BY <1>1, IrcAssumption DEF IrcTypes, Thread
  <1>3. fate' \in {"alive", "crashed"}
    BY DEF Crash
  <1>4. /\ handlingSocket' = handlingSocket /\ open' = open /\ thr' = thr /\ client' = client
        /\ clientList' = clientList /\ counting' = counting /\ contended' = contended /\ messages' = messages
    BY DEF Crash
  <1>5. IrcTypes'
    BY <1>1, <1>2, <1>3, <1>4 DEF IrcTypes
  <1>6. Listed'
    BY <1>1, <1>2, <1>3, <1>4 DEF Listed
  <1>7. Working'
    BY <1>1, <1>2, <1>3, <1>4 DEF Working
  <1>8. Choosing'
    BY <1>1, <1>2, <1>3, <1>4 DEF Choosing
  <1>9. Shared'
    BY <1>1, <1>2, <1>3, <1>4 DEF Shared
  <1>10. RegisteredIsNamed'
    BY <1>1, <1>2, <1>3, <1>4 DEF RegisteredIsNamed
  <1>11. NamedIsRegistered'
    BY <1>1, <1>2, <1>3, <1>4 DEF NamedIsRegistered
  <1> QED
    BY <1>5, <1>6, <1>7, <1>8, <1>9, <1>10, <1>11 DEF IrcSafe

LEMMA AcceptSafe ==
  ASSUME IrcSafe, NEW t \in Thread, Accept(t)
  PROVE  IrcSafe'
  <1>1. /\ IrcTypes /\ Listed /\ Working /\ Choosing /\ Shared
        /\ RegisteredIsNamed /\ NamedIsRegistered
    BY DEF IrcSafe
  <1>2. /\ \A u \in Thread : thr[u] \in ThreadRec /\ client[u] \in ClientRec
        /\ clientList \in Seq(Thread) /\ Null \notin Nicks /\ Null \notin Thread
    BY <1>1, IrcAssumption DEF IrcTypes, Thread
  <1>3. thr[t].pc = "none"
    BY DEF Accept, Ready
  <1>4. /\ thr' \in [Thread -> ThreadRec]
        /\ \A u \in Thread \ {t} : thr'[u] = thr[u]
        /\ thr'[t].pc = "start" /\ thr'[t].c = thr[t].c /\ thr'[t].nick = thr[t].nick
    <2> DEFINE y == [thr[t] EXCEPT !.pc = "start"]
    <2>1. thr \in [Thread -> ThreadRec]
      BY <1>1 DEF IrcTypes
    <2>2. thr' = [thr EXCEPT ![t] = y]
      BY <1>2 DEF Accept, Goto
    <2>3. y \in ThreadRec /\ y.pc = "start" /\ y.c = thr[t].c /\ y.nick = thr[t].nick
      BY <1>2 DEF ThreadRec, Label
    <2> HIDE DEF y
    <2> QED
      BY <2>1, <2>2, <2>3
  <1>5. handlingSocket' \in Fd \union {Null} /\ open' \in SUBSET Fd
    BY <1>1 DEF Accept, IrcTypes
  <1>6. /\ client' = client /\ clientList' = clientList /\ counting' = counting /\ contended' = contended
        /\ messages' = messages /\ fate' = fate
    BY DEF Accept
  <1>7. IrcTypes'
    BY <1>1, <1>2, <1>3, <1>4, <1>5, <1>6 DEF IrcTypes
  <1>8. Listed'
    BY <1>1, <1>2, <1>3, <1>4, <1>5, <1>6 DEF Listed
  <1>9. Working'
    BY <1>1, <1>2, <1>3, <1>4, <1>5, <1>6 DEF Working
  <1>10. Choosing'
    BY <1>1, <1>2, <1>3, <1>4, <1>5, <1>6 DEF Choosing
  <1>11. Shared'
    BY <1>1, <1>2, <1>3, <1>4, <1>5, <1>6 DEF Shared
  <1>12. RegisteredIsNamed'
    BY <1>1, <1>2, <1>3, <1>4, <1>5, <1>6 DEF RegisteredIsNamed
  <1>13. NamedIsRegistered'
    BY <1>1, <1>2, <1>3, <1>4, <1>5, <1>6 DEF NamedIsRegistered
  <1> QED
    BY <1>7, <1>8, <1>9, <1>10, <1>11, <1>12, <1>13 DEF IrcSafe

LEMMA StartSafe ==
  ASSUME IrcSafe, NEW t \in Thread, Start(t)
  PROVE  IrcSafe'
  <1>1. /\ IrcTypes /\ Listed /\ Working /\ Choosing /\ Shared
        /\ RegisteredIsNamed /\ NamedIsRegistered
    BY DEF IrcSafe
  <1>2. /\ \A u \in Thread : thr[u] \in ThreadRec /\ client[u] \in ClientRec
        /\ clientList \in Seq(Thread) /\ Null \notin Nicks /\ Null \notin Thread
    BY <1>1, IrcAssumption DEF IrcTypes, Thread
  <1>3. thr[t].pc = "start"
    BY DEF Start, Ready
  <1>4. handlingSocket \in Fd \union {Null}
    BY <1>1 DEF IrcTypes
  <1>5. /\ thr' \in [Thread -> ThreadRec]
        /\ \A u \in Thread \ {t} : thr'[u] = thr[u]
        /\ thr'[t].pc = "append" /\ thr'[t].c = thr[t].c /\ thr'[t].nick = thr[t].nick
    <2> DEFINE y == [thr[t] EXCEPT !.pc = "append", !.fd = handlingSocket]
    <2>1. thr \in [Thread -> ThreadRec]
      BY <1>1 DEF IrcTypes
    <2>2. thr' = [thr EXCEPT ![t] = y]
      BY <1>2 DEF Start, Goto
    <2>3. y \in ThreadRec /\ y.pc = "append" /\ y.c = thr[t].c /\ y.nick = thr[t].nick
      BY <1>2, <1>4 DEF ThreadRec, Label
    <2> HIDE DEF y
    <2> QED
      BY <2>1, <2>2, <2>3
  <1>6. /\ client' \in [Thread -> ClientRec]
        /\ \A u \in Thread \ {t} : client'[u] = client[u]
        /\ client'[t].nick = Null /\ client'[t].registered = FALSE
    <2> DEFINE y == [NoClient EXCEPT !.fd = handlingSocket]
    <2>1. client \in [Thread -> ClientRec]
      BY <1>1 DEF IrcTypes
    <2>2. client' = [client EXCEPT ![t] = y]
      BY DEF Start
    <2>3. y \in ClientRec /\ y.nick = Null /\ y.registered = FALSE
      <3>1. handlingSocket \in Fd \union {Null}
        BY <1>1 DEF IrcTypes
      <3> QED
        BY <3>1 DEF NoClient, ClientRec
    <2> HIDE DEF y
    <2> QED
      BY <2>1, <2>2, <2>3
  <1>7. /\ handlingSocket' = handlingSocket /\ open' = open /\ clientList' = clientList /\ counting' = counting
        /\ contended' = contended /\ messages' = messages /\ fate' = fate
    BY DEF Start
  <1>8. IrcTypes'
    BY <1>1, <1>2, <1>3, <1>4, <1>5, <1>6, <1>7 DEF IrcTypes
  <1>9. Listed'
    BY <1>1, <1>2, <1>3, <1>4, <1>5, <1>6, <1>7 DEF Listed
  <1>10. Working'
    BY <1>1, <1>2, <1>3, <1>4, <1>5, <1>6, <1>7 DEF Working
  <1>11. Choosing'
    BY <1>1, <1>2, <1>3, <1>4, <1>5, <1>6, <1>7 DEF Choosing, Listed
  <1>12. Shared'
    BY <1>1, <1>2, <1>3, <1>4, <1>5, <1>6, <1>7 DEF Shared
  <1>13. RegisteredIsNamed'
    BY <1>1, <1>2, <1>3, <1>4, <1>5, <1>6, <1>7 DEF RegisteredIsNamed
  <1>14. NamedIsRegistered'
    BY <1>1, <1>2, <1>3, <1>4, <1>5, <1>6, <1>7 DEF NamedIsRegistered
  <1> QED
    BY <1>8, <1>9, <1>10, <1>11, <1>12, <1>13, <1>14 DEF IrcSafe

LEMMA AppendClientSafe ==
  ASSUME IrcSafe, NEW t \in Thread, AppendClient(t)
  PROVE  IrcSafe'
  <1>1. /\ IrcTypes /\ Listed /\ Working /\ Choosing /\ Shared
        /\ RegisteredIsNamed /\ NamedIsRegistered
    BY DEF IrcSafe
  <1>2. /\ \A u \in Thread : thr[u] \in ThreadRec /\ client[u] \in ClientRec
        /\ clientList \in Seq(Thread) /\ Null \notin Nicks /\ Null \notin Thread
    BY <1>1, IrcAssumption DEF IrcTypes, Thread
  <1>3. thr[t].pc = "append"
    BY DEF AppendClient, Ready
  <1>4. /\ thr' \in [Thread -> ThreadRec]
        /\ \A u \in Thread \ {t} : thr'[u] = thr[u]
        /\ thr'[t].pc = "recv" /\ thr'[t].c = thr[t].c /\ thr'[t].nick = thr[t].nick
    <2> DEFINE y == [thr[t] EXCEPT !.pc = "recv"]
    <2>1. thr \in [Thread -> ThreadRec]
      BY <1>1 DEF IrcTypes
    <2>2. thr' = [thr EXCEPT ![t] = y]
      BY <1>2 DEF AppendClient, Goto
    <2>3. y \in ThreadRec /\ y.pc = "recv" /\ y.c = thr[t].c /\ y.nick = thr[t].nick
      BY <1>2 DEF ThreadRec, Label
    <2> HIDE DEF y
    <2> QED
      BY <2>1, <2>2, <2>3
  <1>5. /\ clientList' \in Seq(Thread)
        /\ \A x : InList(clientList', x) <=> InList(clientList, x) \/ x = t
        /\ Distinct(clientList) /\ ~InList(clientList, t) => Distinct(clientList')
    BY <1>2, AppendKeeps DEF AppendClient
  <1>6. ~InList(clientList, t) /\ client[t].nick = Null
    BY <1>1, <1>3 DEF Listed
  <1>7. /\ handlingSocket' = handlingSocket /\ open' = open /\ client' = client /\ counting' = counting
        /\ contended' = contended /\ messages' = messages /\ fate' = fate
    BY DEF AppendClient
  <1>8. IrcTypes'
    BY <1>1, <1>2, <1>3, <1>4, <1>5, <1>6, <1>7 DEF IrcTypes
  <1>9. Listed'
    BY <1>1, <1>2, <1>3, <1>4, <1>5, <1>6, <1>7 DEF Listed
  <1>10. Working'
    BY <1>1, <1>2, <1>3, <1>4, <1>5, <1>6, <1>7 DEF Working
  <1>11. Choosing'
    BY <1>1, <1>2, <1>3, <1>4, <1>5, <1>6, <1>7 DEF Choosing, Working
  <1>12. Shared'
    BY <1>1, <1>2, <1>3, <1>4, <1>5, <1>6, <1>7 DEF Shared
  <1>13. RegisteredIsNamed'
    BY <1>1, <1>2, <1>3, <1>4, <1>5, <1>6, <1>7 DEF RegisteredIsNamed
  <1>14. NamedIsRegistered'
    BY <1>1, <1>2, <1>3, <1>4, <1>5, <1>6, <1>7 DEF NamedIsRegistered
  <1> QED
    BY <1>8, <1>9, <1>10, <1>11, <1>12, <1>13, <1>14 DEF IrcSafe

LEMMA NickSafe ==
  ASSUME IrcSafe, NEW t \in Thread, NEW nick \in Nicks, Nick(t, nick)
  PROVE  IrcSafe'
  <1>1. /\ IrcTypes /\ Listed /\ Working /\ Choosing /\ Shared
        /\ RegisteredIsNamed /\ NamedIsRegistered
    BY DEF IrcSafe
  <1>2. /\ \A u \in Thread : thr[u] \in ThreadRec /\ client[u] \in ClientRec
        /\ clientList \in Seq(Thread) /\ Null \notin Nicks /\ Null \notin Thread
    BY <1>1, IrcAssumption DEF IrcTypes, Thread
  <1>3. thr[t].pc = "recv"
    BY DEF Nick, Ready, Receive
  <1>4. messages' \in 0..MaxMessages
    <2>1. messages \in 0..MaxMessages /\ messages < MaxMessages /\ messages' = messages + 1
      BY <1>1 DEF Nick, Receive, IrcTypes
    <2> QED
      BY <2>1, IrcAssumption
  <1>5. /\ handlingSocket' = handlingSocket /\ open' = open /\ client' = client /\ clientList' = clientList
        /\ counting' = counting /\ fate' = fate
    BY DEF Nick
  <1>6. Locate(nick) # 0 => thr' = thr /\ contended' = contended
    BY DEF Nick
  <1>7. Locate(nick) = 0 =>
          /\ thr' \in [Thread -> ThreadRec]
          /\ \A u \in Thread \ {t} : thr'[u] = thr[u]
          /\ thr'[t].pc = "nick" /\ thr'[t].nick = nick
          /\ \A c \in Thread : InList(clientList, c) => client[c].nick # nick
          /\ contended' \in SUBSET Nicks /\ contended \subseteq contended'
          /\ \A u \in Thread \ {t} : thr[u].pc = "nick" /\ thr[u].nick = nick => nick \in contended'
    <2> SUFFICES ASSUME Locate(nick) = 0
                 PROVE  /\ thr' \in [Thread -> ThreadRec]
                        /\ \A u \in Thread \ {t} : thr'[u] = thr[u]
                        /\ thr'[t].pc = "nick" /\ thr'[t].nick = nick
                        /\ \A c \in Thread : InList(clientList, c) => client[c].nick # nick
                        /\ contended' \in SUBSET Nicks /\ contended \subseteq contended'
                        /\ \A u \in Thread \ {t} :
                             thr[u].pc = "nick" /\ thr[u].nick = nick => nick \in contended'
      OBVIOUS
    <2> DEFINE y == [thr[t] EXCEPT !.pc = "nick", !.nick = nick]
    <2>1. thr \in [Thread -> ThreadRec] /\ contended \in SUBSET Nicks
      BY <1>1 DEF IrcTypes
    <2>2. thr' = [thr EXCEPT ![t] = y]
      BY DEF Nick
    <2>3. y \in ThreadRec /\ y.pc = "nick" /\ y.nick = nick
      BY <1>2 DEF ThreadRec, Label
    <2> HIDE DEF y
    <2>4. \A i \in 1..Len(clientList) : client[clientList[i]].nick # nick
      <3> DEFINE S == {c \in Thread : client[c].nick = nick}
      <3>1. First(S) = 0
        BY DEF Locate
      <3>2. \A i \in 1..Len(clientList) : clientList[i] \notin S
        BY <1>2, <3>1, FirstFacts
      <3>3. \A i \in 1..Len(clientList) : clientList[i] \in Thread
        BY <1>2
      <3> QED
        BY <3>2, <3>3
    <2>5. contended' = IF Rival(t, nick) THEN contended \union {nick} ELSE contended
      BY DEF Nick
    <2>6. contended' \in SUBSET Nicks /\ contended \subseteq contended'
      BY <2>1, <2>5
    <2>7. \A u \in Thread \ {t} : thr[u].pc = "nick" /\ thr[u].nick = nick => nick \in contended'
      BY <2>5 DEF Rival
    <2> QED
      BY <2>1, <2>2, <2>3, <2>4, <2>6, <2>7 DEF InList
  <1>8. IrcTypes'
    <2>1. CASE Locate(nick) # 0
      BY <1>1, <1>4, <1>5, <1>6, <2>1 DEF IrcTypes
    <2>2. CASE Locate(nick) = 0
      BY <1>1, <1>2, <1>3, <1>4, <1>5, <1>7, <2>2 DEF IrcTypes
    <2> QED
      BY <2>1, <2>2
  <1>9. Listed'
    <2>1. CASE Locate(nick) # 0
      BY <1>1, <1>4, <1>5, <1>6, <2>1 DEF Listed
    <2>2. CASE Locate(nick) = 0
      BY <1>1, <1>2, <1>3, <1>4, <1>5, <1>7, <2>2 DEF Listed
    <2> QED
      BY <2>1, <2>2
  <1>10. Working'
    <2>1. CASE Locate(nick) # 0
      BY <1>1, <1>4, <1>5, <1>6, <2>1 DEF Working
    <2>2. CASE Locate(nick) = 0
      BY <1>1, <1>2, <1>3, <1>4, <1>5, <1>7, <2>2 DEF Working
    <2> QED
      BY <2>1, <2>2
  <1>11. Choosing'
    <2>1. CASE Locate(nick) # 0
      BY <1>1, <1>4, <1>5, <1>6, <2>1 DEF Choosing
    <2>2. CASE Locate(nick) = 0
      BY <1>1, <1>2, <1>3, <1>4, <1>5, <1>7, <2>2 DEF Choosing
    <2> QED
      BY <2>1, <2>2
  <1>12. Shared'
    <2>1. CASE Locate(nick) # 0
      BY <1>1, <1>4, <1>5, <1>6, <2>1 DEF Shared
    <2>2. CASE Locate(nick) = 0
      BY <1>1, <1>2, <1>3, <1>4, <1>5, <1>7, <2>2 DEF Shared
    <2> QED
      BY <2>1, <2>2
  <1>13. RegisteredIsNamed'
    <2>1. CASE Locate(nick) # 0
      BY <1>1, <1>4, <1>5, <1>6, <2>1 DEF RegisteredIsNamed
    <2>2. CASE Locate(nick) = 0
      BY <1>1, <1>2, <1>3, <1>4, <1>5, <1>7, <2>2 DEF RegisteredIsNamed
    <2> QED
      BY <2>1, <2>2
  <1>14. NamedIsRegistered'
    <2>1. CASE Locate(nick) # 0
      BY <1>1, <1>4, <1>5, <1>6, <2>1 DEF NamedIsRegistered
    <2>2. CASE Locate(nick) = 0
      BY <1>1, <1>2, <1>3, <1>4, <1>5, <1>7, <2>2 DEF NamedIsRegistered
    <2> QED
      BY <2>1, <2>2
  <1> QED
    BY <1>8, <1>9, <1>10, <1>11, <1>12, <1>13, <1>14 DEF IrcSafe

LEMMA SetNickSafe ==
  ASSUME IrcSafe, NEW t \in Thread, SetNick(t), NEW c, c = Seek(thr[t].fd), c # Null
  PROVE  IrcSafe'
  <1>1. /\ IrcTypes /\ Listed /\ Working /\ Choosing /\ Shared
        /\ RegisteredIsNamed /\ NamedIsRegistered
    BY DEF IrcSafe
  <1>2. /\ \A u \in Thread : thr[u] \in ThreadRec /\ client[u] \in ClientRec
        /\ clientList \in Seq(Thread) /\ Null \notin Nicks /\ Null \notin Thread
    BY <1>1, IrcAssumption DEF IrcTypes, Thread
  <1>3. thr[t].pc = "nick" /\ thr[t].nick \in Nicks
    BY <1>1 DEF SetNick, Ready, Working
  <1>4. c \in Thread /\ c = Seek(thr[t].fd) /\ c # Null /\ InList(clientList, c)
    BY <1>2, SeekFacts
  <1>5. /\ thr' \in [Thread -> ThreadRec]
        /\ \A u \in Thread \ {t} : thr'[u] = thr[u]
        /\ thr'[t].pc = "welcome" /\ thr'[t].c = c
    <2> DEFINE y == [thr[t] EXCEPT !.pc = "welcome", !.nick = Null, !.c = c]
    <2>1. thr \in [Thread -> ThreadRec]
      BY <1>1 DEF IrcTypes
    <2>2. thr' = [thr EXCEPT ![t] = y]
      BY <1>4, <1>2 DEF SetNick, Goto
    <2>3. y \in ThreadRec /\ y.pc = "welcome" /\ y.c = c
      BY <1>4, <1>2 DEF ThreadRec, Label
    <2> HIDE DEF y
    <2> QED
      BY <2>1, <2>2, <2>3
  <1>6. /\ client' \in [Thread -> ClientRec]
        /\ \A u \in Thread \ {c} : client'[u] = client[u]
        /\ client'[c].nick = thr[t].nick /\ client'[c].user = client[c].user
        /\ client'[c].registered = client[c].registered
    <2> DEFINE y == [client[c] EXCEPT !.nick = thr[t].nick]
    <2>1. client \in [Thread -> ClientRec]
      BY <1>1 DEF IrcTypes
    <2>2. client' = [client EXCEPT ![c] = y]
      BY <1>4 DEF SetNick, NickSet
    <2>3. y \in ClientRec /\ y.nick = thr[t].nick /\ y.user = client[c].user
    /\ y.registered = client[c].registered
      BY <1>2, <1>3, <1>4 DEF ClientRec
    <2> HIDE DEF y
    <2> QED
      BY <1>4, <2>1, <2>2, <2>3
  <1>7. /\ handlingSocket' = handlingSocket /\ open' = open /\ clientList' = clientList /\ counting' = counting
        /\ contended' = contended /\ messages' = messages /\ fate' = fate
    BY <1>4 DEF SetNick
  <1>8. IrcTypes'
    BY <1>1, <1>2, <1>3, <1>4, <1>5, <1>6, <1>7 DEF IrcTypes
  <1>9. Listed'
    BY <1>1, <1>2, <1>3, <1>4, <1>5, <1>6, <1>7 DEF Listed
  <1>10. Working'
    BY <1>1, <1>2, <1>3, <1>4, <1>5, <1>6, <1>7 DEF Working
  <1>11. Choosing'
    BY <1>1, <1>2, <1>3, <1>4, <1>5, <1>6, <1>7 DEF Choosing
  <1>12. Shared'
    <2> SUFFICES ASSUME NEW d \in Thread, NEW e \in Thread, d # e,
                        InList(clientList, d), InList(clientList, e),
                        client'[d].nick = client'[e].nick
                 PROVE  client'[d].nick \in contended \union {Null}
      BY <1>7 DEF Shared
    <2>1. CASE d # c /\ e # c
      BY <1>1, <1>6, <2>1 DEF Shared
    <2>2. CASE d = c
      <3>1. client[e].nick = thr[t].nick
        BY <1>6, <2>2
      <3> QED
        BY <1>1, <1>3, <1>6, <2>2, <3>1 DEF Choosing
    <2>3. CASE e = c
      <3>1. client[d].nick = thr[t].nick
        BY <1>6, <2>3
      <3> QED
        BY <1>1, <1>3, <1>6, <2>3, <3>1 DEF Choosing
    <2> QED
      BY <2>1, <2>2, <2>3
  <1>13. RegisteredIsNamed'
    BY <1>1, <1>2, <1>3, <1>4, <1>5, <1>6, <1>7 DEF RegisteredIsNamed
  <1>14. NamedIsRegistered'
    BY <1>1, <1>2, <1>3, <1>4, <1>5, <1>6, <1>7 DEF NamedIsRegistered
  <1> QED
    BY <1>8, <1>9, <1>10, <1>11, <1>12, <1>13, <1>14 DEF IrcSafe

LEMMA UserSafe ==
  ASSUME IrcSafe, NEW t \in Thread, User(t), NEW c, c = Seek(thr[t].fd), c # Null
  PROVE  IrcSafe'
  <1>1. /\ IrcTypes /\ Listed /\ Working /\ Choosing /\ Shared
        /\ RegisteredIsNamed /\ NamedIsRegistered
    BY DEF IrcSafe
  <1>2. /\ \A u \in Thread : thr[u] \in ThreadRec /\ client[u] \in ClientRec
        /\ clientList \in Seq(Thread) /\ Null \notin Nicks /\ Null \notin Thread
    BY <1>1, IrcAssumption DEF IrcTypes, Thread
  <1>3. thr[t].pc = "recv"
    BY DEF User, Ready, Receive
  <1>4. c \in Thread /\ c = Seek(thr[t].fd) /\ c # Null /\ InList(clientList, c)
    BY <1>2, SeekFacts
  <1>5. /\ thr' \in [Thread -> ThreadRec]
        /\ \A u \in Thread \ {t} : thr'[u] = thr[u]
        /\ thr'[t].pc = "welcome" /\ thr'[t].c = c
    <2> DEFINE y == [thr[t] EXCEPT !.pc = "welcome", !.c = c]
    <2>1. thr \in [Thread -> ThreadRec]
      BY <1>1 DEF IrcTypes
    <2>2. thr' = [thr EXCEPT ![t] = y]
      BY <1>4, <1>2 DEF User, Goto
    <2>3. y \in ThreadRec /\ y.pc = "welcome" /\ y.c = c
      BY <1>4, <1>2 DEF ThreadRec, Label
    <2> HIDE DEF y
    <2> QED
      BY <2>1, <2>2, <2>3
  <1>6. /\ client' \in [Thread -> ClientRec]
        /\ \A u \in Thread \ {c} : client'[u] = client[u]
        /\ client'[c].nick = client[c].nick /\ client'[c].user = TRUE
        /\ client'[c].registered = client[c].registered
    <2> DEFINE y == [client[c] EXCEPT !.user = TRUE]
    <2>1. client \in [Thread -> ClientRec]
      BY <1>1 DEF IrcTypes
    <2>2. client' = [client EXCEPT ![c] = y]
      BY <1>4 DEF User
    <2>3. y \in ClientRec /\ y.nick = client[c].nick /\ y.user = TRUE
    /\ y.registered = client[c].registered
      BY <1>2, <1>3, <1>4 DEF ClientRec
    <2> HIDE DEF y
    <2> QED
      BY <1>4, <2>1, <2>2, <2>3
  <1>7. messages' \in 0..MaxMessages
    <2>1. messages \in 0..MaxMessages /\ messages < MaxMessages /\ messages' = messages + 1
      BY <1>1 DEF User, Receive, IrcTypes
    <2> QED
      BY <2>1, IrcAssumption
  <1>8. /\ handlingSocket' = handlingSocket /\ open' = open /\ clientList' = clientList /\ counting' = counting
        /\ contended' = contended /\ fate' = fate
    BY <1>4 DEF User
  <1>9. IrcTypes'
    BY <1>1, <1>2, <1>3, <1>4, <1>5, <1>6, <1>7, <1>8 DEF IrcTypes
  <1>10. Listed'
    BY <1>1, <1>2, <1>3, <1>4, <1>5, <1>6, <1>7, <1>8 DEF Listed
  <1>11. Working'
    BY <1>1, <1>2, <1>3, <1>4, <1>5, <1>6, <1>7, <1>8 DEF Working
  <1>12. Choosing'
    BY <1>1, <1>2, <1>3, <1>4, <1>5, <1>6, <1>7, <1>8 DEF Choosing
  <1>13. Shared'
    BY <1>1, <1>2, <1>3, <1>4, <1>5, <1>6, <1>7, <1>8 DEF Shared
  <1>14. RegisteredIsNamed'
    BY <1>1, <1>2, <1>3, <1>4, <1>5, <1>6, <1>7, <1>8 DEF RegisteredIsNamed
  <1>15. NamedIsRegistered'
    BY <1>1, <1>2, <1>3, <1>4, <1>5, <1>6, <1>7, <1>8 DEF NamedIsRegistered
  <1> QED
    BY <1>9, <1>10, <1>11, <1>12, <1>13, <1>14, <1>15 DEF IrcSafe

LEMMA UserCrashSafe ==
  ASSUME IrcSafe, NEW t \in Thread, User(t), Seek(thr[t].fd) = Null
  PROVE  IrcSafe'
  <1>1. /\ IrcTypes /\ Listed /\ Working /\ Choosing /\ Shared
        /\ RegisteredIsNamed /\ NamedIsRegistered
    BY DEF IrcSafe
  <1>2. /\ \A u \in Thread : thr[u] \in ThreadRec /\ client[u] \in ClientRec
        /\ clientList \in Seq(Thread) /\ Null \notin Nicks /\ Null \notin Thread
    BY <1>1, IrcAssumption DEF IrcTypes, Thread
  <1>3. messages' \in 0..MaxMessages
    <2>1. messages \in 0..MaxMessages /\ messages < MaxMessages /\ messages' = messages + 1
      BY <1>1 DEF User, Receive, IrcTypes
    <2> QED
      BY <2>1, IrcAssumption
  <1>4. /\ handlingSocket' = handlingSocket /\ open' = open /\ thr' = thr /\ client' = client
        /\ clientList' = clientList /\ counting' = counting /\ contended' = contended
    BY DEF User
  <1>5. fate' = "crashed"
    BY DEF User
  <1>6. IrcTypes'
    BY <1>1, <1>2, <1>3, <1>4, <1>5 DEF IrcTypes
  <1>7. Listed'
    BY <1>1, <1>2, <1>3, <1>4, <1>5 DEF Listed
  <1>8. Working'
    BY <1>1, <1>2, <1>3, <1>4, <1>5 DEF Working
  <1>9. Choosing'
    BY <1>1, <1>2, <1>3, <1>4, <1>5 DEF Choosing
  <1>10. Shared'
    BY <1>1, <1>2, <1>3, <1>4, <1>5 DEF Shared
  <1>11. RegisteredIsNamed'
    BY <1>1, <1>2, <1>3, <1>4, <1>5 DEF RegisteredIsNamed
  <1>12. NamedIsRegistered'
    BY <1>1, <1>2, <1>3, <1>4, <1>5 DEF NamedIsRegistered
  <1> QED
    BY <1>6, <1>7, <1>8, <1>9, <1>10, <1>11, <1>12 DEF IrcSafe

LEMMA WelcomeSafe ==
  ASSUME IrcSafe, NEW t \in Thread, Welcome(t), NEW c, c = thr[t].c
  PROVE  IrcSafe'
  <1>1. /\ IrcTypes /\ Listed /\ Working /\ Choosing /\ Shared
        /\ RegisteredIsNamed /\ NamedIsRegistered
    BY DEF IrcSafe
  <1>2. /\ \A u \in Thread : thr[u] \in ThreadRec /\ client[u] \in ClientRec
        /\ clientList \in Seq(Thread) /\ Null \notin Nicks /\ Null \notin Thread
    BY <1>1, IrcAssumption DEF IrcTypes, Thread
  <1>3. thr[t].pc = "welcome" /\ c \in Thread /\ c = thr[t].c
    BY <1>1 DEF Welcome, Ready, Working
  <1>4. Complete(c) <=> client[c].nick # Null /\ client[c].user
    BY DEF Complete
  <1>5. /\ thr' \in [Thread -> ThreadRec]
        /\ \A u \in Thread \ {t} : thr'[u] = thr[u]
        /\ thr'[t].pc \in {"lusers", "recv"}
    <2> DEFINE y == [thr[t] EXCEPT !.pc = IF Complete(c) THEN "lusers" ELSE "recv",
                                   !.c = IF Complete(c) THEN c ELSE Null]
    <2>1. thr \in [Thread -> ThreadRec]
      BY <1>1 DEF IrcTypes
    <2>2. thr' = [thr EXCEPT ![t] = y]
      BY <1>3 DEF Welcome
    <2>3. y \in ThreadRec /\ y.pc \in {"lusers", "recv"}
      <3>1. CASE Complete(c)
        BY <1>2, <1>3, <3>1 DEF ThreadRec, Label
      <3>2. CASE ~Complete(c)
        BY <1>2, <3>2 DEF ThreadRec, Label
      <3> QED
        BY <3>1, <3>2
    <2> HIDE DEF y
    <2> QED
      BY <2>1, <2>2, <2>3
  <1>6. /\ client' \in [Thread -> ClientRec]
        /\ \A u \in Thread : client'[u].nick = client[u].nick /\ client'[u].user = client[u].user
        /\ \A u \in Thread \ {c} : client'[u] = client[u]
        /\ Complete(c) => client'[c].registered = TRUE
        /\ ~Complete(c) => client'[c] = client[c]
    <2> DEFINE y == [client[c] EXCEPT !.registered = TRUE]
    <2>1. client \in [Thread -> ClientRec]
      BY <1>1 DEF IrcTypes
    <2>2. client' = IF Complete(c) THEN [client EXCEPT ![c] = y] ELSE client
      BY <1>3 DEF Welcome, Registered
    <2>3. y \in ClientRec /\ y.registered = TRUE /\ y.nick = client[c].nick /\ y.user = client[c].user
      BY <1>2, <1>3 DEF ClientRec
    <2> HIDE DEF y
    <2> QED
      BY <1>3, <2>1, <2>2, <2>3
  <1>7. /\ handlingSocket' = handlingSocket /\ open' = open /\ clientList' = clientList /\ counting' = counting
        /\ contended' = contended /\ messages' = messages /\ fate' = fate
    BY DEF Welcome
  <1>8. IrcTypes'
    BY <1>1, <1>2, <1>3, <1>4, <1>5, <1>6, <1>7 DEF IrcTypes
  <1>9. Listed'
    BY <1>1, <1>2, <1>3, <1>4, <1>5, <1>6, <1>7 DEF Listed
  <1>10. Working'
    BY <1>1, <1>2, <1>3, <1>4, <1>5, <1>6, <1>7 DEF Working
  <1>11. Choosing'
    BY <1>1, <1>2, <1>3, <1>4, <1>5, <1>6, <1>7 DEF Choosing
  <1>12. Shared'
    BY <1>1, <1>2, <1>3, <1>4, <1>5, <1>6, <1>7 DEF Shared
  <1>13. RegisteredIsNamed'
    BY <1>1, <1>2, <1>3, <1>4, <1>5, <1>6, <1>7 DEF RegisteredIsNamed
  <1>14. NamedIsRegistered'
    BY <1>1, <1>2, <1>3, <1>4, <1>5, <1>6, <1>7 DEF NamedIsRegistered
  <1> QED
    BY <1>8, <1>9, <1>10, <1>11, <1>12, <1>13, <1>14 DEF IrcSafe

LEMMA AskSafe ==
  ASSUME IrcSafe, NEW t \in Thread, Ask(t)
  PROVE  IrcSafe'
  <1>1. /\ IrcTypes /\ Listed /\ Working /\ Choosing /\ Shared
        /\ RegisteredIsNamed /\ NamedIsRegistered
    BY DEF IrcSafe
  <1>2. /\ \A u \in Thread : thr[u] \in ThreadRec /\ client[u] \in ClientRec
        /\ clientList \in Seq(Thread) /\ Null \notin Nicks /\ Null \notin Thread
    BY <1>1, IrcAssumption DEF IrcTypes, Thread
  <1>3. thr[t].pc = "recv"
    BY DEF Ask, Ready, Receive
  <1>4. /\ thr' \in [Thread -> ThreadRec]
        /\ \A u \in Thread \ {t} : thr'[u] = thr[u]
        /\ thr'[t].pc \in {"lusers", "motd"}
    <2>0. PICK label \in {"lusers", "motd"} : Goto(t, label)
      BY DEF Ask
    <2> DEFINE y == [thr[t] EXCEPT !.pc = label]
    <2>1. thr \in [Thread -> ThreadRec]
      BY <1>1 DEF IrcTypes
    <2>2. thr' = [thr EXCEPT ![t] = y]
      BY <2>0 DEF Goto
    <2>3. y \in ThreadRec /\ y.pc = label
      BY <1>2 DEF ThreadRec, Label
    <2> HIDE DEF y
    <2> QED
      BY <2>1, <2>2, <2>3
  <1>5. messages' \in 0..MaxMessages
    <2>1. messages \in 0..MaxMessages /\ messages < MaxMessages /\ messages' = messages + 1
      BY <1>1 DEF Ask, Receive, IrcTypes
    <2> QED
      BY <2>1, IrcAssumption
  <1>6. /\ handlingSocket' = handlingSocket /\ open' = open /\ client' = client /\ clientList' = clientList
        /\ counting' = counting /\ contended' = contended /\ fate' = fate
    BY DEF Ask
  <1>7. IrcTypes'
    BY <1>1, <1>2, <1>3, <1>4, <1>5, <1>6 DEF IrcTypes
  <1>8. Listed'
    BY <1>1, <1>2, <1>3, <1>4, <1>5, <1>6 DEF Listed
  <1>9. Working'
    BY <1>1, <1>2, <1>3, <1>4, <1>5, <1>6 DEF Working
  <1>10. Choosing'
    BY <1>1, <1>2, <1>3, <1>4, <1>5, <1>6 DEF Choosing
  <1>11. Shared'
    BY <1>1, <1>2, <1>3, <1>4, <1>5, <1>6 DEF Shared
  <1>12. RegisteredIsNamed'
    BY <1>1, <1>2, <1>3, <1>4, <1>5, <1>6 DEF RegisteredIsNamed
  <1>13. NamedIsRegistered'
    BY <1>1, <1>2, <1>3, <1>4, <1>5, <1>6 DEF NamedIsRegistered
  <1> QED
    BY <1>7, <1>8, <1>9, <1>10, <1>11, <1>12, <1>13 DEF IrcSafe

LEMMA CountSafe ==
  ASSUME IrcSafe, NEW t \in Thread, Count(t)
  PROVE  IrcSafe'
  <1>1. /\ IrcTypes /\ Listed /\ Working /\ Choosing /\ Shared
        /\ RegisteredIsNamed /\ NamedIsRegistered
    BY DEF IrcSafe
  <1>2. /\ \A u \in Thread : thr[u] \in ThreadRec /\ client[u] \in ClientRec
        /\ clientList \in Seq(Thread) /\ Null \notin Nicks /\ Null \notin Thread
    BY <1>1, IrcAssumption DEF IrcTypes, Thread
  <1>3. thr[t].pc = "lusers"
    BY DEF Count, Ready
  <1>4. /\ thr' \in [Thread -> ThreadRec]
        /\ \A u \in Thread \ {t} : thr'[u] = thr[u]
        /\ thr'[t].pc = "counting" /\ thr'[t].c = thr[t].c /\ thr'[t].nick = thr[t].nick
    <2> DEFINE y == [thr[t] EXCEPT !.pc = "counting"]
    <2>1. thr \in [Thread -> ThreadRec]
      BY <1>1 DEF IrcTypes
    <2>2. thr' = [thr EXCEPT ![t] = y]
      BY <1>2 DEF Count, Goto
    <2>3. y \in ThreadRec /\ y.pc = "counting" /\ y.c = thr[t].c /\ y.nick = thr[t].nick
      BY <1>2 DEF ThreadRec, Label
    <2> HIDE DEF y
    <2> QED
      BY <2>1, <2>2, <2>3
  <1>5. counting' \in Thread \union {Null}
    BY DEF Count
  <1>6. /\ handlingSocket' = handlingSocket /\ open' = open /\ client' = client /\ clientList' = clientList
        /\ contended' = contended /\ messages' = messages /\ fate' = fate
    BY DEF Count
  <1>7. IrcTypes'
    BY <1>1, <1>2, <1>3, <1>4, <1>5, <1>6 DEF IrcTypes
  <1>8. Listed'
    BY <1>1, <1>2, <1>3, <1>4, <1>5, <1>6 DEF Listed
  <1>9. Working'
    BY <1>1, <1>2, <1>3, <1>4, <1>5, <1>6 DEF Working
  <1>10. Choosing'
    BY <1>1, <1>2, <1>3, <1>4, <1>5, <1>6 DEF Choosing
  <1>11. Shared'
    BY <1>1, <1>2, <1>3, <1>4, <1>5, <1>6 DEF Shared
  <1>12. RegisteredIsNamed'
    BY <1>1, <1>2, <1>3, <1>4, <1>5, <1>6 DEF RegisteredIsNamed
  <1>13. NamedIsRegistered'
    BY <1>1, <1>2, <1>3, <1>4, <1>5, <1>6 DEF NamedIsRegistered
  <1> QED
    BY <1>7, <1>8, <1>9, <1>10, <1>11, <1>12, <1>13 DEF IrcSafe

LEMMA CountedSafe ==
  ASSUME IrcSafe, NEW t \in Thread, Counted(t)
  PROVE  IrcSafe'
  <1>1. /\ IrcTypes /\ Listed /\ Working /\ Choosing /\ Shared
        /\ RegisteredIsNamed /\ NamedIsRegistered
    BY DEF IrcSafe
  <1>2. /\ \A u \in Thread : thr[u] \in ThreadRec /\ client[u] \in ClientRec
        /\ clientList \in Seq(Thread) /\ Null \notin Nicks /\ Null \notin Thread
    BY <1>1, IrcAssumption DEF IrcTypes, Thread
  <1>3. thr[t].pc = "counting"
    BY DEF Counted, Ready
  <1>4. /\ thr' \in [Thread -> ThreadRec]
        /\ \A u \in Thread \ {t} : thr'[u] = thr[u]
        /\ thr'[t].pc = "answer" /\ thr'[t].c = thr[t].c /\ thr'[t].nick = thr[t].nick
    <2> DEFINE y == [thr[t] EXCEPT !.pc = "answer"]
    <2>1. thr \in [Thread -> ThreadRec]
      BY <1>1 DEF IrcTypes
    <2>2. thr' = [thr EXCEPT ![t] = y]
      BY <1>2 DEF Counted, Goto
    <2>3. y \in ThreadRec /\ y.pc = "answer" /\ y.c = thr[t].c /\ y.nick = thr[t].nick
      BY <1>2 DEF ThreadRec, Label
    <2> HIDE DEF y
    <2> QED
      BY <2>1, <2>2, <2>3
  <1>5. counting' \in Thread \union {Null}
    BY DEF Counted
  <1>6. /\ handlingSocket' = handlingSocket /\ open' = open /\ client' = client /\ clientList' = clientList
        /\ contended' = contended /\ messages' = messages /\ fate' = fate
    BY DEF Counted
  <1>7. IrcTypes'
    BY <1>1, <1>2, <1>3, <1>4, <1>5, <1>6 DEF IrcTypes
  <1>8. Listed'
    BY <1>1, <1>2, <1>3, <1>4, <1>5, <1>6 DEF Listed
  <1>9. Working'
    BY <1>1, <1>2, <1>3, <1>4, <1>5, <1>6 DEF Working
  <1>10. Choosing'
    BY <1>1, <1>2, <1>3, <1>4, <1>5, <1>6 DEF Choosing
  <1>11. Shared'
    BY <1>1, <1>2, <1>3, <1>4, <1>5, <1>6 DEF Shared
  <1>12. RegisteredIsNamed'
    BY <1>1, <1>2, <1>3, <1>4, <1>5, <1>6 DEF RegisteredIsNamed
  <1>13. NamedIsRegistered'
    BY <1>1, <1>2, <1>3, <1>4, <1>5, <1>6 DEF NamedIsRegistered
  <1> QED
    BY <1>7, <1>8, <1>9, <1>10, <1>11, <1>12, <1>13 DEF IrcSafe

LEMMA AnswerSafe ==
  ASSUME IrcSafe, NEW t \in Thread, Answer(t), Seek(thr[t].fd) # Null
  PROVE  IrcSafe'
  <1>1. /\ IrcTypes /\ Listed /\ Working /\ Choosing /\ Shared
        /\ RegisteredIsNamed /\ NamedIsRegistered
    BY DEF IrcSafe
  <1>2. /\ \A u \in Thread : thr[u] \in ThreadRec /\ client[u] \in ClientRec
        /\ clientList \in Seq(Thread) /\ Null \notin Nicks /\ Null \notin Thread
    BY <1>1, IrcAssumption DEF IrcTypes, Thread
  <1>3. thr[t].pc = "answer"
    BY DEF Answer, Ready
  <1>4. /\ thr' \in [Thread -> ThreadRec]
        /\ \A u \in Thread \ {t} : thr'[u] = thr[u]
        /\ thr'[t].pc \in {"recv", "motd"}
    <2> DEFINE y == [thr[t] EXCEPT !.pc = IF thr[t].c = Null THEN "recv" ELSE "motd"]
    <2>1. thr \in [Thread -> ThreadRec]
      BY <1>1 DEF IrcTypes
    <2>2. thr' = [thr EXCEPT ![t] = y]
      BY <1>2 DEF Answer, Goto
    <2>3. y \in ThreadRec /\ y.pc \in {"recv", "motd"}
      BY <1>2 DEF ThreadRec, Label
    <2> HIDE DEF y
    <2> QED
      BY <2>1, <2>2, <2>3
  <1>5. /\ handlingSocket' = handlingSocket /\ open' = open /\ client' = client /\ clientList' = clientList
        /\ counting' = counting /\ contended' = contended /\ messages' = messages /\ fate' = fate
    BY DEF Answer
  <1>6. IrcTypes'
    BY <1>1, <1>2, <1>3, <1>4, <1>5 DEF IrcTypes
  <1>7. Listed'
    BY <1>1, <1>2, <1>3, <1>4, <1>5 DEF Listed
  <1>8. Working'
    BY <1>1, <1>2, <1>3, <1>4, <1>5 DEF Working
  <1>9. Choosing'
    BY <1>1, <1>2, <1>3, <1>4, <1>5 DEF Choosing
  <1>10. Shared'
    BY <1>1, <1>2, <1>3, <1>4, <1>5 DEF Shared
  <1>11. RegisteredIsNamed'
    BY <1>1, <1>2, <1>3, <1>4, <1>5 DEF RegisteredIsNamed
  <1>12. NamedIsRegistered'
    <2>1. \A u \in Thread : /\ thr[u].pc = "welcome" => thr'[u] = thr[u]
                             /\ client'[u] = client[u]
      BY <1>3, <1>4, <1>5
    <2> SUFFICES ASSUME NEW d \in Thread, client[d].nick # Null /\ client[d].user,
                        ~client[d].registered
                 PROVE  \E u \in Thread : thr'[u].pc = "welcome" /\ thr'[u].c = d
      BY <1>5, <2>1 DEF NamedIsRegistered
    <2>2. PICK u \in Thread : thr[u].pc = "welcome" /\ thr[u].c = d
      BY <1>1 DEF NamedIsRegistered
    <2> QED
      BY <2>1, <2>2
  <1> QED
    BY <1>6, <1>7, <1>8, <1>9, <1>10, <1>11, <1>12 DEF IrcSafe

LEMMA MotdSafe ==
  ASSUME IrcSafe, NEW t \in Thread, Motd(t), Seek(thr[t].fd) # Null
  PROVE  IrcSafe'
  <1>1. /\ IrcTypes /\ Listed /\ Working /\ Choosing /\ Shared
        /\ RegisteredIsNamed /\ NamedIsRegistered
    BY DEF IrcSafe
  <1>2. /\ \A u \in Thread : thr[u] \in ThreadRec /\ client[u] \in ClientRec
        /\ clientList \in Seq(Thread) /\ Null \notin Nicks /\ Null \notin Thread
    BY <1>1, IrcAssumption DEF IrcTypes, Thread
  <1>3. thr[t].pc = "motd"
    BY DEF Motd, Ready
  <1>4. /\ thr' \in [Thread -> ThreadRec]
        /\ \A u \in Thread \ {t} : thr'[u] = thr[u]
        /\ thr'[t].pc = "recv"
    <2> DEFINE y == [thr[t] EXCEPT !.pc = "recv", !.c = Null]
    <2>1. thr \in [Thread -> ThreadRec]
      BY <1>1 DEF IrcTypes
    <2>2. thr' = [thr EXCEPT ![t] = y]
      BY <1>2 DEF Motd
    <2>3. y \in ThreadRec /\ y.pc = "recv"
      BY <1>2 DEF ThreadRec, Label
    <2> HIDE DEF y
    <2> QED
      BY <2>1, <2>2, <2>3
  <1>5. /\ handlingSocket' = handlingSocket /\ open' = open /\ client' = client /\ clientList' = clientList
        /\ counting' = counting /\ contended' = contended /\ messages' = messages /\ fate' = fate
    BY DEF Motd
  <1>6. IrcTypes'
    BY <1>1, <1>2, <1>3, <1>4, <1>5 DEF IrcTypes
  <1>7. Listed'
    BY <1>1, <1>2, <1>3, <1>4, <1>5 DEF Listed
  <1>8. Working'
    BY <1>1, <1>2, <1>3, <1>4, <1>5 DEF Working
  <1>9. Choosing'
    BY <1>1, <1>2, <1>3, <1>4, <1>5 DEF Choosing
  <1>10. Shared'
    BY <1>1, <1>2, <1>3, <1>4, <1>5 DEF Shared
  <1>11. RegisteredIsNamed'
    BY <1>1, <1>2, <1>3, <1>4, <1>5 DEF RegisteredIsNamed
  <1>12. NamedIsRegistered'
    <2>1. \A u \in Thread : /\ thr[u].pc = "welcome" => thr'[u] = thr[u]
                             /\ client'[u] = client[u]
      BY <1>3, <1>4, <1>5
    <2> SUFFICES ASSUME NEW d \in Thread, client[d].nick # Null /\ client[d].user,
                        ~client[d].registered
                 PROVE  \E u \in Thread : thr'[u].pc = "welcome" /\ thr'[u].c = d
      BY <1>5, <2>1 DEF NamedIsRegistered
    <2>2. PICK u \in Thread : thr[u].pc = "welcome" /\ thr[u].c = d
      BY <1>1 DEF NamedIsRegistered
    <2> QED
      BY <2>1, <2>2
  <1> QED
    BY <1>6, <1>7, <1>8, <1>9, <1>10, <1>11, <1>12 DEF IrcSafe

LEMMA InformSafe ==
  ASSUME IrcSafe, NEW t \in Thread, Inform(t)
  PROVE  IrcSafe'
  <1>1. /\ IrcTypes /\ Listed /\ Working /\ Choosing /\ Shared
        /\ RegisteredIsNamed /\ NamedIsRegistered
    BY DEF IrcSafe
  <1>2. /\ \A u \in Thread : thr[u] \in ThreadRec /\ client[u] \in ClientRec
        /\ clientList \in Seq(Thread) /\ Null \notin Nicks /\ Null \notin Thread
    BY <1>1, IrcAssumption DEF IrcTypes, Thread
  <1>3. messages' \in 0..MaxMessages
    <2>1. messages \in 0..MaxMessages /\ messages < MaxMessages /\ messages' = messages + 1
      BY <1>1 DEF Inform, Receive, IrcTypes
    <2> QED
      BY <2>1, IrcAssumption
  <1>4. fate' \in {"alive", "crashed"}
    BY <1>1 DEF Inform, IrcTypes
  <1>5. /\ handlingSocket' = handlingSocket /\ open' = open /\ thr' = thr /\ client' = client
        /\ clientList' = clientList /\ counting' = counting /\ contended' = contended
    BY DEF Inform
  <1>6. IrcTypes'
    BY <1>1, <1>2, <1>3, <1>4, <1>5 DEF IrcTypes
  <1>7. Listed'
    BY <1>1, <1>2, <1>3, <1>4, <1>5 DEF Listed
  <1>8. Working'
    BY <1>1, <1>2, <1>3, <1>4, <1>5 DEF Working
  <1>9. Choosing'
    BY <1>1, <1>2, <1>3, <1>4, <1>5 DEF Choosing
  <1>10. Shared'
    BY <1>1, <1>2, <1>3, <1>4, <1>5 DEF Shared
  <1>11. RegisteredIsNamed'
    BY <1>1, <1>2, <1>3, <1>4, <1>5 DEF RegisteredIsNamed
  <1>12. NamedIsRegistered'
    BY <1>1, <1>2, <1>3, <1>4, <1>5 DEF NamedIsRegistered
  <1> QED
    BY <1>6, <1>7, <1>8, <1>9, <1>10, <1>11, <1>12 DEF IrcSafe

LEMMA QuitSafe ==
  ASSUME IrcSafe, NEW t \in Thread, Quit(t)
  PROVE  IrcSafe'
  <1>1. /\ IrcTypes /\ Listed /\ Working /\ Choosing /\ Shared
        /\ RegisteredIsNamed /\ NamedIsRegistered
    BY DEF IrcSafe
  <1>2. /\ \A u \in Thread : thr[u] \in ThreadRec /\ client[u] \in ClientRec
        /\ clientList \in Seq(Thread) /\ Null \notin Nicks /\ Null \notin Thread
    BY <1>1, IrcAssumption DEF IrcTypes, Thread
  <1>3. thr[t].pc = "recv"
    BY DEF Quit, Ready, Receive
  <1>4. Seek(thr[t].fd) \in Thread \union {Null}
    BY <1>2, SeekFacts
  <1>5. /\ thr' \in [Thread -> ThreadRec]
        /\ \A u \in Thread \ {t} : thr'[u] = thr[u]
        /\ thr'[t].pc = "quit"
    <2> DEFINE y == [thr[t] EXCEPT !.pc = "quit", !.c = Seek(thr[t].fd)]
    <2>1. thr \in [Thread -> ThreadRec]
      BY <1>1 DEF IrcTypes
    <2>2. thr' = [thr EXCEPT ![t] = y]
      BY <1>4, <1>2 DEF Quit, Goto
    <2>3. y \in ThreadRec /\ y.pc = "quit"
      BY <1>4, <1>2 DEF ThreadRec, Label
    <2> HIDE DEF y
    <2> QED
      BY <2>1, <2>2, <2>3
  <1>6. messages' \in 0..MaxMessages
    <2>1. messages \in 0..MaxMessages /\ messages < MaxMessages /\ messages' = messages + 1
      BY <1>1 DEF Quit, Receive, IrcTypes
    <2> QED
      BY <2>1, IrcAssumption
  <1>7. /\ handlingSocket' = handlingSocket /\ open' = open /\ client' = client /\ clientList' = clientList
        /\ counting' = counting /\ contended' = contended /\ fate' = fate
    BY DEF Quit
  <1>8. IrcTypes'
    BY <1>1, <1>2, <1>3, <1>4, <1>5, <1>6, <1>7 DEF IrcTypes
  <1>9. Listed'
    BY <1>1, <1>2, <1>3, <1>4, <1>5, <1>6, <1>7 DEF Listed
  <1>10. Working'
    BY <1>1, <1>2, <1>3, <1>4, <1>5, <1>6, <1>7 DEF Working
  <1>11. Choosing'
    BY <1>1, <1>2, <1>3, <1>4, <1>5, <1>6, <1>7 DEF Choosing
  <1>12. Shared'
    BY <1>1, <1>2, <1>3, <1>4, <1>5, <1>6, <1>7 DEF Shared
  <1>13. RegisteredIsNamed'
    BY <1>1, <1>2, <1>3, <1>4, <1>5, <1>6, <1>7 DEF RegisteredIsNamed
  <1>14. NamedIsRegistered'
    BY <1>1, <1>2, <1>3, <1>4, <1>5, <1>6, <1>7 DEF NamedIsRegistered
  <1> QED
    BY <1>8, <1>9, <1>10, <1>11, <1>12, <1>13, <1>14 DEF IrcSafe

LEMMA QuitLocateSafe ==
  ASSUME IrcSafe, NEW t \in Thread, QuitLocate(t), ~(thr[t].c = Null /\ clientList # <<>>)
  PROVE  IrcSafe'
  <1>1. /\ IrcTypes /\ Listed /\ Working /\ Choosing /\ Shared
        /\ RegisteredIsNamed /\ NamedIsRegistered
    BY DEF IrcSafe
  <1>2. /\ \A u \in Thread : thr[u] \in ThreadRec /\ client[u] \in ClientRec
        /\ clientList \in Seq(Thread) /\ Null \notin Nicks /\ Null \notin Thread
    BY <1>1, IrcAssumption DEF IrcTypes, Thread
  <1>3. thr[t].pc = "quit"
    BY DEF QuitLocate, Ready
  <1>4. /\ thr' \in [Thread -> ThreadRec]
        /\ \A u \in Thread \ {t} : thr'[u] = thr[u]
        /\ thr'[t].pc = "delete"
    <2>1. thr \in [Thread -> ThreadRec]
      BY <1>1 DEF IrcTypes
    <2>2. PICK i : i = IF thr[t].c = Null THEN 0 ELSE Locate(client[thr[t].c].nick)
      OBVIOUS
    <2>3. i \in Nat
      <3>1. \A S : First(S) \in 0..Len(clientList)
        BY <1>2, FirstFacts
      <3>2. Len(clientList) \in Nat
        BY <1>2
      <3>3. \A nick : Locate(nick) \in Nat
        BY <3>1, <3>2 DEF Locate
      <3> QED
        BY <2>2, <3>3
    <2> DEFINE y == [thr[t] EXCEPT !.pc = "delete", !.c = Null, !.pos = i]
    <2>4. thr' = [thr EXCEPT ![t] = y]
      BY <2>2 DEF QuitLocate
    <2>5. y \in ThreadRec /\ y.pc = "delete"
      BY <1>2, <2>3 DEF ThreadRec, Label
    <2> HIDE DEF y
    <2> QED
      BY <2>1, <2>4, <2>5
  <1>6. /\ handlingSocket' = handlingSocket /\ open' = open /\ client' = client
        /\ clientList' = clientList /\ counting' = counting
        /\ contended' = contended /\ messages' = messages /\ fate' = fate
    BY DEF QuitLocate
  <1>7. IrcTypes'
    BY <1>1, <1>2, <1>3, <1>4, <1>6 DEF IrcTypes
  <1>8. Listed'
    BY <1>1, <1>2, <1>3, <1>4, <1>6 DEF Listed
  <1>9. Working'
    BY <1>1, <1>2, <1>3, <1>4, <1>6 DEF Working
  <1>10. Choosing'
    BY <1>1, <1>2, <1>3, <1>4, <1>6 DEF Choosing
  <1>11. Shared'
    BY <1>1, <1>2, <1>3, <1>4, <1>6 DEF Shared
  <1>12. RegisteredIsNamed'
    BY <1>1, <1>2, <1>3, <1>4, <1>6 DEF RegisteredIsNamed
  <1>13. NamedIsRegistered'
    BY <1>1, <1>2, <1>3, <1>4, <1>6 DEF NamedIsRegistered
  <1> QED
    BY <1>7, <1>8, <1>9, <1>10, <1>11, <1>12, <1>13 DEF IrcSafe

LEMMA QuitDeleteSafe ==
  ASSUME IrcSafe, NEW t \in Thread, QuitDelete(t)
  PROVE  IrcSafe'
  <1>1. /\ IrcTypes /\ Listed /\ Working /\ Choosing /\ Shared
        /\ RegisteredIsNamed /\ NamedIsRegistered
    BY DEF IrcSafe
  <1>2. /\ \A u \in Thread : thr[u] \in ThreadRec /\ client[u] \in ClientRec
        /\ clientList \in Seq(Thread) /\ Null \notin Nicks /\ Null \notin Thread
    BY <1>1, IrcAssumption DEF IrcTypes, Thread
  <1>3. thr[t].pc = "delete"
    BY DEF QuitDelete, Ready
  <1>4. /\ thr' \in [Thread -> ThreadRec]
        /\ \A u \in Thread \ {t} : thr'[u] = thr[u]
        /\ thr'[t].pc = "close"
    <2> DEFINE y == [thr[t] EXCEPT !.pc = "close", !.pos = 0]
    <2>1. thr \in [Thread -> ThreadRec]
      BY <1>1 DEF IrcTypes
    <2>2. thr' = [thr EXCEPT ![t] = y]
      BY <1>2 DEF QuitDelete, Goto
    <2>3. y \in ThreadRec /\ y.pc = "close"
      BY <1>2, 0 \in Nat DEF ThreadRec, Label
    <2> HIDE DEF y
    <2> QED
      BY <2>1, <2>2, <2>3
  <1>5. /\ clientList' \in Seq(Thread) /\ Distinct(clientList')
        /\ \A x : InList(clientList', x) => InList(clientList, x)
    <2>1. Distinct(clientList)
      BY <1>1 DEF Listed
    <2>2. clientList' = Deleted(thr[t].pos) /\ thr[t].pos \in Nat
      BY <1>2 DEF QuitDelete, ThreadRec
    <2> QED
      BY <1>2, <2>1, <2>2, DeletedFacts
  <1>6. /\ handlingSocket' = handlingSocket /\ open' = open /\ client' = client /\ counting' = counting
        /\ contended' = contended /\ messages' = messages /\ fate' = fate
    BY DEF QuitDelete
  <1>7. IrcTypes'
    BY <1>1, <1>2, <1>3, <1>4, <1>5, <1>6 DEF IrcTypes
  <1>8. Listed'
    BY <1>1, <1>2, <1>3, <1>4, <1>5, <1>6 DEF Listed
  <1>9. Working'
    BY <1>1, <1>2, <1>3, <1>4, <1>5, <1>6 DEF Working
  <1>10. Choosing'
    BY <1>1, <1>2, <1>3, <1>4, <1>5, <1>6 DEF Choosing
  <1>11. Shared'
    BY <1>1, <1>2, <1>3, <1>4, <1>5, <1>6 DEF Shared
  <1>12. RegisteredIsNamed'
    BY <1>1, <1>2, <1>3, <1>4, <1>5, <1>6 DEF RegisteredIsNamed
  <1>13. NamedIsRegistered'
    BY <1>1, <1>2, <1>3, <1>4, <1>5, <1>6 DEF NamedIsRegistered
  <1> QED
    BY <1>7, <1>8, <1>9, <1>10, <1>11, <1>12, <1>13 DEF IrcSafe

LEMMA QuitCloseSafe ==
  ASSUME IrcSafe, NEW t \in Thread, QuitClose(t)
  PROVE  IrcSafe'
  <1>1. /\ IrcTypes /\ Listed /\ Working /\ Choosing /\ Shared
        /\ RegisteredIsNamed /\ NamedIsRegistered
    BY DEF IrcSafe
  <1>2. /\ \A u \in Thread : thr[u] \in ThreadRec /\ client[u] \in ClientRec
        /\ clientList \in Seq(Thread) /\ Null \notin Nicks /\ Null \notin Thread
    BY <1>1, IrcAssumption DEF IrcTypes, Thread
  <1>3. thr[t].pc = "close"
    BY DEF QuitClose, Ready
  <1>4. /\ thr' \in [Thread -> ThreadRec]
        /\ \A u \in Thread \ {t} : thr'[u] = thr[u]
        /\ thr'[t].pc = "recv" /\ thr'[t].c = thr[t].c /\ thr'[t].nick = thr[t].nick
    <2> DEFINE y == [thr[t] EXCEPT !.pc = "recv"]
    <2>1. thr \in [Thread -> ThreadRec]
      BY <1>1 DEF IrcTypes
    <2>2. thr' = [thr EXCEPT ![t] = y]
      BY <1>2 DEF QuitClose, Goto
    <2>3. y \in ThreadRec /\ y.pc = "recv" /\ y.c = thr[t].c /\ y.nick = thr[t].nick
      BY <1>2 DEF ThreadRec, Label
    <2> HIDE DEF y
    <2> QED
      BY <2>1, <2>2, <2>3
  <1>5. open' \in SUBSET Fd
    BY <1>1 DEF QuitClose, IrcTypes
  <1>6. /\ handlingSocket' = handlingSocket /\ client' = client /\ clientList' = clientList /\ counting' = counting
        /\ contended' = contended /\ messages' = messages /\ fate' = fate
    BY DEF QuitClose
  <1>7. IrcTypes'
    BY <1>1, <1>2, <1>3, <1>4, <1>5, <1>6 DEF IrcTypes
  <1>8. Listed'
    BY <1>1, <1>2, <1>3, <1>4, <1>5, <1>6 DEF Listed
  <1>9. Working'
    BY <1>1, <1>2, <1>3, <1>4, <1>5, <1>6 DEF Working
  <1>10. Choosing'
    BY <1>1, <1>2, <1>3, <1>4, <1>5, <1>6 DEF Choosing
  <1>11. Shared'
    BY <1>1, <1>2, <1>3, <1>4, <1>5, <1>6 DEF Shared
  <1>12. RegisteredIsNamed'
    BY <1>1, <1>2, <1>3, <1>4, <1>5, <1>6 DEF RegisteredIsNamed
  <1>13. NamedIsRegistered'
    BY <1>1, <1>2, <1>3, <1>4, <1>5, <1>6 DEF NamedIsRegistered
  <1> QED
    BY <1>7, <1>8, <1>9, <1>10, <1>11, <1>12, <1>13 DEF IrcSafe

-----------------------------------------------------------------------------
LEMMA InitIsSafe ==
  ASSUME Init
  PROVE  IrcSafe
  <1>1. NoThread \in ThreadRec /\ NoClient \in ClientRec
    BY 0 \in Nat DEF NoThread, NoClient, ThreadRec, ClientRec, Label
  <1>2. thr \in [Thread -> ThreadRec] /\ client \in [Thread -> ClientRec]
    BY <1>1 DEF Init
  <1>3. clientList \in Seq(Thread) /\ Len(clientList) = 0
    BY DEF Init
  <1>4. \A t \in Thread : thr[t].pc = "none" /\ client[t].nick = Null
                          /\ client[t].registered = FALSE
    BY DEF Init, NoThread, NoClient
  <1>5. IrcTypes
    BY <1>2, <1>3, IrcAssumption DEF Init, IrcTypes
  <1>6. Listed
    BY <1>3, <1>4 DEF Listed, Distinct, InList
  <1>7. Working /\ Choosing
    BY <1>4 DEF Working, Choosing
  <1>8. Shared /\ RegisteredIsNamed /\ NamedIsRegistered
    BY <1>3, <1>4 DEF Shared, InList, RegisteredIsNamed, NamedIsRegistered
  <1> QED
    BY <1>5, <1>6, <1>7, <1>8 DEF IrcSafe

LEMMA ConnectedIsSafe ==
  ASSUME Connected
  PROVE  IrcSafe
  <1>1. /\ {1, 2} \subseteq Thread \intersect Fd
        /\ handlingSocket = 2 /\ open = {1, 2} /\ clientList = <<1, 2>>
        /\ counting = Null /\ contended = {} /\ fate = "alive"
        /\ Null \notin Nat /\ Null \notin Nicks
    BY IrcAssumption DEF Connected
  <1>2. thr = [t \in Thread |-> IF t \in {1, 2} THEN [NoThread EXCEPT !.pc = "recv", !.fd = t]
                                ELSE NoThread]
    BY DEF Connected
  <1>3. PICK m \in Nicks, n \in Nicks :
          /\ m # n
          /\ client = [t \in Thread |->
               IF t \in {1, 2} THEN [fd |-> t, nick |-> IF t = 1 THEN m ELSE n,
                                     user |-> TRUE, registered |-> TRUE]
               ELSE NoClient]
    BY DEF Connected
  <1>4. messages \in 0..MaxMessages
    <2>1. PICK j \in {0, 1} : j <= MaxMessages /\ messages = MaxMessages - j
      BY DEF Connected
    <2> QED
      BY <2>1, IrcAssumption
  <1>5. ASSUME NEW t \in Thread
        PROVE  /\ thr[t] \in ThreadRec
               /\ thr[t].pc = IF t \in {1, 2} THEN "recv" ELSE "none"
    <2>1. CASE t \in {1, 2}
      <3>1. thr[t] = [NoThread EXCEPT !.pc = "recv", !.fd = t] /\ t \in Fd
        BY <1>1, <1>2, <2>1
      <3> QED
        BY <2>1, <3>1, 0 \in Nat DEF NoThread, ThreadRec, Label
    <2>2. CASE t \notin {1, 2}
      BY <1>2, <2>2, 0 \in Nat DEF NoThread, ThreadRec, Label
    <2> QED
      BY <2>1, <2>2
  <1>6. ASSUME NEW t \in Thread
        PROVE  /\ client[t] \in ClientRec
               /\ t \in {1, 2} => /\ client[t].nick = IF t = 1 THEN m ELSE n
                                  /\ client[t].user = TRUE /\ client[t].registered = TRUE
               /\ t \notin {1, 2} => client[t].nick = Null /\ client[t].registered = FALSE
    <2>1. CASE t \in {1, 2}
      <3> DEFINE x == IF t = 1 THEN m ELSE n
      <3>1. client[t] = [fd |-> t, nick |-> x, user |-> TRUE, registered |-> TRUE]
            /\ t \in Fd /\ x \in Nicks
        BY <1>1, <1>3, <2>1
      <3> HIDE DEF x
      <3>2. client[t] \in ClientRec /\ client[t].nick = x
            /\ client[t].user = TRUE /\ client[t].registered = TRUE
        BY <3>1 DEF ClientRec
      <3> QED
        BY <2>1, <3>2 DEF x
    <2>2. CASE t \notin {1, 2}
      BY <1>3, <2>2 DEF NoClient, ClientRec
    <2> QED
      BY <2>1, <2>2
  <1>7. thr \in [Thread -> ThreadRec] /\ client \in [Thread -> ClientRec]
    BY <1>2, <1>3, <1>5, <1>6
  <1>8. clientList \in Seq(Thread) /\ Len(clientList) = 2
        /\ clientList[1] = 1 /\ clientList[2] = 2
    BY <1>1
  <1>9. \A x : InList(clientList, x) <=> x \in {1, 2}
    BY <1>8 DEF InList
  <1>10. IrcTypes
    BY <1>1, <1>4, <1>7, <1>8 DEF IrcTypes
  <1>11. Listed
    <2>1. Distinct(clientList)
      BY <1>8 DEF Distinct
    <2>2. \A t \in Thread : thr[t].pc \in {"none", "start", "append"} => t \notin {1, 2}
      BY <1>5
    <2> QED
      BY <1>6, <1>9, <2>1, <2>2 DEF Listed
  <1>12. Working /\ Choosing
    BY <1>5 DEF Working, Choosing
  <1>13. Shared
    BY <1>3, <1>6, <1>9 DEF Shared
  <1>14. RegisteredIsNamed
    BY <1>1, <1>3, <1>6 DEF RegisteredIsNamed
  <1>15. NamedIsRegistered
    BY <1>6 DEF NamedIsRegistered
  <1> QED
    BY <1>10, <1>11, <1>12, <1>13, <1>14, <1>15 DEF IrcSafe

(* Every step of a connection keeps the invariant.                         *)
LEMMA NextIsSafe ==
  ASSUME IrcSafe, [Next]_vars
  PROVE  IrcSafe'
  <1>1. CASE UNCHANGED vars
    BY <1>1 DEF vars, IrcSafe, IrcTypes, Listed, Working, Choosing, Shared, InList, Distinct,
                RegisteredIsNamed, NamedIsRegistered
  <1>2. CASE AcceptFails
    BY <1>2, AcceptFailsSafe
  <1>3. ASSUME NEW t \in Thread, Accept(t) \/ Serve(t) \/ Continue(t)
        PROVE  IrcSafe'
    <2>1. CASE Accept(t)
      BY <2>1, AcceptSafe
    <2>2. CASE Serve(t)
      <3>1. ASSUME NEW nick \in Nicks, Nick(t, nick) PROVE IrcSafe'
        BY <3>1, NickSafe
      <3>2. CASE User(t)
        BY <3>2, UserSafe, UserCrashSafe
      <3>3. CASE Ask(t)
        BY <3>3, AskSafe
      <3>4. CASE Inform(t)
        BY <3>4, InformSafe
      <3>5. CASE Quit(t)
        BY <3>5, QuitSafe
      <3> QED
        BY <2>2, <3>1, <3>2, <3>3, <3>4, <3>5 DEF Serve
    <2>3. CASE Continue(t)
      <3>1. CASE Start(t)
        BY <3>1, StartSafe
      <3>2. CASE AppendClient(t)
        BY <3>2, AppendClientSafe
      <3>3. CASE SetNick(t)
        <4>1. CASE Seek(thr[t].fd) = Null
          BY <3>3, <4>1, CrashSafe DEF SetNick
        <4>2. CASE Seek(thr[t].fd) # Null
          BY <3>3, <4>2, SetNickSafe
        <4> QED
          BY <4>1, <4>2
      <3>4. CASE Welcome(t)
        BY <3>4, WelcomeSafe
      <3>5. CASE Count(t)
        BY <3>5, CountSafe
      <3>6. CASE Counted(t)
        BY <3>6, CountedSafe
      <3>7. CASE Answer(t)
        <4>1. CASE Seek(thr[t].fd) = Null
          BY <3>7, <4>1, CrashSafe DEF Answer
        <4>2. CASE Seek(thr[t].fd) # Null
          BY <3>7, <4>2, AnswerSafe
        <4> QED
          BY <4>1, <4>2
      <3>8. CASE Motd(t)
        <4>1. CASE Seek(thr[t].fd) = Null
          BY <3>8, <4>1, CrashSafe DEF Motd
        <4>2. CASE Seek(thr[t].fd) # Null
          BY <3>8, <4>2, MotdSafe
        <4> QED
          BY <4>1, <4>2
      <3>9. CASE QuitLocate(t)
        <4>1. CASE thr[t].c = Null /\ clientList # <<>>
          BY <3>9, <4>1, CrashSafe DEF QuitLocate
        <4>2. CASE ~(thr[t].c = Null /\ clientList # <<>>)
          BY <3>9, <4>2, QuitLocateSafe
        <4> QED
          BY <4>1, <4>2
      <3>10. CASE QuitDelete(t)
        BY <3>10, QuitDeleteSafe
      <3>11. CASE QuitClose(t)
        BY <3>11, QuitCloseSafe
      <3> QED
        BY <2>3, <3>1, <3>2, <3>3, <3>4, <3>5, <3>6, <3>7, <3>8, <3>9, <3>10, <3>11 DEF Continue
    <2> QED
      BY <1>3, <2>1, <2>2, <2>3
  <1> QED
    BY <1>1, <1>2, <1>3 DEF Next

(* A handler of a channel leaves the connections alone, or crashes.        *)
LEMMA HandlersLeaveConnections ==
  ASSUME NEW t \in Thread, Handle(t)
  PROVE  UNCHANGED vars \/ Crash
  <1> USE DEF Quietly, Misuse
  <1>1. CASE FindLocate(t)
    BY <1>1 DEF FindLocate, NotFound
  <1>2. CASE FindGet(t)
    BY <1>2 DEF FindGet, NotFound
  <1>3. CASE Create(t) \/ Link(t) \/ Copy(t)
    BY <1>3 DEF Create, Link, Copy
  <1>4. CASE Check(t)
    <2>1. Misuse \/ \E i : Checked(t, i)
      BY <1>4 DEF Check
    <2> QED
      BY <2>1 DEF Checked
  <1>5. CASE JoinRead(t) \/ JoinWrite(t) \/ JoinAppend(t)
    BY <1>5 DEF JoinRead, JoinWrite, JoinAppend, ReadUsers, WriteUsers
  <1>6. CASE MessageCopy(t) \/ MessageAll(t)
    BY <1>6 DEF MessageCopy, MessageAll
  <1>7. CASE Show(t)
    BY <1>7 DEF Show
  <1>8. CASE TopicFree(t) \/ TopicReplace(t) \/ Member(t)
    BY <1>8 DEF TopicFree, TopicReplace, Member
  <1>9. CASE Remove(t) \/ LeaveRead(t) \/ LeaveWrite(t)
    BY <1>9 DEF Remove, LeaveRead, LeaveWrite, ReadUsers, WriteUsers
  <1>10. CASE Empty(t) \/ Destroy(t)
    BY <1>10 DEF Empty, Destroy
  <1>11. CASE NamesStart(t) \/ NamesStop(t) \/ Iterate(t) \/ Each(t)
    BY <1>11 DEF NamesStart, NamesStop, Iterate, Each
  <1>12. CASE IterateEnd(t)
    BY <1>12 DEF IterateEnd
  <1>13. CASE LocateHalfway(t) \/ GetHalfway(t) \/ Astray(t)
    BY <1>13 DEF LocateHalfway, GetHalfway, Astray, NotFound
  <1> QED
    BY <1>13, <1>1, <1>2, <1>3, <1>4, <1>5, <1>6, <1>7, <1>8, <1>9, <1>10, <1>11, <1>12 DEF Handle

LEMMA ChannelNextIsNext ==
  ASSUME ChannelNext
  PROVE  [Next]_vars \/ Crash
  <1>1. CASE ~misuse /\ AcceptFails /\ UNCHANGED channelVars
    BY <1>1 DEF Next
  <1>2. ASSUME NEW t \in Thread, Connection(t)
        PROVE  Next
    BY <1>2 DEF Connection, Next
  <1>3. ASSUME NEW t \in Thread, Handle(t)
        PROVE  UNCHANGED vars \/ Crash
    BY <1>3, HandlersLeaveConnections
  <1>4. ASSUME NEW t \in Thread, NEW op, NEW name, Command(t, op, name)
        PROVE  UNCHANGED vars \/ Crash
    BY <1>4 DEF Command
  <1> QED
    BY <1>1, <1>2, <1>3, <1>4 DEF ChannelNext

LEMMA SharedIsShared ==
  ASSUME IrcSafe
  PROVE  Inv /\ SharedOnlyByRace
  <1>1. IrcTypes /\ Listed /\ Shared /\ RegisteredIsNamed /\ NamedIsRegistered
    BY DEF IrcSafe
  <1>2. TypeOK
    <2>1. \A t \in Thread : thr[t] \in ThreadRec /\ client[t] \in ClientRec
      BY <1>1 DEF IrcTypes
    <2>2. \A t \in Thread :
            /\ thr[t].pc \in {"none", "start", "append", "recv", "nick", "welcome", "lusers",
                              "counting", "answer", "motd", "quit", "delete", "close"}
            /\ thr[t].fd \in Fd \union {Null}
            /\ thr[t].nick \in Nicks \union {Null}
            /\ thr[t].c \in Thread \union {Null} /\ thr[t].pos \in Nat
            /\ client[t].fd \in Fd \union {Null}
            /\ client[t].nick \in Nicks \union {Null}
            /\ client[t].user \in BOOLEAN /\ client[t].registered \in BOOLEAN
      BY <2>1 DEF ThreadRec, ClientRec, Label
    <2> QED
      BY <1>1, <2>2 DEF TypeOK, IrcTypes
  <1>3. SharedOnlyByRace
    <2>1. DOMAIN clientList = 1..Len(clientList)
          /\ \A i \in 1..Len(clientList) : clientList[i] \in Thread
      BY <1>1 DEF IrcTypes
    <2>2. ASSUME NEW i \in DOMAIN clientList, NEW j \in DOMAIN clientList, i # j,
                 client[clientList[i]].nick = client[clientList[j]].nick
          PROVE  client[clientList[i]].nick \in contended \union {Null}
      <3>1. clientList[i] # clientList[j]
        BY <1>1, <2>1, <2>2 DEF Listed, Distinct
      <3>2. InList(clientList, clientList[i]) /\ InList(clientList, clientList[j])
        BY <2>1 DEF InList
      <3> QED
        BY <1>1, <2>1, <2>2, <3>1, <3>2 DEF Shared
    <2> QED
      BY <2>2 DEF SharedOnlyByRace
  <1> QED
    BY <1>1, <1>2, <1>3 DEF Inv

(* Whatever the connections and the handlers of channels do, in any order: *)
(* a client that is registered has given both names, and one that has      *)
(* given both is registered once no thread is finishing NICK or USER for   *)
(* it (handle_NICK, handle_USER and the end they share).                   *)
THEOREM NamesAndRegistration == ChannelSpec => []Inv
  <1>1. ChannelInit => IrcSafe
    BY InitIsSafe, ConnectedIsSafe DEF ChannelInit, Fresh
  <1>2. IrcSafe /\ [ChannelNext]_<<vars, channelVars>> => IrcSafe'
    <2>1. ASSUME IrcSafe, ChannelNext PROVE IrcSafe'
      BY <2>1, ChannelNextIsNext, NextIsSafe, CrashSafe
    <2>2. ASSUME IrcSafe, UNCHANGED <<vars, channelVars>> PROVE IrcSafe'
      BY <2>2, NextIsSafe
    <2> QED
      BY <2>1, <2>2
  <1>3. IrcSafe => Inv
    BY SharedIsShared
  <1> QED
    BY <1>1, <1>2, <1>3, PTL DEF ChannelSpec

(* Two listed clients share a nickname only if two threads were between    *)
(* looking for it and setting it (handle_NICK).                            *)
THEOREM NicknamesAreShared == ChannelSpec => []SharedOnlyByRace
  <1>1. ChannelInit => IrcSafe
    BY InitIsSafe, ConnectedIsSafe DEF ChannelInit, Fresh
  <1>2. IrcSafe /\ [ChannelNext]_<<vars, channelVars>> => IrcSafe'
    <2>1. ASSUME IrcSafe, ChannelNext PROVE IrcSafe'
      BY <2>1, ChannelNextIsNext, NextIsSafe, CrashSafe
    <2>2. ASSUME IrcSafe, UNCHANGED <<vars, channelVars>> PROVE IrcSafe'
      BY <2>2, NextIsSafe
    <2> QED
      BY <2>1, <2>2
  <1>3. IrcSafe => SharedOnlyByRace
    BY SharedIsShared
  <1> QED
    BY <1>1, <1>2, <1>3, PTL DEF ChannelSpec

-----------------------------------------------------------------------------
(***************************************************************************)
(* Channels: the inductive invariant.                                      *)
(***************************************************************************)
Steps == {"idle", "locate", "get", "create", "link", "copy", "check", "count", "enter",
          "append", "head", "send", "show", "free", "replace", "member", "delete", "leave", "left",
          "empty", "destroy", "names", "naming", "iterate", "each"}

Ops == Commands \union {"REMOVE", "MEMBER", Null}

ChanRec == [name : Names \union {Null}, members : Seq(Thread), nusers : Int,
            freed : BOOLEAN, topic : {"set", "freed"}, reader : Thread \union {Null}]
TaskRec == [pc : Steps, op : Ops, name : Names \union {Null}, c : Thread \union {Null},
            fd : Fd \union {Null}, ch : Channel \union {Null}, pos : Nat, n : Int,
            busy : BOOLEAN]

ChanTypes ==
  /\ chan \in [Channel -> ChanRec]
  /\ channelList \in Seq(Channel) /\ listing \in Thread \union {Null}
  /\ task \in [Thread -> TaskRec]
  /\ misuse \in BOOLEAN /\ overlapped \in BOOLEAN
  /\ late \in SUBSET Thread /\ raced \in SUBSET Names /\ blind \in SUBSET Fd
  /\ commands \in 0..MaxCommands

(* A thread reads its descriptor once, before its client is known to any   *)
(* channel.                                                                *)
Young == {"none", "start", "append"}

Started ==
  /\ \A t \in Thread : thr[t].pc \in {"none", "start"} => thr[t].fd = Null
  /\ \A k \in Channel : \A i \in 1..Len(chan[k].members) :
       thr[chan[k].members[i]].pc \notin Young /\ client[chan[k].members[i]].fd \in Fd

(* NameOnce and MemberOnce.                                                *)
ListedOnce ==
  /\ Distinct(channelList)
  /\ \A k \in Channel : InList(channelList, k) => chan[k].name \in Names

NamedOnce == \A k, l \in Channel :
  k # l /\ InList(channelList, k) /\ InList(channelList, l) /\ chan[k].name = chan[l].name =>
    chan[k].name \in raced

Shares(fd) == \E t, u \in Thread : t # u /\ thr[t].fd = fd /\ thr[u].fd = fd
Excused(fd) == fd \in blind \/ Shares(fd)

FdOf(k, i) == client[chan[k].members[i]].fd

InOnce ==
  \A k \in Channel : \A i, j \in 1..Len(chan[k].members) :
    i # j /\ FdOf(k, i) = FdOf(k, j) => Excused(FdOf(k, i))

(* The handler of a thread.  The steps of each message, and what they work *)
(* on:                                                                     *)
OnChannel == Steps \ {"idle", "locate", "get", "create", "iterate", "each"}

InRole(T) ==
  /\ T.pc = "idle" => T = Idle
  /\ T.pc \in {"locate", "get"} => T.op \in Commands /\ T.name \in Names
  /\ T.pc \in {"create", "link", "count", "enter", "append"} => T.op = "JOIN"
  /\ T.pc \in {"copy", "check"} =>
       T.op \in {"JOIN", "PART", "REMOVE", "PRIVMSG", "NOTICE", "TOPIC", "MODE", "MEMBER"}
  /\ T.pc \in {"head", "send"} =>
       T.op \in {"JOIN", "PART", "PRIVMSG", "NOTICE", "TOPIC", "MODE"}
  /\ T.pc = "show" => T.op \in {"JOIN", "TOPIC", "LIST"}
  /\ T.pc \in {"free", "replace"} => T.op = "TOPIC"
  /\ T.pc = "member" => T.op \in {"MODE", "MEMBER"}
  /\ T.pc \in {"delete", "leave", "left", "empty", "destroy"} => T.op = "REMOVE"
  /\ T.pc \in {"names", "naming"} => T.op = "NAMES"
  /\ T.pc \in {"iterate", "each"} => T.op \in {"NAMES", "LIST"} /\ T.name = Null
  /\ T.pc # "idle" /\ T.op \notin {"NAMES", "LIST"} => T.name \in Names
  /\ T.pc = "get" => T.pos # 0
  /\ T.pc \in {"each", "names", "naming", "show"} /\ T.name = Null => T.pos # 0
  /\ T.pc \in OnChannel => T.ch \in Channel

(* Who joins, joins for its own descriptor.                                *)
ForItself(t, T) ==
  /\ T.pc # "idle" => thr[t].pc = "recv"
  /\ T.pc # "idle" /\ T.op = "JOIN" =>
       /\ T.fd \in Fd /\ thr[t].fd = T.fd
       /\ T.c \in Thread /\ thr[T.c].pc \notin Young
       /\ client[T.c].fd = T.fd

(* A thread that is not late has looked for its name in the list as it is. *)
UpToDate(t, T) == t \notin late =>
  /\ T.pc = "get" => T.pos \in 1..Len(channelList)
  /\ T.pc = "create" => \A k \in Channel : InList(channelList, k) => chan[k].name # T.name

(* A JOIN that has not found its descriptor among the members will not     *)
(* find it later, beyond those that it looks at.                           *)
NotYetIn(T) ==
  /\ T.pc = "check" /\ T.op = "JOIN" /\ ~T.busy =>
       \A i \in 1..Len(chan[T.ch].members) :
         i > T.n /\ FdOf(T.ch, i) = T.fd => Excused(T.fd)
  /\ T.pc \in {"count", "enter", "append"} =>
       \A i \in 1..Len(chan[T.ch].members) : FdOf(T.ch, i) = T.fd => Excused(T.fd)

Fits(t, T) == InRole(T) /\ ForItself(t, T) /\ UpToDate(t, T) /\ NotYetIn(T)

ChannelSafe == /\ ChanTypes /\ Started /\ ListedOnce /\ NamedOnce /\ InOnce
               /\ \A t \in Thread : Fits(t, task[t])

-----------------------------------------------------------------------------
(***************************************************************************)
(* While no PART and no TOPIC has run beside another handler, and no       *)
(* lookup has gone wrong beside an addition to the list of channels.       *)
(***************************************************************************)
Active(t) == task[t].pc # "idle"

Alone == \A t, u \in Thread :
  t # u /\ Active(t) /\ Active(u) => task[t].op \notin Freeing

(* Who iterates a list is in the middle of it.                             *)
Iterating ==
  /\ \A t \in Thread : listing = t =>
       task[t].pc \in {"each", "names", "naming", "show"} /\ task[t].name = Null
  /\ \A k \in Channel, t \in Thread :
       chan[k].reader = t => task[t].pc = "naming" /\ task[t].ch = k

Valid == \A k \in Channel :
  /\ InList(channelList, k) => ~chan[k].freed
  /\ chan[k].freed => chan[k].name \in Names
  /\ chan[k].topic = "freed" => \E t \in Thread : task[t].pc = "replace" /\ task[t].ch = k

(* The counter of users may lag behind the list of members, but not lead.  *)
Entering(k) == {t \in Thread : task[t].pc = "append" /\ task[t].ch = k}
Removing(k, pcs) == \E t \in Thread : task[t].pc \in pcs /\ task[t].ch = k

UsersCounted == \A k \in Channel :
  /\ chan[k].nusers >= 0
  /\ \/ chan[k].nusers <= Len(chan[k].members) + Cardinality(Entering(k))
     \/ Removing(k, {"leave", "left"}) /\ chan[k].nusers <= Len(chan[k].members) + 1
  /\ chan[k].members # <<>> => chan[k].nusers >= 1 \/ Removing(k, {"empty", "destroy"})

(* A listed channel has members, or a handler that brings one or has taken *)
(* the last one and is about to see it.                                    *)
Carries(T, k) ==
  /\ T.ch = k
  /\ \/ T.op = "JOIN" /\ T.pc \in {"link", "copy", "check", "count", "enter", "append"}
     \/ T.pc \in {"leave", "left", "empty", "destroy"}
Peopled == \A k \in Channel : InList(channelList, k) =>
  chan[k].members # <<>> \/ \E t \in Thread : Carries(task[t], k)

(* The handler of a thread: its channel is there, ...                      *)
Present(T) ==
  /\ T.pc \in OnChannel => ~chan[T.ch].freed
  /\ T.pc = "replace" => chan[T.ch].topic = "freed"

(* ... the members it has counted, too, ...                                *)
Measured(T) ==
  /\ T.pc \in {"check", "send"} => T.n \in 0..Len(chan[T.ch].members)
  /\ T.pc = "member" => T.pos \in 1..Len(chan[T.ch].members)
  /\ T.pc = "append" => chan[T.ch].nusers >= 1
  /\ T.pc = "enter" =>
       T.n >= 0 /\ T.n <= Len(chan[T.ch].members) + Cardinality(Entering(T.ch))

(* ... and a PART finds what it has found.                                 *)
IsFirst(i, name) == /\ i \in 1..Len(channelList)
                    /\ chan[channelList[i]].name = name
                    /\ \A j \in 1..(i - 1) : chan[channelList[j]].name # name
HasMember(T) == \E i \in 1..Len(chan[T.ch].members) : FdOf(T.ch, i) = T.fd

Parting(T) == T.op \in {"PART", "REMOVE"} =>
  /\ T.pc \in {"get", "destroy"} => IsFirst(T.pos, T.name)
  /\ T.pc \in OnChannel => \E i \in 1..Len(channelList) : IsFirst(i, T.name) /\ T.ch = channelList[i]
  /\ T.pc \in {"copy", "check"} /\ T.op = "REMOVE" => HasMember(T)
  /\ T.pc \in {"head", "send"} => HasMember(T)
  /\ T.pc = "check" => ~T.busy /\ T.n = Len(chan[T.ch].members)
  /\ T.pc = "delete" => T.pos \in 1..Len(chan[T.ch].members)
  /\ T.pc = "leave" => chan[T.ch].nusers >= 1
  /\ T.pc = "left" => T.n = chan[T.ch].nusers /\ T.n >= 1
  /\ T.pc = "destroy" => chan[T.ch].nusers = 0

Knows(T) == Present(T) /\ Measured(T) /\ Parting(T)

Order == /\ ~misuse /\ Alone /\ Iterating /\ Valid /\ UsersCounted /\ Peopled
         /\ \A t \in Thread : Knows(task[t])
Orderly == ~overlapped => Order

LEMMA ChannelFacts ==
  ASSUME ChanTypes
  PROVE  /\ \A k \in Channel : chan[k] \in ChanRec
         /\ \A t \in Thread : task[t] \in TaskRec
         /\ channelList \in Seq(Channel) /\ Len(channelList) \in Nat
         /\ \A i \in 1..Len(channelList) : channelList[i] \in Channel
         /\ DOMAIN channelList = 1..Len(channelList)
         /\ \A k \in Channel : /\ chan[k].members \in Seq(Thread)
                               /\ Len(chan[k].members) \in Nat
                               /\ \A i \in 1..Len(chan[k].members) :
                                    chan[k].members[i] \in Thread
         /\ Null \notin Thread /\ Null \notin Channel /\ Null \notin Fd /\ Null \notin Names
         /\ Null \notin Nat
  <1>1. /\ \A k \in Channel : chan[k] \in ChanRec
        /\ \A t \in Thread : task[t] \in TaskRec
        /\ channelList \in Seq(Channel)
    BY DEF ChanTypes
  <1>2. \A k \in Channel : chan[k].members \in Seq(Thread)
    BY <1>1 DEF ChanRec
  <1>3. Null \notin Nat /\ Null \notin Names
    BY IrcAssumption, ChannelsAssumption
  <1>4. Null \notin Thread /\ Null \notin Channel /\ Null \notin Fd
    BY <1>3, IrcAssumption, ChannelsAssumption DEF Thread, Channel, Fd
  <1>5. ASSUME NEW k \in Channel
        PROVE  /\ Len(chan[k].members) \in Nat
               /\ \A i \in 1..Len(chan[k].members) : chan[k].members[i] \in Thread
    BY <1>2
  <1>6. /\ Len(channelList) \in Nat /\ DOMAIN channelList = 1..Len(channelList)
        /\ \A i \in 1..Len(channelList) : channelList[i] \in Channel
    BY <1>1
  <1> QED
    BY <1>1, <1>2, <1>3, <1>4, <1>5, <1>6

(* One field of a channel is written.                                      *)
LEMMA ChanFieldFacts ==
  ASSUME NEW c \in ChanRec
  PROVE  /\ \A v \in Int : LET z == [c EXCEPT !.nusers = v]
                           IN z \in ChanRec /\ z.name = c.name /\ z.members = c.members
         /\ \A v \in {"set", "freed"} :
              LET z == [c EXCEPT !.topic = v]
              IN z \in ChanRec /\ z.name = c.name /\ z.members = c.members
         /\ \A v \in Thread \union {Null} :
              LET z == [c EXCEPT !.reader = v]
              IN z \in ChanRec /\ z.name = c.name /\ z.members = c.members
  BY DEF ChanRec

(* A handler goes on.                                                      *)
LEMMA GoFacts ==
  ASSUME NEW x \in TaskRec, NEW p \in Steps
  PROVE  LET y == [x EXCEPT !.pc = p]
         IN /\ y \in TaskRec /\ y.pc = p /\ y.op = x.op /\ y.name = x.name /\ y.fd = x.fd
            /\ y.c = x.c /\ y.ch = x.ch /\ y.pos = x.pos
  BY DEF TaskRec

(* A handler that is between two messages.                                 *)
LEMMA IdleFits ==
  ASSUME NEW t \in Thread
  PROVE  Idle \in TaskRec /\ Fits(t, Idle)
  <1>1. /\ Idle.pc = "idle" /\ Idle.op = Null /\ Idle.pos = 0 /\ Idle.name = Null
        /\ Idle.ch = Null
    BY DEF Idle
  <1>2. Idle \in TaskRec
    BY DEF Idle, TaskRec, Ops, Steps
  <1>3. InRole(Idle)
    BY <1>1 DEF InRole, OnChannel
  <1>4. ForItself(t, Idle) /\ UpToDate(t, Idle) /\ NotYetIn(Idle)
    BY <1>1 DEF ForItself, UpToDate, NotYetIn
  <1> QED
    BY <1>2, <1>3, <1>4 DEF Fits

(* A step that leaves the names of the channels and their members alone    *)
(* keeps the invariant if the handler that takes it stays in its role.     *)
LEMMA MoveIsSafe ==
  ASSUME ChannelSafe, NEW t \in Thread, NEW y \in TaskRec,
         task' = [task EXCEPT ![t] = y], Fits(t, y)',
         thr' = thr, client' = client, chan' \in [Channel -> ChanRec],
         \A k \in Channel : chan'[k].name = chan[k].name /\ chan'[k].members = chan[k].members,
         channelList' = channelList, raced' = raced,
         late' \in SUBSET Thread, late \ {t} \subseteq late',
         blind' \in SUBSET Fd, blind \subseteq blind',
         listing' \in Thread \union {Null}, misuse' \in BOOLEAN, overlapped' \in BOOLEAN,
         commands' \in 0..MaxCommands
  PROVE  ChannelSafe'
  <1>1. /\ ChanTypes /\ Started /\ ListedOnce /\ NamedOnce /\ InOnce
        /\ \A u \in Thread : Fits(u, task[u])
    BY DEF ChannelSafe
  <1>2. /\ task \in [Thread -> TaskRec] /\ channelList \in Seq(Channel) /\ raced \in SUBSET Names
        /\ \A i \in 1..Len(channelList) : channelList[i] \in Channel
    BY <1>1, ChannelFacts DEF ChanTypes
  <1>3. /\ \A k \in Channel : \A i : FdOf(k, i)' = FdOf(k, i)
        /\ \A fd : Shares(fd)' = Shares(fd)
        /\ \A fd : Excused(fd) => Excused(fd)'
    BY DEF FdOf, Shares, Excused
  <1>4. \A x : InList(channelList, x)' <=> InList(channelList, x)
    OBVIOUS
  <1>5. task'[t] = y /\ \A u \in Thread \ {t} : task'[u] = task[u]
    BY <1>2
  <1>6. ChanTypes'
    BY <1>2 DEF ChanTypes
  <1>7. Started'
    BY <1>1 DEF Started
  <1>8. ListedOnce' /\ NamedOnce'
    BY <1>1, <1>4 DEF ListedOnce, NamedOnce, Distinct
  <1>9. InOnce'
    BY <1>1, <1>3 DEF InOnce
  <1>10. ASSUME NEW u \in Thread \ {t}
         PROVE  Fits(u, task[u])'
    <2>1. Fits(u, task[u]) /\ task'[u] = task[u]
      BY <1>1, <1>5
    <2>2. InRole(task[u])'
      BY <2>1 DEF Fits
    <2>3. ForItself(u, task[u])'
      BY <2>1 DEF Fits, ForItself
    <2>4. UpToDate(u, task[u])'
      BY <1>4, <2>1 DEF Fits, UpToDate
    <2>5. NotYetIn(task[u])'
      <3>1. task[u].pc \in {"check", "count", "enter", "append"} => task[u].ch \in Channel
        BY <2>1 DEF Fits, InRole, OnChannel, Steps
      <3> QED
        BY <1>3, <2>1, <3>1 DEF Fits, NotYetIn
    <2> QED
      BY <2>2, <2>3, <2>4, <2>5 DEF Fits
  <1>11. Fits(t, task[t])'
    BY <1>5
  <1> QED
    BY <1>6, <1>7, <1>8, <1>9, <1>10, <1>11 DEF ChannelSafe

(* Nothing changes that the invariant says something about.                *)
LEMMA FitsAgain ==
  ASSUME NEW t, NEW y, Fits(t, y), y.pc \in OnChannel => y.ch \in Channel,
         thr' = thr, client' = client, chan' = chan, channelList' = channelList,
         late' = late, blind' = blind
  PROVE  Fits(t, y)'
  <1>1. InRole(y)'
    BY DEF Fits
  <1>2. ForItself(t, y)'
    BY DEF Fits, ForItself
  <1>3. UpToDate(t, y)'
    BY DEF Fits, UpToDate, InList
  <1>4. NotYetIn(y)'
    BY DEF Fits, NotYetIn, FdOf, Excused, Shares
  <1> QED
    BY <1>1, <1>2, <1>3, <1>4 DEF Fits

LEMMA UntouchedIsSafe ==
  ASSUME ChannelSafe, thr' = thr, client' = client, chan' = chan, channelList' = channelList,
         task' = task, late' = late, raced' = raced, blind' = blind,
         listing' \in Thread \union {Null}, misuse' \in BOOLEAN, overlapped' \in BOOLEAN,
         commands' \in 0..MaxCommands
  PROVE  ChannelSafe'
  <1>1. /\ ChanTypes /\ Started /\ ListedOnce /\ NamedOnce /\ InOnce
        /\ \A u \in Thread : Fits(u, task[u])
    BY DEF ChannelSafe
  <1>2. ChanTypes'
    BY <1>1 DEF ChanTypes
  <1>3. Started'
    BY <1>1 DEF Started
  <1>4. ListedOnce' /\ NamedOnce'
    BY <1>1 DEF ListedOnce, NamedOnce, Distinct, InList
  <1>5. InOnce'
    BY <1>1 DEF InOnce, FdOf, Excused, Shares
  <1>6. ASSUME NEW u \in Thread
        PROVE  Fits(u, task[u])'
    <2>1. PICK y : y = task[u]
      OBVIOUS
    <2>2. Fits(u, y) /\ task'[u] = y
      BY <1>1, <2>1
    <2>3. y.pc \in OnChannel => y.ch \in Channel
      BY <2>2 DEF Fits, InRole
    <2>4. Fits(u, y)'
      BY <2>2, <2>3, FitsAgain
    <2> QED
      BY <2>2, <2>4
  <1> QED
    BY <1>2, <1>3, <1>4, <1>5, <1>6 DEF ChannelSafe

(* Nothing of the channels changes, or only what is known of the run.      *)
LEMMA StillSafe ==
  ASSUME ChannelSafe, NEW t \in Thread,
         UNCHANGED <<lists, task, raced, thr, client>>,
         late' \in SUBSET Thread, late \ {t} \subseteq late', Fits(t, task[t])',
         blind' = blind, misuse' \in BOOLEAN, overlapped' \in BOOLEAN,
         commands' \in 0..MaxCommands
  PROVE  ChannelSafe'
  <1>1. ChanTypes
    BY DEF ChannelSafe
  <1>2. PICK y \in TaskRec : y = task[t]
    BY <1>1 DEF ChanTypes
  <1>3. /\ chan' = chan /\ channelList' = channelList /\ listing' = listing
        /\ raced' = raced /\ thr' = thr /\ client' = client
        /\ task' = [task EXCEPT ![t] = y] /\ task'[t] = y
    BY <1>1, <1>2 DEF lists, ChanTypes
  <1>4. /\ chan' \in [Channel -> ChanRec] /\ listing' \in Thread \union {Null}
        /\ blind' \in SUBSET Fd
    BY <1>1, <1>3 DEF ChanTypes
  <1>5. Fits(t, y)'
    BY <1>3
  <1> QED
    BY <1>1, <1>3, <1>4, <1>5, MoveIsSafe

LEMMA QuietMove ==
  ASSUME ChannelSafe, NEW t \in Thread, NEW y \in TaskRec,
         task' = [task EXCEPT ![t] = y], Fits(t, y), Quietly,
         chan' \in [Channel -> ChanRec],
         \A k \in Channel : chan'[k].name = chan[k].name /\ chan'[k].members = chan[k].members,
         channelList' = channelList, listing' \in Thread \union {Null}
  PROVE  ChannelSafe'
  <1>1. ChanTypes
    BY DEF ChannelSafe
  <1>2. /\ thr' = thr /\ client' = client /\ misuse' = misuse /\ commands' = commands
        /\ late' = late /\ raced' = raced /\ blind' = blind /\ overlapped' = overlapped
    BY DEF Quietly, vars, history
  <1>3. /\ late' \in SUBSET Thread /\ late \ {t} \subseteq late'
        /\ blind' \in SUBSET Fd /\ blind \subseteq blind'
        /\ misuse' \in BOOLEAN /\ overlapped' \in BOOLEAN /\ commands' \in 0..MaxCommands
    BY <1>1, <1>2 DEF ChanTypes
  <1>4. ForItself(t, y)'
    BY <1>2 DEF Fits, ForItself
  <1>5. UpToDate(t, y)'
    BY <1>2 DEF Fits, UpToDate, InList
  <1>6. NotYetIn(y)'
    <2>1. y.pc \in {"check", "count", "enter", "append"} => y.ch \in Channel
      BY DEF Fits, InRole, OnChannel, Steps
    <2> QED
      BY <1>2, <2>1 DEF Fits, NotYetIn, FdOf, Excused, Shares
  <1>7. Fits(t, y)'
    BY <1>4, <1>5, <1>6 DEF Fits
  <1> QED
    BY <1>2, <1>3, <1>7, MoveIsSafe

LEMMA MisuseIsSafe ==
  ASSUME ChannelSafe, NEW t \in Thread, Misuse
  PROVE  ChannelSafe'
  <1>1. ChanTypes
    BY DEF ChannelSafe
  <1>2. /\ thr' = thr /\ client' = client /\ chan' = chan /\ channelList' = channelList
        /\ task' = task /\ late' = late /\ raced' = raced /\ blind' = blind
        /\ listing' = listing /\ commands' = commands /\ overlapped' = overlapped /\ misuse' = TRUE
    BY DEF Misuse, vars, history, lists
  <1>3. /\ listing' \in Thread \union {Null} /\ misuse' \in BOOLEAN /\ overlapped' \in BOOLEAN
        /\ commands' \in 0..MaxCommands
    BY <1>1, <1>2 DEF ChanTypes
  <1> QED
    BY <1>2, <1>3, UntouchedIsSafe

LEMMA CrashLeavesChannels ==
  ASSUME ChannelSafe, Crash, UNCHANGED <<chan, channelList, task, misuse, commands, history>>,
         listing' \in Thread \union {Null}
  PROVE  ChannelSafe'
  <1>1. /\ thr' = thr /\ client' = client /\ chan' = chan /\ channelList' = channelList
        /\ task' = task /\ misuse' = misuse /\ commands' = commands
        /\ late' = late /\ raced' = raced /\ blind' = blind /\ overlapped' = overlapped
    BY DEF Crash, history
  <1>2. /\ misuse' \in BOOLEAN /\ overlapped' \in BOOLEAN /\ commands' \in 0..MaxCommands
    BY <1>1 DEF ChannelSafe, ChanTypes
  <1> QED
    BY <1>1, <1>2, UntouchedIsSafe

LEMMA EndIsSafe ==
  ASSUME ChannelSafe, NEW t \in Thread, Ends(t), Quietly, chan' = chan,
         channelList' = channelList, listing' \in Thread \union {Null}
  PROVE  ChannelSafe'
  <1>1. PICK y \in TaskRec : y = Idle /\ Fits(t, y)
    BY IdleFits
  <1>2. task' = [task EXCEPT ![t] = y]
    BY <1>1 DEF Ends
  <1>3. ChanTypes
    BY DEF ChannelSafe
  <1>4. chan' \in [Channel -> ChanRec]
    BY <1>3 DEF ChanTypes
  <1> QED
    BY <1>1, <1>2, <1>4, QuietMove

LEMMA LocateFacts ==
  ASSUME channelList \in Seq(Channel), NEW name
  PROVE  /\ LocateChannel(name) \in 0..Len(channelList)
         /\ LocateChannel(name) = 0 <=>
              \A i \in 1..Len(channelList) : chan[channelList[i]].name # name
         /\ LocateChannel(name) # 0 => IsFirst(LocateChannel(name), name)
  <1> DEFINE I == {i \in 1..Len(channelList) : chan[channelList[i]].name = name}
             P(i) == /\ chan[channelList[i]].name = name
                     /\ \A j \in 1..(i - 1) : chan[channelList[j]].name # name
  <1>0. DOMAIN channelList = 1..Len(channelList) /\ Len(channelList) \in Nat
    OBVIOUS
  <1>1. CASE I = {}
    BY <1>0, <1>1 DEF LocateChannel
  <1>2. CASE I # {}
    <2>1. I \in SUBSET Nat
      OBVIOUS
    <2>2. PICK m \in I : \A n \in I : m <= n
      BY <1>2, <2>1, HasLeast
    <2>3. m \in DOMAIN channelList /\ P(m)
      <3>1. m \in 1..Len(channelList) /\ chan[channelList[m]].name = name
        OBVIOUS
      <3>2. ASSUME NEW j \in 1..(m - 1), chan[channelList[j]].name = name PROVE FALSE
        <4>1. j \in I /\ ~(m <= j)
          BY <1>0, <3>1, <3>2
        <4> QED
          BY <2>2, <4>1
      <3> QED
        BY <1>0, <3>1, <3>2
    <2>4. LocateChannel(name) = CHOOSE i \in DOMAIN channelList : P(i)
      BY <2>3 DEF LocateChannel
    <2>5. \E i \in DOMAIN channelList : P(i)
      BY <2>3
    <2> HIDE DEF P
    <2>6. LocateChannel(name) \in DOMAIN channelList /\ P(LocateChannel(name))
      BY <2>4, <2>5
    <2> QED
      BY <1>0, <2>6 DEF P, IsFirst
  <1> QED
    BY <1>1, <1>2

LEMMA PositionFacts ==
  ASSUME NEW m \in Seq(Thread), NEW n, NEW fd
  PROVE  /\ Position(m, n, fd) \in 0..Len(m)
         /\ Position(m, n, fd) = 0 =>
              \A i \in 1..Len(m) : i <= n => client[m[i]].fd # fd
         /\ Position(m, n, fd) # 0 => client[m[Position(m, n, fd)]].fd = fd
  <1> DEFINE S == {i \in DOMAIN m : i <= n /\ client[m[i]].fd = fd}
             P(i) == \A j \in S : i <= j
  <1>0. DOMAIN m = 1..Len(m) /\ Len(m) \in Nat
    OBVIOUS
  <1>1. Position(m, n, fd) = IF S = {} THEN 0 ELSE CHOOSE i \in S : P(i)
    BY DEF Position
  <1>2. S \in SUBSET Nat
    BY <1>0
  <1>3. S # {} => \E i \in S : P(i)
    BY <1>2, HasLeast
  <1>4. CASE S = {}
    <2>1. Position(m, n, fd) = 0
      BY <1>1, <1>4
    <2>2. ASSUME NEW i \in 1..Len(m), i <= n, client[m[i]].fd = fd PROVE FALSE
      <3>1. i \in S
        BY <1>0, <2>2
      <3> QED
        BY <1>4, <3>1
    <2> QED
      BY <1>0, <2>1, <2>2
  <1>5. CASE S # {}
    <2> HIDE DEF P
    <2>1. Position(m, n, fd) \in S
      BY <1>1, <1>3, <1>5
    <2> QED
      BY <1>0, <2>1
  <1> QED
    BY <1>4, <1>5

LEMMA CopyIsSafe ==
  ASSUME ChannelSafe, NEW t \in Thread, Copy(t)
  PROVE  ChannelSafe'
  <1>1. ChanTypes /\ Fits(t, task[t]) /\ InRole(task[t])
    BY DEF ChannelSafe, Fits
  <1>2. /\ task[t] \in TaskRec /\ task \in [Thread -> TaskRec]
        /\ \A k \in Channel : /\ chan[k] \in ChanRec /\ Len(chan[k].members) \in Nat
                              /\ chan[k].members \in Seq(Thread)
        /\ channelList \in Seq(Channel)
        /\ \A i \in 1..Len(channelList) : channelList[i] \in Channel
        /\ Null \notin Channel /\ Null \notin Names
    BY <1>1, ChannelFacts DEF ChanTypes
  <1>3. /\ task[t].n \in Int /\ task[t].n + 1 \in Int /\ task[t].n + -1 \in Int
        /\ task[t].pos \in Nat /\ task[t].pos + 1 \in Nat
        /\ \A k \in Channel : Len(chan[k].members) \in Int /\ chan[k].nusers \in Int
    BY <1>2 DEF TaskRec, ChanRec
  <1>4. task[t].pc = "copy" /\ task[t].ch \in Channel
    BY <1>1, <1>2, <1>3 DEF Copy, At, InRole, OnChannel, Steps, ReadUsers, WriteUsers
  <1>5. PICK y : y = [task[t] EXCEPT !.pc = "check", !.n = Len(chan[task[t].ch].members),
                               !.busy = ~MembersUnlocked(t)]
    OBVIOUS
  <1>6. /\ y \in TaskRec
        /\ y.pc = "check" /\ y.n = Len(chan[task[t].ch].members)
        /\ y.op = task[t].op /\ y.name = task[t].name /\ y.fd = task[t].fd /\ y.c = task[t].c /\ y.ch = task[t].ch
    <2>1. PICK x \in TaskRec : x = task[t]
      BY <1>2
    <2>2. PICK v \in Int : v = Len(chan[task[t].ch].members)
      BY <1>3, <1>4
    <2>3. y = [x EXCEPT !.pc = "check", !.n = v, !.busy = ~MembersUnlocked(t)]
      BY <1>5, <2>1, <2>2
    <2>4. y \in TaskRec
      <3>1. CASE MembersUnlocked(t)
        BY <2>3, <3>1 DEF TaskRec, Steps
      <3>2. CASE ~MembersUnlocked(t)
        BY <2>3, <3>2 DEF TaskRec, Steps
      <3> QED
        BY <3>1, <3>2
    <2>5. /\ y.pc = "check" /\ y.n = v /\ y.op = x.op /\ y.name = x.name
          /\ y.fd = x.fd /\ y.c = x.c /\ y.ch = x.ch
      BY <2>3 DEF TaskRec
    <2> QED
      BY <2>1, <2>2, <2>4, <2>5
  <1>7. task' = [task EXCEPT ![t] = y]
    BY <1>2, <1>5 DEF Copy, Goes, Copied
  <1>8. Quietly /\ channelList' = channelList /\ listing' \in Thread \union {Null}
    BY <1>1 DEF Copy, Quietly, history, lists, ChanTypes
  <1>9. /\ chan' \in [Channel -> ChanRec]
        /\ \A k \in Channel : chan'[k].name = chan[k].name /\ chan'[k].members = chan[k].members
    BY <1>1 DEF Copy, lists, ChanTypes
  <1>10. Fits(t, y)
    BY <1>1, <1>2, <1>4, <1>6 DEF Fits, InRole, ForItself, UpToDate, NotYetIn, OnChannel, Steps
  <1> QED
    BY <1>6, <1>7, <1>8, <1>9, <1>10, QuietMove

LEMMA JoinReadIsSafe ==
  ASSUME ChannelSafe, NEW t \in Thread, JoinRead(t)
  PROVE  ChannelSafe'
  <1>1. ChanTypes /\ Fits(t, task[t]) /\ InRole(task[t])
    BY DEF ChannelSafe, Fits
  <1>2. /\ task[t] \in TaskRec /\ task \in [Thread -> TaskRec]
        /\ \A k \in Channel : /\ chan[k] \in ChanRec /\ Len(chan[k].members) \in Nat
                              /\ chan[k].members \in Seq(Thread)
        /\ channelList \in Seq(Channel)
        /\ \A i \in 1..Len(channelList) : channelList[i] \in Channel
        /\ Null \notin Channel /\ Null \notin Names
    BY <1>1, ChannelFacts DEF ChanTypes
  <1>3. /\ task[t].n \in Int /\ task[t].n + 1 \in Int /\ task[t].n + -1 \in Int
        /\ task[t].pos \in Nat /\ task[t].pos + 1 \in Nat
        /\ \A k \in Channel : Len(chan[k].members) \in Int /\ chan[k].nusers \in Int
    BY <1>2 DEF TaskRec, ChanRec
  <1>4. task[t].pc = "count" /\ task[t].ch \in Channel /\ task[t].op = "JOIN"
    BY <1>1, <1>2, <1>3 DEF JoinRead, At, InRole, OnChannel, Steps, ReadUsers, WriteUsers, ReadUsers
  <1>5. PICK y : y = [task[t] EXCEPT !.pc = "enter", !.n = chan[task[t].ch].nusers]
    OBVIOUS
  <1>6. /\ y \in TaskRec
        /\ y.pc = "enter"
        /\ y.op = task[t].op /\ y.name = task[t].name /\ y.fd = task[t].fd /\ y.c = task[t].c /\ y.ch = task[t].ch
    <2>1. y \in TaskRec
      BY <1>2, <1>3, <1>4, <1>5, 0 \in Int, 1 \in Nat DEF TaskRec, Steps, Ops, Commands, ReadUsers
    <2> QED
      BY <1>2, <1>4, <1>5, <2>1 DEF TaskRec, ReadUsers
  <1>7. task' = [task EXCEPT ![t] = y]
    BY <1>2, <1>5 DEF JoinRead, Goes, Copied, ReadUsers
  <1>8. Quietly /\ channelList' = channelList /\ listing' \in Thread \union {Null}
    BY <1>1 DEF JoinRead, Quietly, history, lists, ChanTypes, ReadUsers
  <1>9. /\ chan' \in [Channel -> ChanRec]
        /\ \A k \in Channel : chan'[k].name = chan[k].name /\ chan'[k].members = chan[k].members
    BY <1>1 DEF JoinRead, lists, ChanTypes, ReadUsers
  <1>10. Fits(t, y)
    BY <1>1, <1>2, <1>4, <1>6 DEF Fits, InRole, ForItself, UpToDate, NotYetIn, OnChannel, Steps
  <1> QED
    BY <1>6, <1>7, <1>8, <1>9, <1>10, QuietMove

LEMMA LeaveReadIsSafe ==
  ASSUME ChannelSafe, NEW t \in Thread, LeaveRead(t)
  PROVE  ChannelSafe'
  <1>1. ChanTypes /\ Fits(t, task[t]) /\ InRole(task[t])
    BY DEF ChannelSafe, Fits
  <1>2. /\ task[t] \in TaskRec /\ task \in [Thread -> TaskRec]
        /\ \A k \in Channel : /\ chan[k] \in ChanRec /\ Len(chan[k].members) \in Nat
                              /\ chan[k].members \in Seq(Thread)
        /\ channelList \in Seq(Channel)
        /\ \A i \in 1..Len(channelList) : channelList[i] \in Channel
        /\ Null \notin Channel /\ Null \notin Names
    BY <1>1, ChannelFacts DEF ChanTypes
  <1>3. /\ task[t].n \in Int /\ task[t].n + 1 \in Int /\ task[t].n + -1 \in Int
        /\ task[t].pos \in Nat /\ task[t].pos + 1 \in Nat
        /\ \A k \in Channel : Len(chan[k].members) \in Int /\ chan[k].nusers \in Int
    BY <1>2 DEF TaskRec, ChanRec
  <1>4. task[t].pc = "leave" /\ task[t].ch \in Channel /\ task[t].op = "REMOVE"
    BY <1>1, <1>2, <1>3 DEF LeaveRead, At, InRole, OnChannel, Steps, ReadUsers, WriteUsers, ReadUsers
  <1>5. PICK y : y = [task[t] EXCEPT !.pc = "left", !.n = chan[task[t].ch].nusers]
    OBVIOUS
  <1>6. /\ y \in TaskRec
        /\ y.pc = "left"
        /\ y.op = task[t].op /\ y.name = task[t].name /\ y.fd = task[t].fd /\ y.c = task[t].c /\ y.ch = task[t].ch
    <2>1. y \in TaskRec
      BY <1>2, <1>3, <1>4, <1>5, 0 \in Int, 1 \in Nat DEF TaskRec, Steps, Ops, Commands, ReadUsers
    <2> QED
      BY <1>2, <1>4, <1>5, <2>1 DEF TaskRec, ReadUsers
  <1>7. task' = [task EXCEPT ![t] = y]
    BY <1>2, <1>5 DEF LeaveRead, Goes, Copied, ReadUsers
  <1>8. Quietly /\ channelList' = channelList /\ listing' \in Thread \union {Null}
    BY <1>1 DEF LeaveRead, Quietly, history, lists, ChanTypes, ReadUsers
  <1>9. /\ chan' \in [Channel -> ChanRec]
        /\ \A k \in Channel : chan'[k].name = chan[k].name /\ chan'[k].members = chan[k].members
    BY <1>1 DEF LeaveRead, lists, ChanTypes, ReadUsers
  <1>10. Fits(t, y)
    BY <1>1, <1>2, <1>4, <1>6 DEF Fits, InRole, ForItself, UpToDate, NotYetIn, OnChannel, Steps
  <1> QED
    BY <1>6, <1>7, <1>8, <1>9, <1>10, QuietMove

LEMMA JoinWriteIsSafe ==
  ASSUME ChannelSafe, NEW t \in Thread, JoinWrite(t)
  PROVE  ChannelSafe'
  <1>1. ChanTypes /\ Fits(t, task[t]) /\ InRole(task[t])
    BY DEF ChannelSafe, Fits
  <1>2. /\ task[t] \in TaskRec /\ task \in [Thread -> TaskRec]
        /\ \A k \in Channel : /\ chan[k] \in ChanRec /\ Len(chan[k].members) \in Nat
                              /\ chan[k].members \in Seq(Thread)
        /\ channelList \in Seq(Channel)
        /\ \A i \in 1..Len(channelList) : channelList[i] \in Channel
        /\ Null \notin Channel /\ Null \notin Names
    BY <1>1, ChannelFacts DEF ChanTypes
  <1>3. /\ task[t].n \in Int /\ task[t].n + 1 \in Int /\ task[t].n + -1 \in Int
        /\ task[t].pos \in Nat /\ task[t].pos + 1 \in Nat
        /\ \A k \in Channel : Len(chan[k].members) \in Int /\ chan[k].nusers \in Int
    BY <1>2 DEF TaskRec, ChanRec
  <1>4. task[t].pc = "enter" /\ task[t].ch \in Channel /\ task[t].op = "JOIN"
    BY <1>1, <1>2, <1>3 DEF JoinWrite, At, InRole, OnChannel, Steps, ReadUsers, WriteUsers, WriteUsers
  <1>5. PICK y : y = [task[t] EXCEPT !.pc = "append", !.n = 0]
    OBVIOUS
  <1>6. /\ y \in TaskRec
        /\ y.pc = "append"
        /\ y.op = task[t].op /\ y.name = task[t].name /\ y.fd = task[t].fd /\ y.c = task[t].c /\ y.ch = task[t].ch
    <2>1. y \in TaskRec
      BY <1>2, <1>3, <1>4, <1>5, 0 \in Int, 1 \in Nat DEF TaskRec, Steps, Ops, Commands, WriteUsers
    <2> QED
      BY <1>2, <1>4, <1>5, <2>1 DEF TaskRec, WriteUsers
  <1>7. task' = [task EXCEPT ![t] = y]
    BY <1>2, <1>5 DEF JoinWrite, Goes, Copied, WriteUsers
  <1>8. Quietly /\ channelList' = channelList /\ listing' \in Thread \union {Null}
    BY <1>1 DEF JoinWrite, Quietly, history, lists, ChanTypes, WriteUsers
  <1>9. /\ chan' \in [Channel -> ChanRec]
        /\ \A k \in Channel : chan'[k].name = chan[k].name /\ chan'[k].members = chan[k].members
    <2>1. PICK z : z = [chan[task[t].ch] EXCEPT !.nusers = task[t].n + 1]
      OBVIOUS
    <2>2. task[t].ch \in Channel /\ chan' = [chan EXCEPT ![task[t].ch] = z]
      BY <1>2, <1>4, <2>1 DEF JoinWrite, WriteUsers
    <2>3. z \in ChanRec /\ z.name = chan[task[t].ch].name /\ z.members = chan[task[t].ch].members
      BY <1>2, <1>3, <1>4, <2>1, ChanFieldFacts
    <2> QED
      BY <1>1, <1>2, <2>2, <2>3 DEF ChanTypes
  <1>10. Fits(t, y)
    BY <1>1, <1>2, <1>4, <1>6 DEF Fits, InRole, ForItself, UpToDate, NotYetIn, OnChannel, Steps
  <1> QED
    BY <1>6, <1>7, <1>8, <1>9, <1>10, QuietMove

LEMMA LeaveWriteIsSafe ==
  ASSUME ChannelSafe, NEW t \in Thread, LeaveWrite(t)
  PROVE  ChannelSafe'
  <1>1. ChanTypes /\ Fits(t, task[t]) /\ InRole(task[t])
    BY DEF ChannelSafe, Fits
  <1>2. /\ task[t] \in TaskRec /\ task \in [Thread -> TaskRec]
        /\ \A k \in Channel : /\ chan[k] \in ChanRec /\ Len(chan[k].members) \in Nat
                              /\ chan[k].members \in Seq(Thread)
        /\ channelList \in Seq(Channel)
        /\ \A i \in 1..Len(channelList) : channelList[i] \in Channel
        /\ Null \notin Channel /\ Null \notin Names
    BY <1>1, ChannelFacts DEF ChanTypes
  <1>3. /\ task[t].n \in Int /\ task[t].n + 1 \in Int /\ task[t].n + -1 \in Int
        /\ task[t].pos \in Nat /\ task[t].pos + 1 \in Nat
        /\ \A k \in Channel : Len(chan[k].members) \in Int /\ chan[k].nusers \in Int
    BY <1>2 DEF TaskRec, ChanRec
  <1>4. task[t].pc = "left" /\ task[t].ch \in Channel /\ task[t].op = "REMOVE"
    BY <1>1, <1>2, <1>3 DEF LeaveWrite, At, InRole, OnChannel, Steps, ReadUsers, WriteUsers, WriteUsers
  <1>5. PICK y : y = [task[t] EXCEPT !.pc = "empty", !.n = 0]
    OBVIOUS
  <1>6. /\ y \in TaskRec
        /\ y.pc = "empty"
        /\ y.op = task[t].op /\ y.name = task[t].name /\ y.fd = task[t].fd /\ y.c = task[t].c /\ y.ch = task[t].ch
    <2>1. y \in TaskRec
      BY <1>2, <1>3, <1>4, <1>5, 0 \in Int, 1 \in Nat DEF TaskRec, Steps, Ops, Commands, WriteUsers
    <2> QED
      BY <1>2, <1>4, <1>5, <2>1 DEF TaskRec, WriteUsers
  <1>7. task' = [task EXCEPT ![t] = y]
    BY <1>2, <1>5 DEF LeaveWrite, Goes, Copied, WriteUsers
  <1>8. Quietly /\ channelList' = channelList /\ listing' \in Thread \union {Null}
    BY <1>1 DEF LeaveWrite, Quietly, history, lists, ChanTypes, WriteUsers
  <1>9. /\ chan' \in [Channel -> ChanRec]
        /\ \A k \in Channel : chan'[k].name = chan[k].name /\ chan'[k].members = chan[k].members
    <2>1. PICK z : z = [chan[task[t].ch] EXCEPT !.nusers = task[t].n + -1]
      OBVIOUS
    <2>2. task[t].ch \in Channel /\ chan' = [chan EXCEPT ![task[t].ch] = z]
      BY <1>2, <1>4, <2>1 DEF LeaveWrite, WriteUsers
    <2>3. z \in ChanRec /\ z.name = chan[task[t].ch].name /\ z.members = chan[task[t].ch].members
      BY <1>2, <1>3, <1>4, <2>1, ChanFieldFacts
    <2> QED
      BY <1>1, <1>2, <2>2, <2>3 DEF ChanTypes
  <1>10. Fits(t, y)
    BY <1>1, <1>2, <1>4, <1>6 DEF Fits, InRole, ForItself, UpToDate, NotYetIn, OnChannel, Steps
  <1> QED
    BY <1>6, <1>7, <1>8, <1>9, <1>10, QuietMove

LEMMA MessageCopyIsSafe ==
  ASSUME ChannelSafe, NEW t \in Thread, MessageCopy(t)
  PROVE  ChannelSafe'
  <1>1. ChanTypes /\ Fits(t, task[t]) /\ InRole(task[t])
    BY DEF ChannelSafe, Fits
  <1>2. /\ task[t] \in TaskRec /\ task \in [Thread -> TaskRec]
        /\ \A k \in Channel : /\ chan[k] \in ChanRec /\ Len(chan[k].members) \in Nat
                              /\ chan[k].members \in Seq(Thread)
        /\ channelList \in Seq(Channel)
        /\ \A i \in 1..Len(channelList) : channelList[i] \in Channel
        /\ Null \notin Channel /\ Null \notin Names
    BY <1>1, ChannelFacts DEF ChanTypes
  <1>3. /\ task[t].n \in Int /\ task[t].n + 1 \in Int /\ task[t].n + -1 \in Int
        /\ task[t].pos \in Nat /\ task[t].pos + 1 \in Nat
        /\ \A k \in Channel : Len(chan[k].members) \in Int /\ chan[k].nusers \in Int
    BY <1>2 DEF TaskRec, ChanRec
  <1>4. task[t].pc = "head" /\ task[t].ch \in Channel
    BY <1>1, <1>2, <1>3 DEF MessageCopy, At, InRole, OnChannel, Steps, ReadUsers, WriteUsers
  <1>5. PICK y : y = [task[t] EXCEPT !.pc = "send", !.n = Len(chan[task[t].ch].members),
                               !.busy = ~MembersUnlocked(t)]
    OBVIOUS
  <1>6. /\ y \in TaskRec
        /\ y.pc = "send"
        /\ y.op = task[t].op /\ y.name = task[t].name /\ y.fd = task[t].fd /\ y.c = task[t].c /\ y.ch = task[t].ch
    <2>1. PICK x \in TaskRec : x = task[t]
      BY <1>2
    <2>2. PICK v \in Int : v = Len(chan[task[t].ch].members)
      BY <1>3, <1>4
    <2>3. y = [x EXCEPT !.pc = "send", !.n = v, !.busy = ~MembersUnlocked(t)]
      BY <1>5, <2>1, <2>2
    <2>4. y \in TaskRec
      <3>1. CASE MembersUnlocked(t)
        BY <2>3, <3>1 DEF TaskRec, Steps
      <3>2. CASE ~MembersUnlocked(t)
        BY <2>3, <3>2 DEF TaskRec, Steps
      <3> QED
        BY <3>1, <3>2
    <2>5. /\ y.pc = "send" /\ y.op = x.op /\ y.name = x.name
          /\ y.fd = x.fd /\ y.c = x.c /\ y.ch = x.ch
      BY <2>3 DEF TaskRec
    <2> QED
      BY <2>1, <2>2, <2>4, <2>5
  <1>7. task' = [task EXCEPT ![t] = y]
    BY <1>2, <1>5 DEF MessageCopy, Goes, Copied
  <1>8. Quietly /\ channelList' = channelList /\ listing' \in Thread \union {Null}
    BY <1>1 DEF MessageCopy, Quietly, history, lists, ChanTypes
  <1>9. /\ chan' \in [Channel -> ChanRec]
        /\ \A k \in Channel : chan'[k].name = chan[k].name /\ chan'[k].members = chan[k].members
    BY <1>1 DEF MessageCopy, lists, ChanTypes
  <1>10. Fits(t, y)
    BY <1>1, <1>2, <1>4, <1>6 DEF Fits, InRole, ForItself, UpToDate, NotYetIn, OnChannel, Steps
  <1> QED
    BY <1>6, <1>7, <1>8, <1>9, <1>10, QuietMove

LEMMA TopicReplaceIsSafe ==
  ASSUME ChannelSafe, NEW t \in Thread, TopicReplace(t)
  PROVE  ChannelSafe'
  <1>1. ChanTypes /\ Fits(t, task[t]) /\ InRole(task[t])
    BY DEF ChannelSafe, Fits
  <1>2. /\ task[t] \in TaskRec /\ task \in [Thread -> TaskRec]
        /\ \A k \in Channel : /\ chan[k] \in ChanRec /\ Len(chan[k].members) \in Nat
                              /\ chan[k].members \in Seq(Thread)
        /\ channelList \in Seq(Channel)
        /\ \A i \in 1..Len(channelList) : channelList[i] \in Channel
        /\ Null \notin Channel /\ Null \notin Names
    BY <1>1, ChannelFacts DEF ChanTypes
  <1>3. /\ task[t].n \in Int /\ task[t].n + 1 \in Int /\ task[t].n + -1 \in Int
        /\ task[t].pos \in Nat /\ task[t].pos + 1 \in Nat
        /\ \A k \in Channel : Len(chan[k].members) \in Int /\ chan[k].nusers \in Int
    BY <1>2 DEF TaskRec, ChanRec
  <1>4. task[t].pc = "replace" /\ task[t].ch \in Channel /\ task[t].op = "TOPIC"
    BY <1>1, <1>2, <1>3 DEF TopicReplace, At, InRole, OnChannel, Steps, ReadUsers, WriteUsers
  <1>5. PICK y : y = [task[t] EXCEPT !.pc = "head"]
    OBVIOUS
  <1>6. /\ y \in TaskRec
        /\ y.pc = "head"
        /\ y.op = task[t].op /\ y.name = task[t].name /\ y.fd = task[t].fd /\ y.c = task[t].c /\ y.ch = task[t].ch
    <2>1. y \in TaskRec
      BY <1>2, <1>3, <1>4, <1>5, 0 \in Int, 1 \in Nat DEF TaskRec, Steps, Ops, Commands
    <2> QED
      BY <1>2, <1>4, <1>5, <2>1 DEF TaskRec
  <1>7. task' = [task EXCEPT ![t] = y]
    BY <1>2, <1>5 DEF TopicReplace, Goes, Copied
  <1>8. Quietly /\ channelList' = channelList /\ listing' \in Thread \union {Null}
    BY <1>1 DEF TopicReplace, Quietly, history, lists, ChanTypes
  <1>9. /\ chan' \in [Channel -> ChanRec]
        /\ \A k \in Channel : chan'[k].name = chan[k].name /\ chan'[k].members = chan[k].members
    <2>1. PICK z : z = [chan[task[t].ch] EXCEPT !.topic = "set"]
      OBVIOUS
    <2>2. task[t].ch \in Channel /\ chan' = [chan EXCEPT ![task[t].ch] = z]
      BY <1>2, <1>4, <2>1 DEF TopicReplace
    <2>3. z \in ChanRec /\ z.name = chan[task[t].ch].name /\ z.members = chan[task[t].ch].members
      BY <1>2, <1>3, <1>4, <2>1, ChanFieldFacts
    <2> QED
      BY <1>1, <1>2, <2>2, <2>3 DEF ChanTypes
  <1>10. Fits(t, y)
    BY <1>1, <1>2, <1>4, <1>6 DEF Fits, InRole, ForItself, UpToDate, NotYetIn, OnChannel, Steps
  <1> QED
    BY <1>6, <1>7, <1>8, <1>9, <1>10, QuietMove

LEMMA TopicFreeIsSafe ==
  ASSUME ChannelSafe, NEW t \in Thread, TopicFree(t)
  PROVE  ChannelSafe'
  <1>1. ChanTypes /\ Fits(t, task[t]) /\ InRole(task[t])
    BY DEF ChannelSafe, Fits
  <1>2. /\ task[t] \in TaskRec /\ task \in [Thread -> TaskRec]
        /\ \A k \in Channel : /\ chan[k] \in ChanRec /\ Len(chan[k].members) \in Nat
                              /\ chan[k].members \in Seq(Thread)
        /\ channelList \in Seq(Channel)
        /\ \A i \in 1..Len(channelList) : channelList[i] \in Channel
        /\ Null \notin Channel /\ Null \notin Names
    BY <1>1, ChannelFacts DEF ChanTypes
  <1>3. /\ task[t].n \in Int /\ task[t].n + 1 \in Int /\ task[t].n + -1 \in Int
        /\ task[t].pos \in Nat /\ task[t].pos + 1 \in Nat
        /\ \A k \in Channel : Len(chan[k].members) \in Int /\ chan[k].nusers \in Int
    BY <1>2 DEF TaskRec, ChanRec
  <1>4. task[t].pc = "free" /\ task[t].ch \in Channel /\ task[t].op = "TOPIC"
    BY <1>1, <1>2, <1>3 DEF TopicFree, At, InRole, OnChannel, Steps, ReadUsers, WriteUsers
  <1>5. CASE Misuse
    BY <1>5, MisuseIsSafe
  <1>6. CASE ~(Gone(t) \/ chan[task[t].ch].topic = "freed")
    <2>1. PICK y : y = [task[t] EXCEPT !.pc = "replace"]
      OBVIOUS
    <2>2. /\ y \in TaskRec
          /\ y.pc = "replace"
          /\ y.op = task[t].op /\ y.name = task[t].name /\ y.fd = task[t].fd /\ y.c = task[t].c /\ y.ch = task[t].ch
      <3>1. y \in TaskRec
        BY <1>2, <1>3, <1>4, <1>6, <2>1, 0 \in Int, 1 \in Nat DEF TaskRec, Steps, Ops, Commands
      <3> QED
        BY <1>2, <1>4, <1>6, <2>1, <3>1 DEF TaskRec
    <2>3. task' = [task EXCEPT ![t] = y]
      BY <1>2, <1>6, <2>1 DEF TopicFree, Goes, Copied
    <2>4. Quietly /\ channelList' = channelList /\ listing' \in Thread \union {Null}
      BY <1>1, <1>6 DEF TopicFree, Quietly, history, lists, ChanTypes
    <2>5. /\ chan' \in [Channel -> ChanRec]
          /\ \A k \in Channel : chan'[k].name = chan[k].name /\ chan'[k].members = chan[k].members
      <3>1. PICK z : z = [chan[task[t].ch] EXCEPT !.topic = "freed"]
        OBVIOUS
      <3>2. task[t].ch \in Channel /\ chan' = [chan EXCEPT ![task[t].ch] = z]
        BY <1>2, <1>4, <1>6, <3>1 DEF TopicFree
      <3>3. z \in ChanRec /\ z.name = chan[task[t].ch].name /\ z.members = chan[task[t].ch].members
        BY <1>2, <1>3, <1>4, <3>1, ChanFieldFacts
      <3> QED
        BY <1>1, <1>2, <3>2, <3>3 DEF ChanTypes
    <2>6. Fits(t, y)
      BY <1>1, <1>2, <1>4, <1>6, <2>2 DEF Fits, InRole, ForItself, UpToDate, NotYetIn, OnChannel, Steps
    <2> QED
      BY <2>2, <2>3, <2>4, <2>5, <2>6, QuietMove
  <1> QED
    BY <1>5, <1>6 DEF TopicFree

LEMMA NamesStartIsSafe ==
  ASSUME ChannelSafe, NEW t \in Thread, NamesStart(t)
  PROVE  ChannelSafe'
  <1>1. ChanTypes /\ Fits(t, task[t]) /\ InRole(task[t])
    BY DEF ChannelSafe, Fits
  <1>2. /\ task[t] \in TaskRec /\ task \in [Thread -> TaskRec]
        /\ \A k \in Channel : /\ chan[k] \in ChanRec /\ Len(chan[k].members) \in Nat
                              /\ chan[k].members \in Seq(Thread)
        /\ channelList \in Seq(Channel)
        /\ \A i \in 1..Len(channelList) : channelList[i] \in Channel
        /\ Null \notin Channel /\ Null \notin Names
    BY <1>1, ChannelFacts DEF ChanTypes
  <1>3. /\ task[t].n \in Int /\ task[t].n + 1 \in Int /\ task[t].n + -1 \in Int
        /\ task[t].pos \in Nat /\ task[t].pos + 1 \in Nat
        /\ \A k \in Channel : Len(chan[k].members) \in Int /\ chan[k].nusers \in Int
    BY <1>2 DEF TaskRec, ChanRec
  <1>4. task[t].pc = "names" /\ task[t].ch \in Channel /\ task[t].op = "NAMES"
    BY <1>1, <1>2, <1>3 DEF NamesStart, At, InRole, OnChannel, Steps, ReadUsers, WriteUsers
  <1>5. CASE Misuse
    BY <1>5, MisuseIsSafe
  <1>6. CASE ~Gone(t)
    <2>1. PICK y : y = [task[t] EXCEPT !.pc = "naming"]
      OBVIOUS
    <2>2. /\ y \in TaskRec
          /\ y.pc = "naming" /\ y.pos = task[t].pos
          /\ y.op = task[t].op /\ y.name = task[t].name /\ y.fd = task[t].fd /\ y.c = task[t].c /\ y.ch = task[t].ch
      <3>1. y \in TaskRec
        BY <1>2, <1>3, <1>4, <1>6, <2>1, 0 \in Int, 1 \in Nat DEF TaskRec, Steps, Ops, Commands
      <3> QED
        BY <1>2, <1>4, <1>6, <2>1, <3>1 DEF TaskRec
    <2>3. task' = [task EXCEPT ![t] = y]
      BY <1>2, <1>6, <2>1 DEF NamesStart, Goes, Copied
    <2>4. Quietly /\ channelList' = channelList /\ listing' \in Thread \union {Null}
      BY <1>1, <1>6 DEF NamesStart, Quietly, history, lists, ChanTypes
    <2>5. /\ chan' \in [Channel -> ChanRec]
          /\ \A k \in Channel : chan'[k].name = chan[k].name /\ chan'[k].members = chan[k].members
      <3>1. PICK z : z = [chan[task[t].ch] EXCEPT !.reader = t]
        OBVIOUS
      <3>2. task[t].ch \in Channel /\ chan' = [chan EXCEPT ![task[t].ch] = z]
        BY <1>2, <1>4, <1>6, <3>1 DEF NamesStart
      <3>3. z \in ChanRec /\ z.name = chan[task[t].ch].name /\ z.members = chan[task[t].ch].members
        BY <1>2, <1>3, <1>4, <3>1, ChanFieldFacts
      <3> QED
        BY <1>1, <1>2, <3>2, <3>3 DEF ChanTypes
    <2>6. Fits(t, y)
      BY <1>1, <1>2, <1>4, <1>6, <2>2 DEF Fits, InRole, ForItself, UpToDate, NotYetIn, OnChannel, Steps
    <2> QED
      BY <2>2, <2>3, <2>4, <2>5, <2>6, QuietMove
  <1> QED
    BY <1>5, <1>6 DEF NamesStart

LEMMA NamesStopIsSafe ==
  ASSUME ChannelSafe, NEW t \in Thread, NamesStop(t)
  PROVE  ChannelSafe'
  <1>1. ChanTypes /\ Fits(t, task[t]) /\ InRole(task[t])
    BY DEF ChannelSafe, Fits
  <1>2. /\ task[t] \in TaskRec /\ task \in [Thread -> TaskRec]
        /\ \A k \in Channel : /\ chan[k] \in ChanRec /\ Len(chan[k].members) \in Nat
                              /\ chan[k].members \in Seq(Thread)
        /\ channelList \in Seq(Channel)
        /\ \A i \in 1..Len(channelList) : channelList[i] \in Channel
        /\ Null \notin Channel /\ Null \notin Names
    BY <1>1, ChannelFacts DEF ChanTypes
  <1>3. /\ task[t].n \in Int /\ task[t].n + 1 \in Int /\ task[t].n + -1 \in Int
        /\ task[t].pos \in Nat /\ task[t].pos + 1 \in Nat
        /\ \A k \in Channel : Len(chan[k].members) \in Int /\ chan[k].nusers \in Int
    BY <1>2 DEF TaskRec, ChanRec
  <1>4. task[t].pc = "naming" /\ task[t].ch \in Channel /\ task[t].op = "NAMES"
    BY <1>1, <1>2, <1>3 DEF NamesStop, At, InRole, OnChannel, Steps, ReadUsers, WriteUsers
  <1>5. CASE Misuse
    BY <1>5, MisuseIsSafe
  <1>6. CASE ~Gone(t) /\ task[t].name = Null
    <2>1. PICK y : y = [task[t] EXCEPT !.pc = "each"]
      OBVIOUS
    <2>2. /\ y \in TaskRec
          /\ y.pc = "each" /\ y.pos = task[t].pos
          /\ y.op = task[t].op /\ y.name = task[t].name /\ y.fd = task[t].fd /\ y.c = task[t].c /\ y.ch = task[t].ch
      <3>1. "each" \in Steps
        BY DEF Steps
      <3> QED
        BY <1>2, <2>1, <3>1, GoFacts
    <2>3. task' = [task EXCEPT ![t] = y]
      BY <1>2, <1>6, <2>1 DEF NamesStop, Goes, Copied
    <2>4. Quietly /\ channelList' = channelList /\ listing' \in Thread \union {Null}
      BY <1>1, <1>6 DEF NamesStop, Quietly, history, lists, ChanTypes
    <2>5. /\ chan' \in [Channel -> ChanRec]
          /\ \A k \in Channel : chan'[k].name = chan[k].name /\ chan'[k].members = chan[k].members
      <3>1. PICK z : z = [chan[task[t].ch] EXCEPT !.reader = Null]
        OBVIOUS
      <3>2. task[t].ch \in Channel /\ chan' = [chan EXCEPT ![task[t].ch] = z]
        BY <1>2, <1>4, <1>6, <3>1 DEF NamesStop
      <3>3. z \in ChanRec /\ z.name = chan[task[t].ch].name /\ z.members = chan[task[t].ch].members
        BY <1>2, <1>3, <1>4, <3>1, ChanFieldFacts
      <3> QED
        BY <1>1, <1>2, <3>2, <3>3 DEF ChanTypes
    <2>6. Fits(t, y)
      BY <1>1, <1>2, <1>4, <1>6, <2>2 DEF Fits, InRole, ForItself, UpToDate, NotYetIn, OnChannel, Steps
    <2> QED
      BY <2>2, <2>3, <2>4, <2>5, <2>6, QuietMove
  <1>7. CASE ~Gone(t) /\ task[t].name # Null
    <2>1. PICK y : y = Idle
      OBVIOUS
    <2>2. /\ y \in TaskRec
          /\ y = Idle
      BY <2>1, IdleFits
    <2>3. task' = [task EXCEPT ![t] = y]
      BY <1>2, <1>7, <2>1 DEF NamesStop, Goes, Copied, Ends
    <2>4. Quietly /\ channelList' = channelList /\ listing' \in Thread \union {Null}
      BY <1>1, <1>7 DEF NamesStop, Quietly, history, lists, ChanTypes, Ends
    <2>5. /\ chan' \in [Channel -> ChanRec]
          /\ \A k \in Channel : chan'[k].name = chan[k].name /\ chan'[k].members = chan[k].members
      <3>1. PICK z : z = [chan[task[t].ch] EXCEPT !.reader = Null]
        OBVIOUS
      <3>2. task[t].ch \in Channel /\ chan' = [chan EXCEPT ![task[t].ch] = z]
        BY <1>2, <1>4, <1>7, <3>1 DEF NamesStop
      <3>3. z \in ChanRec /\ z.name = chan[task[t].ch].name /\ z.members = chan[task[t].ch].members
        BY <1>2, <1>3, <1>4, <3>1, ChanFieldFacts
      <3> QED
        BY <1>1, <1>2, <3>2, <3>3 DEF ChanTypes
    <2>6. Fits(t, y)
      BY <2>1, IdleFits
    <2> QED
      BY <2>2, <2>3, <2>4, <2>5, <2>6, QuietMove
  <1> QED
    BY <1>5, <1>6, <1>7 DEF NamesStop

LEMMA MessageAllIsSafe ==
  ASSUME ChannelSafe, NEW t \in Thread, MessageAll(t)
  PROVE  ChannelSafe'
  <1>1. ChanTypes /\ Fits(t, task[t]) /\ InRole(task[t])
    BY DEF ChannelSafe, Fits
  <1>2. /\ task[t] \in TaskRec /\ task \in [Thread -> TaskRec]
        /\ \A k \in Channel : /\ chan[k] \in ChanRec /\ Len(chan[k].members) \in Nat
                              /\ chan[k].members \in Seq(Thread)
        /\ channelList \in Seq(Channel)
        /\ \A i \in 1..Len(channelList) : channelList[i] \in Channel
        /\ Null \notin Channel /\ Null \notin Names
    BY <1>1, ChannelFacts DEF ChanTypes
  <1>3. /\ task[t].n \in Int /\ task[t].n + 1 \in Int /\ task[t].n + -1 \in Int
        /\ task[t].pos \in Nat /\ task[t].pos + 1 \in Nat
        /\ \A k \in Channel : Len(chan[k].members) \in Int /\ chan[k].nusers \in Int
    BY <1>2 DEF TaskRec, ChanRec
  <1>4. task[t].pc = "send" /\ task[t].ch \in Channel
    BY <1>1, <1>2, <1>3 DEF MessageAll, At, InRole, OnChannel, Steps, ReadUsers, WriteUsers
  <1>5. CASE Misuse
    BY <1>5, MisuseIsSafe
  <1>6. CASE /\ ~(~task[t].busy /\ (Gone(t) \/ task[t].n > Len(chan[task[t].ch].members)))
             /\ task[t].op = "JOIN"
    <2>1. PICK y : y = [task[t] EXCEPT !.n = 0, !.busy = FALSE, !.pc = "show"]
      OBVIOUS
    <2>2. /\ y \in TaskRec
          /\ y.pc = "show"
          /\ y.op = task[t].op /\ y.name = task[t].name /\ y.fd = task[t].fd /\ y.c = task[t].c /\ y.ch = task[t].ch
      <3>1. y \in TaskRec
        BY <1>2, <1>3, <1>4, <1>6, <2>1, 0 \in Int, 1 \in Nat DEF TaskRec, Steps, Ops, Commands
      <3> QED
        BY <1>2, <1>4, <1>6, <2>1, <3>1 DEF TaskRec
    <2>3. task' = [task EXCEPT ![t] = y]
      BY <1>2, <1>6, <2>1 DEF MessageAll, Goes, Copied
    <2>4. Quietly /\ channelList' = channelList /\ listing' \in Thread \union {Null}
      BY <1>1, <1>6 DEF MessageAll, Quietly, history, lists, ChanTypes
    <2>5. /\ chan' \in [Channel -> ChanRec]
          /\ \A k \in Channel : chan'[k].name = chan[k].name /\ chan'[k].members = chan[k].members
      BY <1>1, <1>6 DEF MessageAll, lists, ChanTypes
    <2>6. Fits(t, y)
      BY <1>1, <1>2, <1>4, <1>6, <2>2 DEF Fits, InRole, ForItself, UpToDate, NotYetIn, OnChannel, Steps
    <2> QED
      BY <2>2, <2>3, <2>4, <2>5, <2>6, QuietMove
  <1>7. CASE /\ ~(~task[t].busy /\ (Gone(t) \/ task[t].n > Len(chan[task[t].ch].members)))
             /\ task[t].op = "PART"
    <2>1. PICK y : y = [task[t] EXCEPT !.n = 0, !.busy = FALSE, !.pc = "copy", !.op = "REMOVE"]
      OBVIOUS
    <2>2. /\ y \in TaskRec
          /\ y.pc = "copy" /\ y.op = "REMOVE" /\ y.name = task[t].name /\ y.ch = task[t].ch
      <3>1. y \in TaskRec
        BY <1>2, <1>3, <1>4, <1>7, <2>1, 0 \in Int, 1 \in Nat DEF TaskRec, Steps, Ops, Commands
      <3> QED
        BY <1>2, <1>4, <1>7, <2>1, <3>1 DEF TaskRec
    <2>3. task' = [task EXCEPT ![t] = y]
      BY <1>2, <1>7, <2>1 DEF MessageAll, Goes, Copied
    <2>4. Quietly /\ channelList' = channelList /\ listing' \in Thread \union {Null}
      BY <1>1, <1>7 DEF MessageAll, Quietly, history, lists, ChanTypes
    <2>5. /\ chan' \in [Channel -> ChanRec]
          /\ \A k \in Channel : chan'[k].name = chan[k].name /\ chan'[k].members = chan[k].members
      BY <1>1, <1>7 DEF MessageAll, lists, ChanTypes
    <2>6. Fits(t, y)
      BY <1>1, <1>2, <1>4, <1>7, <2>2 DEF Fits, InRole, ForItself, UpToDate, NotYetIn, OnChannel, Steps
    <2> QED
      BY <2>2, <2>3, <2>4, <2>5, <2>6, QuietMove
  <1>8. CASE /\ ~(~task[t].busy /\ (Gone(t) \/ task[t].n > Len(chan[task[t].ch].members)))
             /\ task[t].op \notin {"JOIN", "PART"}
    <2>1. Ends(t) /\ Quietly /\ UNCHANGED lists
      BY <1>2, <1>4, <1>8 DEF MessageAll, Ends, Quietly, history
    <2>2. chan' = chan /\ channelList' = channelList /\ listing' \in Thread \union {Null}
      BY <1>1, <2>1 DEF lists, ChanTypes
    <2> QED
      BY <2>1, <2>2, EndIsSafe
  <1> QED
    BY <1>5, <1>6, <1>7, <1>8 DEF MessageAll

LEMMA ShowIsSafe ==
  ASSUME ChannelSafe, NEW t \in Thread, Show(t)
  PROVE  ChannelSafe'
  <1>1. ChanTypes /\ Fits(t, task[t]) /\ InRole(task[t])
    BY DEF ChannelSafe, Fits
  <1>2. /\ task[t] \in TaskRec /\ task \in [Thread -> TaskRec]
        /\ \A k \in Channel : /\ chan[k] \in ChanRec /\ Len(chan[k].members) \in Nat
                              /\ chan[k].members \in Seq(Thread)
        /\ channelList \in Seq(Channel)
        /\ \A i \in 1..Len(channelList) : channelList[i] \in Channel
        /\ Null \notin Channel /\ Null \notin Names
    BY <1>1, ChannelFacts DEF ChanTypes
  <1>3. /\ task[t].n \in Int /\ task[t].n + 1 \in Int /\ task[t].n + -1 \in Int
        /\ task[t].pos \in Nat /\ task[t].pos + 1 \in Nat
        /\ \A k \in Channel : Len(chan[k].members) \in Int /\ chan[k].nusers \in Int
    BY <1>2 DEF TaskRec, ChanRec
  <1>4. task[t].pc = "show" /\ task[t].ch \in Channel
    BY <1>1, <1>2, <1>3 DEF Show, At, InRole, OnChannel, Steps, ReadUsers, WriteUsers
  <1>5. CASE Misuse
    BY <1>5, MisuseIsSafe
  <1>6. CASE /\ ~(Gone(t) \/ chan[task[t].ch].topic = "freed")
             /\ task[t].op = "LIST" /\ task[t].c = Null
    <2>1. Crash /\ UNCHANGED <<chan, channelList, task, misuse, commands, history>>
      BY <1>6 DEF Show, lists
    <2>2. listing' \in Thread \union {Null}
      BY <1>1, <1>2, <1>6 DEF Show, lists, ChanTypes
    <2> QED
      BY <2>1, <2>2, CrashLeavesChannels
  <1>7. CASE /\ ~(Gone(t) \/ chan[task[t].ch].topic = "freed")
             /\ ~(task[t].op = "LIST" /\ task[t].c = Null)
             /\ task[t].op = "LIST" /\ task[t].name = Null
    <2>1. PICK y : y = [task[t] EXCEPT !.pc = "each"]
      OBVIOUS
    <2>2. /\ y \in TaskRec
          /\ y.pc = "each" /\ y.pos = task[t].pos
          /\ y.op = task[t].op /\ y.name = task[t].name /\ y.fd = task[t].fd /\ y.c = task[t].c /\ y.ch = task[t].ch
      BY <1>2, <2>1 DEF TaskRec, Steps
    <2>3. task' = [task EXCEPT ![t] = y]
      BY <1>2, <1>7, <2>1 DEF Show, Goes, Copied
    <2>4. Quietly /\ channelList' = channelList /\ listing' \in Thread \union {Null}
      BY <1>1, <1>7 DEF Show, Quietly, history, lists, ChanTypes
    <2>5. /\ chan' \in [Channel -> ChanRec]
          /\ \A k \in Channel : chan'[k].name = chan[k].name /\ chan'[k].members = chan[k].members
      BY <1>1, <1>7 DEF Show, lists, ChanTypes
    <2>6. Fits(t, y)
      BY <1>1, <1>2, <1>4, <1>7, <2>2 DEF Fits, InRole, ForItself, UpToDate, NotYetIn, OnChannel, Steps
    <2> QED
      BY <2>2, <2>3, <2>4, <2>5, <2>6, QuietMove
  <1>8. CASE /\ ~(Gone(t) \/ chan[task[t].ch].topic = "freed")
             /\ ~(task[t].op = "LIST" /\ task[t].c = Null)
             /\ ~(task[t].op = "LIST" /\ task[t].name = Null)
    <2>1. Ends(t) /\ Quietly /\ UNCHANGED lists
      BY <1>2, <1>4, <1>8 DEF Show, Quietly, history
    <2>2. chan' = chan /\ channelList' = channelList /\ listing' \in Thread \union {Null}
      BY <1>1, <2>1 DEF lists, ChanTypes
    <2> QED
      BY <2>1, <2>2, EndIsSafe
  <1> QED
    BY <1>5, <1>6, <1>7, <1>8 DEF Show

LEMMA MemberIsSafe ==
  ASSUME ChannelSafe, IrcTypes, NEW t \in Thread, Member(t)
  PROVE  ChannelSafe'
  <1>1. ChanTypes /\ Fits(t, task[t]) /\ InRole(task[t])
    BY DEF ChannelSafe, Fits
  <1>2. /\ task[t] \in TaskRec /\ task \in [Thread -> TaskRec]
        /\ \A k \in Channel : /\ chan[k] \in ChanRec /\ Len(chan[k].members) \in Nat
                              /\ chan[k].members \in Seq(Thread)
        /\ channelList \in Seq(Channel)
        /\ \A i \in 1..Len(channelList) : channelList[i] \in Channel
        /\ Null \notin Channel /\ Null \notin Names
    BY <1>1, ChannelFacts DEF ChanTypes
  <1>3. /\ task[t].n \in Int /\ task[t].n + 1 \in Int /\ task[t].n + -1 \in Int
        /\ task[t].pos \in Nat /\ task[t].pos + 1 \in Nat
        /\ \A k \in Channel : Len(chan[k].members) \in Int /\ chan[k].nusers \in Int
    BY <1>2 DEF TaskRec, ChanRec
  <1>4. task[t].pc = "member" /\ task[t].ch \in Channel
    BY <1>1, <1>2, <1>3 DEF Member, At, InRole, OnChannel, Steps, ReadUsers, WriteUsers
  <1>5. CASE Misuse
    BY <1>5, MisuseIsSafe
  <1>6. CASE Ends(t) /\ UNCHANGED lists /\ Quietly
    <2>1. Ends(t) /\ Quietly /\ UNCHANGED lists
      BY <1>2, <1>4, <1>6 DEF Member, Quietly, history
    <2>2. chan' = chan /\ channelList' = channelList /\ listing' \in Thread \union {Null}
      BY <1>1, <2>1 DEF lists, ChanTypes
    <2> QED
      BY <2>1, <2>2, EndIsSafe
  <1>7. CASE /\ task[t].op = "MODE" /\ task' = [task EXCEPT ![t].pc = "head", ![t].pos = 0]
             /\ UNCHANGED lists /\ Quietly
    <2>1. PICK y : y = [task[t] EXCEPT !.pc = "head", !.pos = 0]
      OBVIOUS
    <2>2. /\ y \in TaskRec
          /\ y.pc = "head"
          /\ y.op = task[t].op /\ y.name = task[t].name /\ y.fd = task[t].fd /\ y.c = task[t].c /\ y.ch = task[t].ch
      <3>1. y \in TaskRec
        BY <1>2, <1>3, <1>4, <1>7, <2>1, 0 \in Int, 1 \in Nat DEF TaskRec, Steps, Ops, Commands
      <3> QED
        BY <1>2, <1>4, <1>7, <2>1, <3>1 DEF TaskRec
    <2>3. task' = [task EXCEPT ![t] = y]
      BY <1>2, <1>7, <2>1 DEF Member, Goes, Copied
    <2>4. Quietly /\ channelList' = channelList /\ listing' \in Thread \union {Null}
      BY <1>1, <1>7 DEF Member, Quietly, history, lists, ChanTypes
    <2>5. /\ chan' \in [Channel -> ChanRec]
          /\ \A k \in Channel : chan'[k].name = chan[k].name /\ chan'[k].members = chan[k].members
      BY <1>1, <1>7 DEF Member, lists, ChanTypes
    <2>6. Fits(t, y)
      BY <1>1, <1>2, <1>4, <1>7, <2>2 DEF Fits, InRole, ForItself, UpToDate, NotYetIn, OnChannel, Steps
    <2> QED
      BY <2>2, <2>3, <2>4, <2>5, <2>6, QuietMove
  <1>8. CASE /\ task[t].op = "MODE" /\ UNCHANGED lists /\ Quietly
             /\ \E i \in DOMAIN clientList :
                  task' = [task EXCEPT ![t].pc = "copy", ![t].op = "MEMBER", ![t].pos = 0,
                                       ![t].fd = client[clientList[i]].fd]
    <2>0. PICK i \in DOMAIN clientList :
            task' = [task EXCEPT ![t].pc = "copy", ![t].op = "MEMBER", ![t].pos = 0,
                                 ![t].fd = client[clientList[i]].fd]
      BY <1>8
    <2>9. client[clientList[i]].fd \in Fd \union {Null}
      BY DEF IrcTypes, ClientRec
    <2>1. PICK y : y = [task[t] EXCEPT !.pc = "copy", !.op = "MEMBER", !.pos = 0,
                                 !.fd = client[clientList[i]].fd]
      OBVIOUS
    <2>2. /\ y \in TaskRec
          /\ y.pc = "copy" /\ y.op = "MEMBER" /\ y.name = task[t].name /\ y.ch = task[t].ch
      <3>1. y \in TaskRec
        BY <1>2, <1>3, <1>4, <2>0, <2>9, <1>8, <2>1, 0 \in Int, 1 \in Nat DEF TaskRec, Steps, Ops, Commands
      <3> QED
        BY <1>2, <1>4, <2>0, <2>9, <1>8, <2>1, <3>1 DEF TaskRec
    <2>3. task' = [task EXCEPT ![t] = y]
      BY <1>2, <2>0, <2>9, <1>8, <2>1 DEF Member, Goes, Copied
    <2>4. Quietly /\ channelList' = channelList /\ listing' \in Thread \union {Null}
      BY <1>1, <2>0, <2>9, <1>8 DEF Member, Quietly, history, lists, ChanTypes
    <2>5. /\ chan' \in [Channel -> ChanRec]
          /\ \A k \in Channel : chan'[k].name = chan[k].name /\ chan'[k].members = chan[k].members
      BY <1>1, <2>0, <2>9, <1>8 DEF Member, lists, ChanTypes
    <2>6. Fits(t, y)
      BY <1>1, <1>2, <1>4, <2>0, <2>9, <1>8, <2>2 DEF Fits, InRole, ForItself, UpToDate, NotYetIn, OnChannel, Steps
    <2> QED
      BY <2>2, <2>3, <2>4, <2>5, <2>6, QuietMove
  <1> QED
    BY <1>5, <1>6, <1>7, <1>8 DEF Member

LEMMA EmptyIsSafe ==
  ASSUME ChannelSafe, NEW t \in Thread, Empty(t)
  PROVE  ChannelSafe'
  <1>1. ChanTypes /\ Fits(t, task[t]) /\ InRole(task[t])
    BY DEF ChannelSafe, Fits
  <1>2. /\ task[t] \in TaskRec /\ task \in [Thread -> TaskRec]
        /\ \A k \in Channel : /\ chan[k] \in ChanRec /\ Len(chan[k].members) \in Nat
                              /\ chan[k].members \in Seq(Thread)
        /\ channelList \in Seq(Channel)
        /\ \A i \in 1..Len(channelList) : channelList[i] \in Channel
        /\ Null \notin Channel /\ Null \notin Names
    BY <1>1, ChannelFacts DEF ChanTypes
  <1>3. /\ task[t].n \in Int /\ task[t].n + 1 \in Int /\ task[t].n + -1 \in Int
        /\ task[t].pos \in Nat /\ task[t].pos + 1 \in Nat
        /\ \A k \in Channel : Len(chan[k].members) \in Int /\ chan[k].nusers \in Int
    BY <1>2 DEF TaskRec, ChanRec
  <1>4. task[t].pc = "empty" /\ task[t].ch \in Channel /\ task[t].op = "REMOVE"
    BY <1>1, <1>2, <1>3 DEF Empty, At, InRole, OnChannel, Steps, ReadUsers, WriteUsers
  <1>5. CASE Misuse
    BY <1>5, MisuseIsSafe
  <1>6. CASE chan[task[t].ch].nusers # 0
    <2>1. Ends(t) /\ Quietly /\ UNCHANGED lists
      BY <1>2, <1>4, <1>6 DEF Empty, Quietly, history
    <2>2. chan' = chan /\ channelList' = channelList /\ listing' \in Thread \union {Null}
      BY <1>1, <2>1 DEF lists, ChanTypes
    <2> QED
      BY <2>1, <2>2, EndIsSafe
  <1>7. CASE chan[task[t].ch].nusers = 0 /\ ~(Gone(t) \/ ~NamesValid(LocateChannel(chan[task[t].ch].name)))
    <2>1. PICK y : y = [task[t] EXCEPT !.pc = "destroy", !.pos = LocateChannel(chan[task[t].ch].name)]
      OBVIOUS
    <2>2. /\ y \in TaskRec
          /\ y.pc = "destroy"
          /\ y.op = task[t].op /\ y.name = task[t].name /\ y.fd = task[t].fd /\ y.c = task[t].c /\ y.ch = task[t].ch
      <3>1. LocateChannel(chan[task[t].ch].name) \in Nat
        BY <1>2, LocateFacts
      <3> QED
        BY <1>2, <1>3, <1>4, <2>1, <3>1 DEF TaskRec, Steps
    <2>3. task' = [task EXCEPT ![t] = y]
      BY <1>2, <1>7, <2>1 DEF Empty, Goes, Copied
    <2>4. Quietly /\ channelList' = channelList /\ listing' \in Thread \union {Null}
      BY <1>1, <1>7 DEF Empty, Quietly, history, lists, ChanTypes
    <2>5. /\ chan' \in [Channel -> ChanRec]
          /\ \A k \in Channel : chan'[k].name = chan[k].name /\ chan'[k].members = chan[k].members
      BY <1>1, <1>7 DEF Empty, lists, ChanTypes
    <2>6. Fits(t, y)
      BY <1>1, <1>2, <1>4, <1>7, <2>2 DEF Fits, InRole, ForItself, UpToDate, NotYetIn, OnChannel, Steps
    <2> QED
      BY <2>2, <2>3, <2>4, <2>5, <2>6, QuietMove
  <1> QED
    BY <1>5, <1>6, <1>7 DEF Empty

LEMMA IterateIsSafe ==
  ASSUME ChannelSafe, NEW t \in Thread, Iterate(t)
  PROVE  ChannelSafe'
  <1>1. ChanTypes /\ Fits(t, task[t]) /\ InRole(task[t])
    BY DEF ChannelSafe, Fits
  <1>2. /\ task[t] \in TaskRec /\ task \in [Thread -> TaskRec]
        /\ \A k \in Channel : /\ chan[k] \in ChanRec /\ Len(chan[k].members) \in Nat
                              /\ chan[k].members \in Seq(Thread)
        /\ channelList \in Seq(Channel)
        /\ \A i \in 1..Len(channelList) : channelList[i] \in Channel
        /\ Null \notin Channel /\ Null \notin Names
    BY <1>1, ChannelFacts DEF ChanTypes
  <1>3. /\ task[t].n \in Int /\ task[t].n + 1 \in Int /\ task[t].n + -1 \in Int
        /\ task[t].pos \in Nat /\ task[t].pos + 1 \in Nat
        /\ \A k \in Channel : Len(chan[k].members) \in Int /\ chan[k].nusers \in Int
    BY <1>2 DEF TaskRec, ChanRec
  <1>4. task[t].pc = "iterate" /\ task[t].op \in {"NAMES", "LIST"} /\ task[t].name = Null
    BY <1>1, <1>2, <1>3 DEF Iterate, At, InRole, OnChannel, Steps, ReadUsers, WriteUsers
  <1>5. PICK y : y = [task[t] EXCEPT !.pc = "each", !.pos = 1]
    OBVIOUS
  <1>6. /\ y \in TaskRec
        /\ y.pc = "each" /\ y.pos = 1
        /\ y.op = task[t].op /\ y.name = task[t].name /\ y.fd = task[t].fd /\ y.c = task[t].c /\ y.ch = task[t].ch
    <2>1. PICK i \in Nat : i = 1
      OBVIOUS
    <2>2. y = [task[t] EXCEPT !.pc = "each", !.pos = i]
      BY <1>5, <2>1
    <2>3. y \in TaskRec
      BY <1>2, <2>2 DEF TaskRec, Steps
    <2> QED
      BY <1>2, <1>5, <2>3 DEF TaskRec
  <1>7. task' = [task EXCEPT ![t] = y]
    BY <1>2, <1>5 DEF Iterate, Goes, Copied
  <1>8. Quietly /\ channelList' = channelList /\ listing' \in Thread \union {Null}
    BY <1>1 DEF Iterate, Quietly, history, lists, ChanTypes
  <1>9. /\ chan' \in [Channel -> ChanRec]
        /\ \A k \in Channel : chan'[k].name = chan[k].name /\ chan'[k].members = chan[k].members
    BY <1>1 DEF Iterate, lists, ChanTypes
  <1>10. Fits(t, y)
    BY <1>1, <1>2, <1>4, <1>6 DEF Fits, InRole, ForItself, UpToDate, NotYetIn, OnChannel, Steps
  <1> QED
    BY <1>6, <1>7, <1>8, <1>9, <1>10, QuietMove

LEMMA EachIsSafe ==
  ASSUME ChannelSafe, NEW t \in Thread, Each(t)
  PROVE  ChannelSafe'
  <1>1. ChanTypes /\ Fits(t, task[t]) /\ InRole(task[t])
    BY DEF ChannelSafe, Fits
  <1>2. /\ task[t] \in TaskRec /\ task \in [Thread -> TaskRec]
        /\ \A k \in Channel : /\ chan[k] \in ChanRec /\ Len(chan[k].members) \in Nat
                              /\ chan[k].members \in Seq(Thread)
        /\ channelList \in Seq(Channel)
        /\ \A i \in 1..Len(channelList) : channelList[i] \in Channel
        /\ Null \notin Channel /\ Null \notin Names
    BY <1>1, ChannelFacts DEF ChanTypes
  <1>3. /\ task[t].n \in Int /\ task[t].n + 1 \in Int /\ task[t].n + -1 \in Int
        /\ task[t].pos \in Nat /\ task[t].pos + 1 \in Nat
        /\ \A k \in Channel : Len(chan[k].members) \in Int /\ chan[k].nusers \in Int
    BY <1>2 DEF TaskRec, ChanRec
  <1>4. /\ task[t].pc = "each" /\ task[t].op \in {"NAMES", "LIST"} /\ task[t].name = Null
        /\ task[t].pos \in 1..Len(channelList)
    BY <1>1, <1>2, <1>3 DEF Each, At, InRole, OnChannel, Steps, ReadUsers, WriteUsers
  <1>5. PICK y : y = [task[t] EXCEPT !.pc = IF task[t].op = "NAMES" THEN "names" ELSE "show",
                               !.ch = channelList[task[t].pos], !.pos = task[t].pos + 1]
    OBVIOUS
  <1>6. /\ y \in TaskRec
        /\ y.pc = (IF task[t].op = "NAMES" THEN "names" ELSE "show") /\ y.op = task[t].op
        /\ y.name = task[t].name /\ y.pos # 0 /\ y.ch \in Channel
    <2>1. PICK pc \in Steps, i \in Nat, k \in Channel :
            /\ pc = IF task[t].op = "NAMES" THEN "names" ELSE "show"
            /\ i = task[t].pos + 1 /\ k = channelList[task[t].pos]
      BY <1>2, <1>3, <1>4 DEF Steps
    <2>2. y = [task[t] EXCEPT !.pc = pc, !.ch = k, !.pos = i] /\ i # 0
      BY <1>3, <1>5, <2>1
    <2>3. y \in TaskRec
      BY <1>2, <2>2 DEF TaskRec
    <2> QED
      BY <1>2, <2>1, <2>2, <2>3 DEF TaskRec
  <1>7. task' = [task EXCEPT ![t] = y]
    BY <1>2, <1>5 DEF Each, Goes, Copied
  <1>8. Quietly /\ channelList' = channelList /\ listing' \in Thread \union {Null}
    BY <1>1 DEF Each, Quietly, history, lists, ChanTypes
  <1>9. /\ chan' \in [Channel -> ChanRec]
        /\ \A k \in Channel : chan'[k].name = chan[k].name /\ chan'[k].members = chan[k].members
    BY <1>1 DEF Each, lists, ChanTypes
  <1>10. Fits(t, y)
    BY <1>1, <1>2, <1>4, <1>6 DEF Fits, InRole, ForItself, UpToDate, NotYetIn, OnChannel, Steps
  <1> QED
    BY <1>6, <1>7, <1>8, <1>9, <1>10, QuietMove

LEMMA IterateEndIsSafe ==
  ASSUME ChannelSafe, NEW t \in Thread, IterateEnd(t)
  PROVE  ChannelSafe'
  <1>1. ChanTypes /\ Fits(t, task[t]) /\ InRole(task[t])
    BY DEF ChannelSafe, Fits
  <1>2. /\ task[t] \in TaskRec /\ task \in [Thread -> TaskRec]
        /\ \A k \in Channel : /\ chan[k] \in ChanRec /\ Len(chan[k].members) \in Nat
                              /\ chan[k].members \in Seq(Thread)
        /\ channelList \in Seq(Channel)
        /\ \A i \in 1..Len(channelList) : channelList[i] \in Channel
        /\ Null \notin Channel /\ Null \notin Names
    BY <1>1, ChannelFacts DEF ChanTypes
  <1>3. /\ task[t].n \in Int /\ task[t].n + 1 \in Int /\ task[t].n + -1 \in Int
        /\ task[t].pos \in Nat /\ task[t].pos + 1 \in Nat
        /\ \A k \in Channel : Len(chan[k].members) \in Int /\ chan[k].nusers \in Int
    BY <1>2 DEF TaskRec, ChanRec
  <1>4. task[t].pc = "each"
    BY <1>1, <1>2, <1>3 DEF IterateEnd, At, InRole, OnChannel, Steps, ReadUsers, WriteUsers
  <1>5. CASE task[t].op = "LIST" /\ task[t].c = Null
    <2>1. Crash /\ UNCHANGED <<chan, channelList, task, misuse, commands, history>>
      BY <1>5 DEF IterateEnd, lists
    <2>2. listing' \in Thread \union {Null}
      BY <1>1, <1>2, <1>5 DEF IterateEnd, lists, ChanTypes
    <2> QED
      BY <2>1, <2>2, CrashLeavesChannels
  <1>6. CASE ~(task[t].op = "LIST" /\ task[t].c = Null)
    <2>1. Ends(t) /\ Quietly /\ chan' = chan /\ channelList' = channelList /\ listing' = Null
      BY <1>6 DEF IterateEnd, Quietly, history
    <2> QED
      BY <2>1, EndIsSafe
  <1> QED
    BY <1>5, <1>6 DEF IterateEnd

LEMMA FindGetIsSafe ==
  ASSUME ChannelSafe, NEW t \in Thread, FindGet(t)
  PROVE  ChannelSafe'
  <1>1. ChanTypes /\ Fits(t, task[t]) /\ InRole(task[t])
    BY DEF ChannelSafe, Fits
  <1>2. /\ task[t] \in TaskRec /\ task \in [Thread -> TaskRec]
        /\ \A k \in Channel : /\ chan[k] \in ChanRec /\ Len(chan[k].members) \in Nat
                              /\ chan[k].members \in Seq(Thread)
        /\ channelList \in Seq(Channel)
        /\ \A i \in 1..Len(channelList) : channelList[i] \in Channel
        /\ Null \notin Channel /\ Null \notin Names
    BY <1>1, ChannelFacts DEF ChanTypes
  <1>3. /\ task[t].n \in Int /\ task[t].n + 1 \in Int /\ task[t].n + -1 \in Int
        /\ task[t].pos \in Nat /\ task[t].pos + 1 \in Nat
        /\ \A k \in Channel : Len(chan[k].members) \in Int /\ chan[k].nusers \in Int
    BY <1>2 DEF TaskRec, ChanRec
  <1>4. /\ task[t].pc = "get" /\ task[t].op \in Commands /\ task[t].name \in Names /\ task[t].pos \in Nat
        /\ task[t].pos # 0
    BY <1>1, <1>2, <1>3 DEF FindGet, At, InRole, OnChannel, Steps, ReadUsers, WriteUsers
  <1>5. CASE /\ task[t].pos > Len(channelList) /\ NotFound(t)
             /\ task[t].op = "JOIN"
    <2>1. PICK y : y = [task[t] EXCEPT !.pc = "create"]
      OBVIOUS
    <2>2. /\ y \in TaskRec
          /\ y.pc = "create"
          /\ y.op = task[t].op /\ y.name = task[t].name /\ y.fd = task[t].fd /\ y.c = task[t].c /\ y.ch = task[t].ch
      <3>1. y \in TaskRec
        BY <1>2, <1>3, <1>4, <1>5, <2>1, 0 \in Int, 1 \in Nat DEF TaskRec, Steps, Ops, Commands, NotFound
      <3> QED
        BY <1>2, <1>4, <1>5, <2>1, <3>1 DEF TaskRec, NotFound
    <2>3. task' = [task EXCEPT ![t] = y]
      BY <1>2, <1>5, <2>1 DEF FindGet, Goes, Copied, NotFound
    <2>4. Quietly /\ channelList' = channelList /\ listing' \in Thread \union {Null}
      BY <1>1, <1>5 DEF FindGet, Quietly, history, lists, ChanTypes, NotFound
    <2>5. /\ chan' \in [Channel -> ChanRec]
          /\ \A k \in Channel : chan'[k].name = chan[k].name /\ chan'[k].members = chan[k].members
      BY <1>1, <1>5 DEF FindGet, lists, ChanTypes, NotFound
    <2>6. Fits(t, y)
      BY <1>1, <1>2, <1>4, <1>5, <2>2 DEF Fits, InRole, ForItself, UpToDate, NotYetIn, OnChannel, Steps
    <2> QED
      BY <2>2, <2>3, <2>4, <2>5, <2>6, QuietMove
  <1>6. CASE /\ task[t].pos > Len(channelList) /\ NotFound(t)
             /\ task[t].op = "NAMES"
    <2>1. Crash /\ UNCHANGED <<chan, channelList, task, misuse, commands, history>>
      BY <1>6 DEF FindGet, NotFound, lists
    <2>2. listing' \in Thread \union {Null}
      BY <1>1, <1>2, <1>6 DEF FindGet, NotFound, lists, ChanTypes
    <2> QED
      BY <2>1, <2>2, CrashLeavesChannels
  <1>7. CASE /\ task[t].pos > Len(channelList) /\ NotFound(t)
             /\ task[t].op \notin {"JOIN", "NAMES"}
    <2>1. Ends(t) /\ Quietly /\ UNCHANGED lists
      BY <1>2, <1>4, <1>7 DEF FindGet, NotFound, Quietly, history
    <2>2. chan' = chan /\ channelList' = channelList /\ listing' \in Thread \union {Null}
      BY <1>1, <2>1 DEF lists, ChanTypes
    <2> QED
      BY <2>1, <2>2, EndIsSafe
  <1>8. CASE Ends(t) /\ UNCHANGED vars
    <2>1. Ends(t) /\ Quietly /\ UNCHANGED lists
      BY <1>2, <1>4, <1>8 DEF FindGet, Quietly, history
    <2>2. chan' = chan /\ channelList' = channelList /\ listing' \in Thread \union {Null}
      BY <1>1, <2>1 DEF lists, ChanTypes
    <2> QED
      BY <2>1, <2>2, EndIsSafe
  <1>9. CASE /\ task[t].pos <= Len(channelList) /\ UNCHANGED vars
             /\ task' = [task EXCEPT ![t].pc = WhenFound(task[t].op), ![t].pos = 0,
                                     ![t].ch = channelList[task[t].pos]]
    <2>1. PICK y : y = [task[t] EXCEPT !.pc = WhenFound(task[t].op), !.pos = 0,
                                 !.ch = channelList[task[t].pos]]
      OBVIOUS
    <2>2. /\ y \in TaskRec
          /\ y.pc = (CASE task[t].op = "NAMES" -> "names" [] task[t].op = "LIST" -> "show" [] OTHER -> "copy")
          /\ y.op = task[t].op /\ y.name = task[t].name /\ y.fd = task[t].fd /\ y.c = task[t].c /\ y.ch \in Channel
      <3>1. y \in TaskRec
        BY <1>2, <1>3, <1>4, <1>9, <2>1, 0 \in Int, 1 \in Nat DEF TaskRec, Steps, Ops, Commands, WhenFound
      <3> QED
        BY <1>2, <1>4, <1>9, <2>1, <3>1 DEF TaskRec, WhenFound
    <2>3. task' = [task EXCEPT ![t] = y]
      BY <1>2, <1>9, <2>1 DEF FindGet, Goes, Copied, WhenFound
    <2>4. Quietly /\ channelList' = channelList /\ listing' \in Thread \union {Null}
      BY <1>1, <1>9 DEF FindGet, Quietly, history, lists, ChanTypes, WhenFound
    <2>5. /\ chan' \in [Channel -> ChanRec]
          /\ \A k \in Channel : chan'[k].name = chan[k].name /\ chan'[k].members = chan[k].members
      BY <1>1, <1>9 DEF FindGet, lists, ChanTypes, WhenFound
    <2>6. Fits(t, y)
      <3>1. CASE task[t].op = "NAMES"
        BY <1>1, <1>2, <1>4, <2>2, <3>1 DEF Fits, InRole, ForItself, UpToDate, NotYetIn, OnChannel, Steps
      <3>2. CASE task[t].op = "LIST"
        BY <1>1, <1>2, <1>4, <2>2, <3>2 DEF Fits, InRole, ForItself, UpToDate, NotYetIn, OnChannel, Steps
      <3>3. CASE task[t].op \notin {"NAMES", "LIST"}
        <4>1. y.pc = "copy"
          BY <2>2, <3>3
        <4> QED
          BY <1>1, <1>2, <1>4, <2>2, <3>3, <4>1
             DEF Fits, InRole, ForItself, UpToDate, NotYetIn, OnChannel, Steps, Commands
      <3> QED
        BY <3>1, <3>2, <3>3
    <2> QED
      BY <2>2, <2>3, <2>4, <2>5, <2>6, QuietMove
  <1> QED
    BY <1>5, <1>6, <1>7, <1>8, <1>9 DEF FindGet

LEMMA FindLocateIsSafe ==
  ASSUME ChannelSafe, NEW t \in Thread, FindLocate(t)
  PROVE  ChannelSafe'
  <1> DEFINE i == LocateChannel(task[t].name)
  <1>1. ChanTypes /\ Fits(t, task[t]) /\ InRole(task[t])
    BY DEF ChannelSafe, Fits
  <1>2. /\ task[t] \in TaskRec /\ task \in [Thread -> TaskRec]
        /\ chan \in [Channel -> ChanRec] /\ channelList \in Seq(Channel)
        /\ \A j \in 1..Len(channelList) : channelList[j] \in Channel
        /\ Null \notin Channel /\ Null \notin Names
    BY <1>1, ChannelFacts DEF ChanTypes
  <1>3. task[t].pc = "locate" /\ task[t].op \in Commands /\ task[t].name \in Names
    BY <1>1 DEF FindLocate, At, InRole
  <1>4. /\ i \in 0..Len(channelList)
        /\ i = 0 => \A j \in 1..Len(channelList) : chan[channelList[j]].name # task[t].name
    BY <1>2, LocateFacts
  <1>5. CASE Misuse
    BY <1>5, MisuseIsSafe
  <1>6. CASE NamesValid(i)
    <2>1. /\ late' = late \ {t} /\ UNCHANGED <<lists, misuse, commands, raced, blind, overlapped>>
          /\ IF i = 0 THEN NotFound(t)
             ELSE /\ task' = [task EXCEPT ![t].pc = "get", ![t].pos = i]
                  /\ UNCHANGED vars
      BY <1>6 DEF FindLocate
    <2> HIDE DEF i
    <2>2. /\ chan' = chan /\ channelList' = channelList /\ listing' = listing /\ raced' = raced
          /\ late' \in SUBSET Thread /\ late \ {t} \subseteq late'
          /\ blind' \in SUBSET Fd /\ blind' = blind /\ misuse' \in BOOLEAN
          /\ overlapped' \in BOOLEAN
          /\ commands' \in 0..MaxCommands /\ listing' \in Thread \union {Null}
          /\ chan' \in [Channel -> ChanRec]
      BY <1>1, <2>1 DEF lists, ChanTypes
    <2>3. ASSUME NEW y \in TaskRec, task' = [task EXCEPT ![t] = y], UNCHANGED vars, Fits(t, y)'
          PROVE  ChannelSafe'
      <3>1. thr' = thr /\ client' = client
        BY <2>3 DEF vars
      <3> QED
        BY <2>2, <2>3, <3>1, MoveIsSafe
    <2>4. CASE i # 0
      <3>1. PICK y : y = [task[t] EXCEPT !.pc = "get", !.pos = i]
        OBVIOUS
      <3>2. i \in Nat
        BY <1>4
      <3>3. y \in TaskRec /\ y.pc = "get" /\ y.pos = i /\ y.op = task[t].op
            /\ y.name = task[t].name /\ y.fd = task[t].fd /\ y.c = task[t].c
        BY <1>2, <3>1, <3>2 DEF TaskRec, Steps
      <3>4. task' = [task EXCEPT ![t] = y] /\ UNCHANGED vars /\ thr' = thr /\ client' = client
        BY <1>2, <2>1, <2>4, <3>1 DEF vars
      <3>5. i \in 1..Len(channelList)
        BY <1>4, <2>4
      <3>6. InRole(y)
        BY <1>1, <1>2, <1>3, <2>4, <3>3 DEF InRole, OnChannel, Steps
      <3>7. ForItself(t, y)'
        BY <1>1, <1>3, <3>3, <3>4 DEF Fits, ForItself
      <3>8. UpToDate(t, y)'
        BY <2>2, <3>3, <3>5 DEF UpToDate
      <3>9. NotYetIn(y)'
        BY <3>3 DEF NotYetIn
      <3> QED
        BY <2>3, <3>3, <3>4, <3>6, <3>7, <3>8, <3>9 DEF Fits
    <2>5. CASE i = 0 /\ task[t].op = "JOIN"
      <3>1. PICK y : y = [task[t] EXCEPT !.pc = "create"]
        OBVIOUS
      <3>3. y \in TaskRec /\ y.pc = "create" /\ y.op = task[t].op
            /\ y.name = task[t].name /\ y.fd = task[t].fd /\ y.c = task[t].c
        BY <1>2, <3>1 DEF TaskRec, Steps
      <3>4. task' = [task EXCEPT ![t] = y] /\ UNCHANGED vars /\ thr' = thr /\ client' = client
        BY <1>2, <2>1, <2>5, <3>1 DEF vars, NotFound, Goes
      <3>6. InRole(y)
        BY <1>1, <1>2, <1>3, <2>5, <3>3 DEF InRole, OnChannel, Steps
      <3>7. ForItself(t, y)'
        BY <1>1, <1>3, <3>3, <3>4 DEF Fits, ForItself
      <3>8. UpToDate(t, y)'
        BY <1>4, <2>2, <2>5, <3>3 DEF UpToDate, InList
      <3>9. NotYetIn(y)'
        BY <3>3 DEF NotYetIn
      <3> QED
        BY <2>3, <3>3, <3>4, <3>6, <3>7, <3>8, <3>9 DEF Fits
    <2>6. CASE i = 0 /\ task[t].op = "NAMES"
      <3>1. Crash /\ UNCHANGED task
        BY <2>1, <2>6 DEF NotFound
      <3>2. thr' = thr /\ client' = client /\ task' = task
        BY <3>1 DEF Crash
      <3>3. Fits(t, task[t])'
        BY <1>1, <1>3, <2>2, <3>2 DEF Fits, InRole, ForItself, UpToDate, NotYetIn
      <3> QED
        BY <2>1, <2>2, <3>2, <3>3, StillSafe
    <2>7. CASE i = 0 /\ task[t].op \notin {"JOIN", "NAMES"}
      <3>1. PICK y \in TaskRec : y = Idle
        BY IdleFits
      <3>2. task' = [task EXCEPT ![t] = y] /\ UNCHANGED vars
        BY <2>1, <2>7, <3>1 DEF NotFound, Ends
      <3>3. Fits(t, y)'
        BY <3>1 DEF Fits, InRole, ForItself, UpToDate, NotYetIn, Idle, OnChannel
      <3> QED
        BY <2>3, <3>2, <3>3
    <2> QED
      BY <2>4, <2>5, <2>6, <2>7
  <1> QED
    BY <1>5, <1>6 DEF FindLocate

LEMMA CheckIsSafe ==
  ASSUME ChannelSafe, NEW t \in Thread, Check(t)
  PROVE  ChannelSafe'
  <1> DEFINE T == task[t]
             members == chan[T.ch].members
             i == IF T.busy THEN 0 ELSE Position(members, T.n, T.fd)
  <1>1. ChanTypes /\ Fits(t, T) /\ InRole(T)
    BY DEF ChannelSafe, Fits
  <1>2. /\ T \in TaskRec /\ task \in [Thread -> TaskRec]
        /\ chan \in [Channel -> ChanRec] /\ channelList \in Seq(Channel)
        /\ Null \notin Channel /\ Null \notin Names
    BY <1>1, ChannelFacts DEF ChanTypes
  <1>3. /\ T.pc = "check" /\ T.ch \in Channel
        /\ T.op \in {"JOIN", "PART", "REMOVE", "PRIVMSG", "NOTICE", "TOPIC", "MODE", "MEMBER"}
    BY <1>1 DEF Check, At, InRole, OnChannel, Steps
  <1>4. /\ i \in Nat
        /\ i = 0 /\ T.op = "JOIN" =>
             T.busy \/ \A j \in 1..Len(members) : FdOf(T.ch, j) = T.fd => Excused(T.fd)
    <2>1. members \in Seq(Thread) /\ Len(members) \in Nat /\ T.n \in Int
      BY <1>1, <1>2, <1>3, ChannelFacts DEF TaskRec
    <2>2. CASE T.busy
      BY <2>2
    <2>3. CASE ~T.busy
      <3>1. /\ i \in 0..Len(members)
            /\ i = 0 => \A j \in 1..Len(members) : j <= T.n => client[members[j]].fd # T.fd
        BY <2>1, <2>3, PositionFacts
      <3>2. T.op = "JOIN" => \A j \in 1..Len(members) :
              j > T.n /\ FdOf(T.ch, j) = T.fd => Excused(T.fd)
        BY <1>1, <1>3, <2>3 DEF Fits, NotYetIn
      <3>3. ASSUME i = 0, T.op = "JOIN", NEW j \in 1..Len(members), FdOf(T.ch, j) = T.fd
            PROVE  Excused(T.fd)
        <4>1. client[members[j]].fd = T.fd
          BY <3>3 DEF FdOf
        <4>2. ~(j <= T.n)
          BY <3>1, <3>3, <4>1
        <4>3. j > T.n
          BY <2>1, <4>2
        <4> QED
          BY <3>2, <3>3, <4>3
      <3>4. i \in Nat
        BY <2>1, <3>1
      <3> QED
        BY <3>3, <3>4
    <2> QED
      BY <2>2, <2>3
  <1>5. CASE Misuse
    BY <1>5, MisuseIsSafe
  <1>6. CASE ~(~T.busy /\ (Gone(t) \/ (i = 0 /\ T.n > Len(members))))
    <2>1. /\ UNCHANGED <<lists, misuse, commands, late, raced, overlapped>>
          /\ blind' = IF T.busy /\ T.op = "JOIN" THEN blind \union {T.fd} ELSE blind
      BY <1>6 DEF Check
    <2>2. PICK label \in After(T, i) :
             CASE label = "crash" -> Crash /\ UNCHANGED task
               [] label = "end"   -> Ends(t) /\ UNCHANGED vars
               [] OTHER           -> /\ task' = [task EXCEPT ![t].pc = label, ![t].pos = i,
                                                             ![t].n = 0, ![t].busy = FALSE]
                                     /\ UNCHANGED vars
      BY <1>6 DEF Check, Checked
    <2> HIDE DEF i, T
    <2>3. T.op = "JOIN" => T.fd \in Fd
      BY <1>1, <1>3 DEF Fits, ForItself
    <2>4. /\ chan' = chan /\ channelList' = channelList /\ listing' = listing /\ raced' = raced
          /\ late' \in SUBSET Thread /\ late' = late
          /\ blind' \in SUBSET Fd /\ blind \subseteq blind' /\ misuse' \in BOOLEAN
          /\ overlapped' \in BOOLEAN
          /\ commands' \in 0..MaxCommands /\ listing' \in Thread \union {Null}
          /\ chan' \in [Channel -> ChanRec]
      BY <1>1, <2>1, <2>3 DEF lists, ChanTypes
    <2>5. ASSUME NEW y \in TaskRec, task' = [task EXCEPT ![t] = y], UNCHANGED vars, Fits(t, y)'
          PROVE  ChannelSafe'
      <3>1. thr' = thr /\ client' = client
        BY <2>5 DEF vars
      <3> QED
        BY <2>4, <2>5, <3>1, MoveIsSafe
    <2>6. CASE label = "crash"
      <3>1. Crash /\ UNCHANGED task
        BY <2>2, <2>6
      <3>2. thr' = thr /\ client' = client /\ task' = task
        BY <3>1 DEF Crash
      <3>3. T.op # "JOIN"
        BY <2>6 DEF After
      <3>4. blind' = blind
        BY <2>1, <3>3
      <3> QED
        BY <2>4, <3>2, <3>4, UntouchedIsSafe
    <2>7. CASE label = "end"
      <3>1. PICK y \in TaskRec : y = Idle
        BY IdleFits
      <3>2. task' = [task EXCEPT ![t] = y] /\ UNCHANGED vars
        BY <2>2, <2>7, <3>1 DEF Ends
      <3>3. Fits(t, y)'
        BY <3>1 DEF Fits, InRole, ForItself, UpToDate, NotYetIn, Idle, OnChannel
      <3> QED
        BY <2>5, <3>2, <3>3
    <2>8. CASE label \notin {"crash", "end"}
      <3>1. \/ label = "delete" /\ T.op = "REMOVE"
            \/ label = "count" /\ T.op = "JOIN" /\ i = 0
            \/ label = "head" /\ T.op \in {"PART", "PRIVMSG", "NOTICE"}
            \/ label \in {"show", "free"} /\ T.op = "TOPIC"
            \/ label = "member" /\ T.op \in {"MODE", "MEMBER"}
        <4>1. CASE T.op = "REMOVE"
          <5>1. After(T, i) = {"delete"}
            BY <4>1 DEF After
          <5> QED
            BY <4>1, <5>1
        <4>2. CASE T.op = "JOIN"
          BY <2>8, <4>2 DEF After
        <4>3. CASE T.op \notin {"REMOVE", "JOIN"}
          <5>1. i # 0
            <6>1. CASE i = 0
              <7>1. After(T, i) = {IF T.op = "MODE" THEN "crash" ELSE "end"}
                BY <4>3, <6>1 DEF After
              <7> QED
                BY <2>8, <7>1
            <6> QED
              BY <6>1
          <5>2. CASE T.op \in {"PART", "PRIVMSG", "NOTICE"}
            <6>1. After(T, i) \subseteq {"crash", "head"}
              BY <5>1, <5>2 DEF After
            <6> QED
              BY <2>8, <5>2, <6>1
          <5>3. CASE T.op = "TOPIC"
            BY <5>1, <5>3 DEF After
          <5>4. CASE T.op \in {"MODE", "MEMBER"}
            BY <5>1, <5>4 DEF After
          <5> QED
            BY <1>3, <4>3, <5>2, <5>3, <5>4
        <4> QED
          BY <4>1, <4>2, <4>3
      <3>2. PICK y : y = [T EXCEPT !.pc = label, !.pos = i, !.n = 0, !.busy = FALSE]
        OBVIOUS
      <3>3. label \in Steps
        BY <3>1 DEF Steps
      <3>4. y \in TaskRec
        <4>1. 0 \in Int
          OBVIOUS
        <4> QED
          BY <1>2, <1>4, <3>2, <3>3, <4>1 DEF TaskRec
      <3>5. y.pc = label /\ y.op = T.op /\ y.name = T.name /\ y.fd = T.fd /\ y.c = T.c
            /\ y.ch = T.ch
        BY <1>2, <3>2 DEF TaskRec
      <3>6. task' = [task EXCEPT ![t] = y] /\ UNCHANGED vars /\ thr' = thr /\ client' = client
        BY <1>2, <2>2, <2>8, <3>2 DEF T, vars
      <3>7. T.name \in Names /\ thr[t].pc = "recv"
        BY <1>1, <1>3 DEF Fits, InRole, ForItself
      <3>8. InRole(y)
        BY <1>2, <1>3, <3>1, <3>5, <3>7 DEF InRole, OnChannel, Steps, Idle
      <3>9. ForItself(t, y)'
        BY <1>1, <1>3, <3>5, <3>6 DEF Fits, ForItself
      <3>10. UpToDate(t, y)'
        BY <3>1, <3>5 DEF UpToDate
      <3>11. NotYetIn(y)'
        <4>1. CASE label = "count"
          <5>1. T.op = "JOIN" /\ i = 0
            BY <3>1, <4>1
          <5>2. \A j : FdOf(y.ch, j)' = FdOf(y.ch, j)
            BY <2>4, <3>6 DEF FdOf
          <5>3. ASSUME NEW j \in 1..Len(members), FdOf(y.ch, j) = y.fd
                PROVE  Excused(y.fd)'
            <6>1. CASE T.busy
              BY <2>1, <3>5, <5>1, <6>1 DEF Excused
            <6>2. CASE ~T.busy
              <7>1. Excused(y.fd)
                BY <1>4, <3>5, <5>1, <5>3, <6>2
              <7> QED
                BY <2>4, <3>6, <7>1 DEF Excused, Shares
            <6> QED
              BY <6>1, <6>2
          <5> QED
            BY <2>4, <3>5, <4>1, <5>2, <5>3 DEF NotYetIn
        <4>2. CASE label # "count"
          BY <3>1, <3>5, <4>2 DEF NotYetIn
        <4> QED
          BY <4>1, <4>2
      <3> QED
        BY <2>5, <3>4, <3>6, <3>8, <3>9, <3>10, <3>11 DEF Fits
    <2> QED
      BY <2>6, <2>7, <2>8
  <1> QED
    BY <1>5, <1>6 DEF Check

LEMMA CreateIsSafe ==
  ASSUME ChannelSafe, NEW t \in Thread, Create(t)
  PROVE  ChannelSafe'
  <1>1. /\ ChanTypes /\ Started /\ ListedOnce /\ NamedOnce /\ InOnce
        /\ \A u \in Thread : Fits(u, task[u])
    BY DEF ChannelSafe
  <1>2. /\ task \in [Thread -> TaskRec] /\ task[t] \in TaskRec
        /\ chan \in [Channel -> ChanRec] /\ channelList \in Seq(Channel)
        /\ \A i \in 1..Len(channelList) : channelList[i] \in Channel
        /\ Null \notin Channel /\ Null \notin Names
    BY <1>1, ChannelFacts DEF ChanTypes
  <1>3. PICK k \in Channel :
          /\ chan[k].name = Null /\ \A j \in 1..(k - 1) : chan[j].name # Null
          /\ chan' = [chan EXCEPT ![k].name = task[t].name]
          /\ channelList' = Append(channelList, k)
          /\ task' = [task EXCEPT ![t].pc = "link", ![t].ch = k, ![t].pos = 0]
    BY DEF Create
  <1>4. /\ task[t].pc = "create" /\ task[t].op = "JOIN" /\ task[t].name \in Names
        /\ thr[t].pc = "recv"
    <2>1. task[t].pc = "create"
      BY DEF Create, At
    <2> QED
      BY <1>1, <2>1 DEF Fits, InRole, ForItself
  <1>5. /\ raced' = IF t \in late THEN raced \union {task[t].name} ELSE raced
        /\ late' = Overtaken(t) /\ thr' = thr /\ client' = client /\ listing' = listing
        /\ misuse' = misuse /\ commands' = commands /\ blind' = blind
        /\ overlapped' = overlapped
    BY DEF Create, vars
  <1>6. PICK y : y = [task[t] EXCEPT !.pc = "link", !.ch = k, !.pos = 0]
    OBVIOUS
  <1>7. /\ y \in TaskRec /\ y.pc = "link" /\ y.op = task[t].op /\ y.name = task[t].name
        /\ y.fd = task[t].fd /\ y.c = task[t].c /\ y.ch = k
    BY <1>2, <1>6 DEF TaskRec, Steps
  <1>8. /\ task' = [task EXCEPT ![t] = y] /\ task' \in [Thread -> TaskRec]
        /\ task'[t] = y /\ \A u \in Thread \ {t} : task'[u] = task[u]
    <2>1. task' = [task EXCEPT ![t] = y]
      BY <1>2, <1>3, <1>6
    <2> QED
      BY <1>2, <1>7, <2>1
  <1>9. PICK z : z = [chan[k] EXCEPT !.name = task[t].name]
    OBVIOUS
  <1>10. z \in ChanRec /\ z.name = task[t].name /\ z.members = chan[k].members
    BY <1>2, <1>4, <1>9 DEF ChanRec
  <1>11. /\ chan' \in [Channel -> ChanRec] /\ chan'[k] = z
         /\ \A l \in Channel \ {k} : chan'[l] = chan[l]
         /\ \A l \in Channel : chan'[l].members = chan[l].members
    <2>1. chan' = [chan EXCEPT ![k] = z]
      BY <1>2, <1>3, <1>9
    <2> QED
      BY <1>2, <1>10, <2>1
  <1>12. ~InList(channelList, k)
    BY <1>1, <1>2, <1>3 DEF ListedOnce
  <1>13. /\ channelList' \in Seq(Channel) /\ Len(channelList') = Len(channelList) + 1
         /\ \A x : InList(channelList', x) <=> InList(channelList, x) \/ x = k
         /\ Distinct(channelList')
    BY <1>1, <1>2, <1>3, <1>12, AppendKeeps DEF ListedOnce
  <1>14. late \subseteq late' /\ late' \in SUBSET Thread
         /\ \A u \in Thread \ {t} : u \notin late' => task[u].pc \notin {"get", "create"}
    BY <1>1, <1>5 DEF Overtaken, ChanTypes
  <1>15. /\ \A l \in Channel : \A i : FdOf(l, i)' = FdOf(l, i)
         /\ \A fd : Excused(fd)' = Excused(fd)
    BY <1>5, <1>11 DEF FdOf, Shares, Excused
  <1>16. ChanTypes'
    <2>1. raced' \in SUBSET Names
      BY <1>1, <1>4, <1>5 DEF ChanTypes
    <2> QED
      BY <1>1, <1>5, <1>8, <1>11, <1>13, <1>14, <2>1 DEF ChanTypes
  <1>17. Started'
    BY <1>1, <1>5, <1>11 DEF Started
  <1>18. ListedOnce'
    BY <1>1, <1>4, <1>10, <1>11, <1>13 DEF ListedOnce
  <1>19. NamedOnce'
    <2> SUFFICES ASSUME NEW l \in Channel, NEW m \in Channel, l # m,
                        InList(channelList', l), InList(channelList', m),
                        chan'[l].name = chan'[m].name
                 PROVE  chan'[l].name \in raced'
      BY DEF NamedOnce
    <2>1. CASE l # k /\ m # k
      BY <1>1, <1>5, <1>11, <1>13, <2>1 DEF NamedOnce
    <2>2. ASSUME NEW x \in Channel, x # k, InList(channelList', x), chan'[x].name = task[t].name
          PROVE  t \in late
      <3>1. InList(channelList, x) /\ chan[x].name = task[t].name
        BY <1>11, <1>13, <2>2
      <3> QED
        BY <1>1, <1>4, <3>1 DEF Fits, UpToDate
    <2>3. CASE l = k
      BY <1>5, <1>10, <1>11, <2>2, <2>3
    <2>4. CASE m = k
      BY <1>5, <1>10, <1>11, <2>2, <2>4
    <2> QED
      BY <2>1, <2>3, <2>4
  <1>20. InOnce'
    BY <1>1, <1>11, <1>15 DEF InOnce
  <1>21. ASSUME NEW u \in Thread \ {t}
         PROVE  Fits(u, task[u])'
    <2>1. Fits(u, task[u]) /\ task'[u] = task[u]
      BY <1>1, <1>8
    <2>2. InRole(task[u])'
      BY <2>1 DEF Fits
    <2>3. ForItself(u, task[u])'
      BY <1>5, <2>1 DEF Fits, ForItself
    <2>4. UpToDate(u, task[u])'
      BY <1>14, <2>1 DEF UpToDate
    <2>5. NotYetIn(task[u])'
      <3>1. task[u].pc \in {"check", "count", "enter", "append"} => task[u].ch \in Channel
        BY <2>1 DEF Fits, InRole, OnChannel, Steps
      <3> QED
        BY <1>11, <1>15, <2>1, <3>1 DEF Fits, NotYetIn
    <2> QED
      BY <2>2, <2>3, <2>4, <2>5 DEF Fits
  <1>22. Fits(t, task[t])'
    <2>1. InRole(y)
      BY <1>2, <1>4, <1>7 DEF InRole, OnChannel, Steps
    <2>2. ForItself(t, y)'
      BY <1>1, <1>4, <1>5, <1>7 DEF Fits, ForItself
    <2>3. UpToDate(t, y)' /\ NotYetIn(y)'
      BY <1>7 DEF UpToDate, NotYetIn
    <2> QED
      BY <1>8, <2>1, <2>2, <2>3 DEF Fits
  <1> QED
    BY <1>16, <1>17, <1>18, <1>19, <1>20, <1>21, <1>22 DEF ChannelSafe

LEMMA LinkIsSafe ==
  ASSUME ChannelSafe, NEW t \in Thread, Link(t)
  PROVE  ChannelSafe'
  <1>1. ChanTypes /\ Fits(t, task[t]) /\ InRole(task[t])
    BY DEF ChannelSafe, Fits
  <1>2. /\ task[t] \in TaskRec /\ task \in [Thread -> TaskRec]
        /\ \A k \in Channel : /\ chan[k] \in ChanRec /\ Len(chan[k].members) \in Nat
                              /\ chan[k].members \in Seq(Thread)
        /\ channelList \in Seq(Channel)
        /\ \A i \in 1..Len(channelList) : channelList[i] \in Channel
        /\ Null \notin Channel /\ Null \notin Names
    BY <1>1, ChannelFacts DEF ChanTypes
  <1>3. /\ task[t].n \in Int /\ task[t].n + 1 \in Int /\ task[t].n + -1 \in Int
        /\ task[t].pos \in Nat /\ task[t].pos + 1 \in Nat
        /\ \A k \in Channel : Len(chan[k].members) \in Int /\ chan[k].nusers \in Int
    BY <1>2 DEF TaskRec, ChanRec
  <1>4. task[t].pc = "link" /\ task[t].ch \in Channel /\ task[t].op = "JOIN"
    BY <1>1, <1>2, <1>3 DEF Link, At, InRole, OnChannel, Steps, ReadUsers, WriteUsers
  <1>5. PICK y : y = [task[t] EXCEPT !.pc = "copy"]
    OBVIOUS
  <1>6. /\ y \in TaskRec
        /\ y.pc = "copy"
        /\ y.op = task[t].op /\ y.name = task[t].name /\ y.fd = task[t].fd /\ y.c = task[t].c /\ y.ch = task[t].ch
    <2>1. y \in TaskRec
      BY <1>2, <1>3, <1>4, <1>5, 0 \in Int, 1 \in Nat DEF TaskRec, Steps, Ops, Commands
    <2> QED
      BY <1>2, <1>4, <1>5, <2>1 DEF TaskRec
  <1>7. task' = [task EXCEPT ![t] = y]
    BY <1>2, <1>5 DEF Link, Goes, Copied
  <1>8. Quietly /\ channelList' = channelList /\ listing' \in Thread \union {Null}
    BY <1>1 DEF Link, Quietly, history, lists, ChanTypes
  <1>9. /\ chan' \in [Channel -> ChanRec]
        /\ \A k \in Channel : chan'[k].name = chan[k].name /\ chan'[k].members = chan[k].members
    BY <1>1 DEF Link, lists, ChanTypes
  <1>10. Fits(t, y)
    BY <1>1, <1>2, <1>4, <1>6 DEF Fits, InRole, ForItself, UpToDate, NotYetIn, OnChannel, Steps
  <1> QED
    BY <1>6, <1>7, <1>8, <1>9, <1>10, QuietMove

(* A lookup that goes wrong beside an addition of a channel.               *)
Beside(t) == /\ late' = late \union {t} /\ overlapped' = TRUE
             /\ UNCHANGED <<lists, misuse, commands, raced, blind>>

LEMMA BesideIsSafe ==
  ASSUME ChannelSafe, NEW t \in Thread, NEW y \in TaskRec, Beside(t), UNCHANGED vars,
         task' = [task EXCEPT ![t] = y], InRole(y), ForItself(t, y),
         y.pc \notin {"check", "count", "enter", "append"}
  PROVE  ChannelSafe'
  <1>1. ChanTypes
    BY DEF ChannelSafe
  <1>2. /\ thr' = thr /\ client' = client /\ chan' = chan /\ channelList' = channelList
        /\ listing' = listing /\ misuse' = misuse /\ commands' = commands /\ raced' = raced
        /\ blind' = blind /\ late' = late \union {t} /\ overlapped' = TRUE
    BY DEF Beside, lists, vars
  <1>3. /\ chan' \in [Channel -> ChanRec] /\ listing' \in Thread \union {Null}
        /\ late' \in SUBSET Thread /\ late \ {t} \subseteq late'
        /\ blind' \in SUBSET Fd /\ blind \subseteq blind'
        /\ misuse' \in BOOLEAN /\ overlapped' \in BOOLEAN /\ commands' \in 0..MaxCommands
    BY <1>1, <1>2 DEF ChanTypes
  <1>4. ForItself(t, y)'
    BY <1>2 DEF ForItself
  <1>5. UpToDate(t, y)'
    BY <1>2 DEF UpToDate
  <1>6. NotYetIn(y)'
    BY DEF NotYetIn
  <1>7. Fits(t, y)'
    BY <1>4, <1>5, <1>6 DEF Fits
  <1> QED
    BY <1>2, <1>3, <1>7, MoveIsSafe

LEMMA NotFoundBesideIsSafe ==
  ASSUME ChannelSafe, NEW t \in Thread, Beside(t), task[t].pc \in {"locate", "get"}, NotFound(t)
  PROVE  ChannelSafe'
  <1>1. ChanTypes /\ InRole(task[t]) /\ ForItself(t, task[t])
    BY DEF ChannelSafe, Fits
  <1>2. /\ task[t] \in TaskRec /\ task \in [Thread -> TaskRec]
        /\ task[t].op \in Commands /\ task[t].name \in Names
    BY <1>1 DEF ChanTypes, InRole
  <1>3. CASE task[t].op = "JOIN"
    <2>1. PICK y : y = [task[t] EXCEPT !.pc = "create"]
      OBVIOUS
    <2>2. /\ y \in TaskRec /\ y.pc = "create" /\ y.op = task[t].op /\ y.name = task[t].name
          /\ y.fd = task[t].fd /\ y.c = task[t].c
      BY <1>2, <2>1 DEF TaskRec, Steps
    <2>3. task' = [task EXCEPT ![t] = y] /\ UNCHANGED vars
      BY <1>2, <1>3, <2>1 DEF NotFound, Goes
    <2>4. InRole(y)
      BY <1>1, <1>2, <1>3, <2>2 DEF InRole, OnChannel, Steps
    <2>5. ForItself(t, y)
      BY <1>1, <2>2 DEF ForItself
    <2> QED
      BY <2>2, <2>3, <2>4, <2>5, BesideIsSafe
  <1>4. CASE task[t].op = "NAMES"
    <2>1. Crash /\ UNCHANGED task
      BY <1>4 DEF NotFound
    <2>2. /\ thr' = thr /\ client' = client /\ chan' = chan /\ channelList' = channelList
          /\ UNCHANGED <<lists, task, raced, thr, client>>
          /\ blind' = blind /\ misuse' = misuse /\ commands' = commands
          /\ late' = late \union {t} /\ overlapped' = TRUE
      BY <2>1 DEF Beside, Crash, lists
    <2>3. /\ late' \in SUBSET Thread /\ late \ {t} \subseteq late'
          /\ misuse' \in BOOLEAN /\ overlapped' \in BOOLEAN /\ commands' \in 0..MaxCommands
      BY <1>1, <2>2 DEF ChanTypes
    <2>4. PICK y : y = task[t] /\ y = task'[t]
      BY <2>2
    <2>5. InRole(y) /\ ForItself(t, y)'
      BY <1>1, <2>2, <2>4 DEF ForItself
    <2>6. UpToDate(t, y)' /\ NotYetIn(y)'
      BY <2>2, <2>4 DEF UpToDate, NotYetIn
    <2>7. Fits(t, task[t])'
      BY <2>4, <2>5, <2>6 DEF Fits
    <2> QED
      BY <2>2, <2>3, <2>7, StillSafe
  <1>5. CASE task[t].op \notin {"JOIN", "NAMES"}
    <2>1. PICK y \in TaskRec : y = Idle /\ Fits(t, y)
      BY IdleFits
    <2>2. task' = [task EXCEPT ![t] = y] /\ UNCHANGED vars
      BY <1>5, <2>1 DEF NotFound, Ends
    <2>3. InRole(y) /\ ForItself(t, y) /\ y.pc = "idle"
      BY <2>1 DEF Fits, Idle
    <2> QED
      BY <2>1, <2>2, <2>3, BesideIsSafe
  <1> QED
    BY <1>3, <1>4, <1>5

LEMMA LocateHalfwayIsSafe ==
  ASSUME ChannelSafe, NEW t \in Thread, LocateHalfway(t)
  PROVE  ChannelSafe'
  <1>1. Beside(t) /\ task[t].pc \in {"locate", "get"} /\ NotFound(t)
    BY DEF LocateHalfway, Beside, At
  <1> QED
    BY <1>1, NotFoundBesideIsSafe

LEMMA GetHalfwayIsSafe ==
  ASSUME ChannelSafe, NEW t \in Thread, GetHalfway(t)
  PROVE  ChannelSafe'
  <1>1. ChanTypes /\ InRole(task[t]) /\ ForItself(t, task[t])
    BY DEF ChannelSafe, Fits
  <1>2. /\ task[t] \in TaskRec /\ task \in [Thread -> TaskRec]
        /\ channelList \in Seq(Channel)
        /\ \A i \in 1..Len(channelList) : channelList[i] \in Channel
        /\ DOMAIN channelList = 1..Len(channelList)
        /\ Null \notin Names
    BY <1>1, ChannelFacts DEF ChanTypes
  <1>3. Beside(t) /\ task[t].pc = "get"
    BY DEF GetHalfway, Beside, At
  <1>4. task[t].op \in Commands /\ task[t].name \in Names
    BY <1>1, <1>3 DEF InRole
  <1>5. CASE NotFound(t)
    BY <1>3, <1>5, NotFoundBesideIsSafe
  <1>6. CASE \E i \in DOMAIN channelList :
               /\ task' = [task EXCEPT ![t].pc = WhenFound(task[t].op),
                                       ![t].pos = 0, ![t].ch = channelList[i]]
               /\ UNCHANGED vars
    <2>1. PICK k \in Channel :
            /\ task' = [task EXCEPT ![t].pc = WhenFound(task[t].op), ![t].pos = 0, ![t].ch = k]
            /\ UNCHANGED vars
      BY <1>2, <1>6
    <2>2. PICK p : p = WhenFound(task[t].op)
      OBVIOUS
    <2>3. /\ p \in {"names", "show", "copy"}
          /\ p = "names" => task[t].op = "NAMES"
          /\ p = "show" => task[t].op = "LIST"
          /\ p = "copy" => task[t].op \notin {"NAMES", "LIST"}
      BY <2>2 DEF WhenFound
    <2>4. PICK y : y = [task[t] EXCEPT !.pc = p, !.pos = 0, !.ch = k]
      OBVIOUS
    <2>5. /\ y \in TaskRec /\ y.pc = p /\ y.op = task[t].op /\ y.name = task[t].name
          /\ y.fd = task[t].fd /\ y.c = task[t].c /\ y.ch = k
      BY <1>2, <2>3, <2>4, 0 \in Nat DEF TaskRec, Steps
    <2>6. task' = [task EXCEPT ![t] = y]
      BY <1>2, <2>1, <2>2, <2>4
    <2>7. InRole(y)
      <3>1. CASE p = "names"
        BY <1>2, <1>4, <2>3, <2>5, <3>1 DEF InRole, OnChannel, Steps
      <3>2. CASE p = "show"
        BY <1>2, <1>4, <2>3, <2>5, <3>2 DEF InRole, OnChannel, Steps
      <3>3. CASE p = "copy"
        BY <1>2, <1>4, <2>3, <2>5, <3>3 DEF InRole, OnChannel, Steps, Commands
      <3> QED
        BY <2>3, <3>1, <3>2, <3>3
    <2>8. ForItself(t, y)
      BY <1>1, <1>3, <2>3, <2>5 DEF ForItself
    <2> QED
      BY <1>3, <2>1, <2>3, <2>5, <2>6, <2>7, <2>8, BesideIsSafe
  <1> QED
    BY <1>5, <1>6 DEF GetHalfway

LEMMA AstrayIsSafe ==
  ASSUME ChannelSafe, NEW t \in Thread, Astray(t)
  PROVE  ChannelSafe'
  <1>1. ChanTypes
    BY DEF ChannelSafe
  <1>2. /\ thr' = thr /\ client' = client /\ chan' = chan /\ channelList' = channelList
        /\ task' = task /\ late' = late /\ raced' = raced /\ blind' = blind
        /\ listing' = listing /\ commands' = commands /\ overlapped' = TRUE /\ misuse' = TRUE
    BY DEF Astray, vars, lists
  <1>3. /\ listing' \in Thread \union {Null} /\ misuse' \in BOOLEAN /\ overlapped' \in BOOLEAN
        /\ commands' \in 0..MaxCommands
    BY <1>1, <1>2 DEF ChanTypes
  <1> QED
    BY <1>2, <1>3, UntouchedIsSafe

LEMMA JoinAppendIsSafe ==
  ASSUME ChannelSafe, NEW t \in Thread, JoinAppend(t)
  PROVE  ChannelSafe'
  <1>1. /\ ChanTypes /\ Started /\ ListedOnce /\ NamedOnce /\ InOnce
        /\ \A u \in Thread : Fits(u, task[u])
    BY DEF ChannelSafe
  <1>2. /\ task \in [Thread -> TaskRec] /\ \A u \in Thread : task[u] \in TaskRec
        /\ chan \in [Channel -> ChanRec] /\ channelList \in Seq(Channel)
        /\ Null \notin Channel /\ Null \notin Names
        /\ \A l \in Channel : chan[l].members \in Seq(Thread) /\ Len(chan[l].members) \in Nat
    BY <1>1, ChannelFacts DEF ChanTypes
  <1>3. CASE Misuse
    BY <1>3, MisuseIsSafe
  <1>4. CASE ~Gone(t)
    <2>1. PICK k : k = task[t].ch
      OBVIOUS
    <2>2. PICK c : c = task[t].c
      OBVIOUS
    <2>3. /\ task[t].pc = "append" /\ task[t].op = "JOIN" /\ k \in Channel
          /\ c \in Thread /\ thr[c].pc \notin Young /\ client[c].fd = task[t].fd
          /\ task[t].fd \in Fd /\ thr[t].fd = task[t].fd /\ thr[t].pc = "recv"
      <3>1. task[t].pc = "append"
        BY DEF JoinAppend, At
      <3> QED
        BY <1>1, <2>1, <2>2, <3>1 DEF Fits, InRole, ForItself, OnChannel, Steps
    <2>4. PICK y : y = [task[t] EXCEPT !.pc = "head"]
      OBVIOUS
    <2>5. y \in TaskRec /\ y.pc = "head" /\ y.op = task[t].op /\ y.name = task[t].name
          /\ y.fd = task[t].fd /\ y.c = task[t].c /\ y.ch = k
      BY <1>2, <2>1, <2>4 DEF TaskRec, Steps
    <2>6. /\ thr' = thr /\ client' = client /\ misuse' = misuse /\ commands' = commands
          /\ late' = late /\ raced' = raced /\ blind' = blind /\ overlapped' = overlapped
          /\ channelList' = channelList /\ listing' = listing
      BY <1>4 DEF JoinAppend, Quietly, vars, history
    <2>7. /\ task' \in [Thread -> TaskRec] /\ task'[t] = y
          /\ \A u \in Thread \ {t} : task'[u] = task[u]
      <3>1. task' = [task EXCEPT ![t] = y]
        BY <1>2, <1>4, <2>4 DEF JoinAppend, Goes
      <3> QED
        BY <1>2, <2>5, <3>1
    <2>8. PICK more : more = Append(chan[k].members, c)
      OBVIOUS
    <2>9. /\ more \in Seq(Thread) /\ Len(more) = Len(chan[k].members) + 1
          /\ \A i \in 1..Len(chan[k].members) : more[i] = chan[k].members[i]
          /\ more[Len(chan[k].members) + 1] = c
      BY <1>2, <2>3, <2>8, AppendKeeps
    <2>10. PICK z : z = [chan[k] EXCEPT !.members = more]
      OBVIOUS
    <2>11. z \in ChanRec /\ z.name = chan[k].name /\ z.members = more
      BY <1>2, <2>3, <2>9, <2>10 DEF ChanRec
    <2>12. /\ chan' \in [Channel -> ChanRec] /\ chan'[k] = z
           /\ \A l \in Channel \ {k} : chan'[l] = chan[l]
           /\ \A l \in Channel : chan'[l].name = chan[l].name
      <3>1. chan' = [chan EXCEPT ![k] = z]
        BY <1>2, <1>4, <2>1, <2>2, <2>3, <2>8, <2>10 DEF JoinAppend
      <3> QED
        BY <1>2, <2>3, <2>11, <3>1
    <2>13. /\ \A l \in Channel : \A i \in 1..Len(chan[l].members) :
                i \in 1..Len(chan'[l].members) /\ FdOf(l, i)' = FdOf(l, i)
                /\ chan'[l].members[i] = chan[l].members[i]
           /\ \A l \in Channel : \A i \in 1..Len(chan'[l].members) :
                \/ i \in 1..Len(chan[l].members)
                \/ /\ l = k /\ i = Len(chan[k].members) + 1
                   /\ chan'[l].members[i] = c /\ FdOf(l, i)' = task[t].fd
           /\ \A fd : Excused(fd)' = Excused(fd)
      <3>1. ASSUME NEW l \in Channel, l # k
            PROVE  /\ chan'[l].members = chan[l].members
                   /\ \A i : FdOf(l, i)' = FdOf(l, i)
        BY <2>6, <2>12, <3>1 DEF FdOf
      <3>2. chan'[k].members = more
        BY <2>11, <2>12
      <3>3. \A i \in 1..Len(chan[k].members) :
              i \in 1..Len(more) /\ FdOf(k, i)' = FdOf(k, i)
        BY <1>2, <2>3, <2>6, <2>9, <3>2 DEF FdOf
      <3>4. ASSUME NEW i \in 1..Len(more)
            PROVE  \/ i \in 1..Len(chan[k].members)
                   \/ /\ i = Len(chan[k].members) + 1 /\ more[i] = c
                      /\ FdOf(k, i)' = task[t].fd
        <4>1. Len(chan[k].members) \in Nat
          BY <1>2, <2>3
        <4>2. i \in 1..Len(chan[k].members) \/ i = Len(chan[k].members) + 1
          BY <2>9, <4>1
        <4>3. CASE i = Len(chan[k].members) + 1
          <5>1. more[i] = c
            BY <2>9, <4>3
          <5> QED
            BY <2>3, <2>6, <3>2, <4>3, <5>1 DEF FdOf
        <4> QED
          BY <4>2, <4>3
      <3>5. \A fd : Excused(fd)' = Excused(fd)
        BY <2>6 DEF Excused, Shares
      <3> QED
        <4>1. ASSUME NEW l \in Channel, NEW i \in 1..Len(chan[l].members)
              PROVE  i \in 1..Len(chan'[l].members) /\ FdOf(l, i)' = FdOf(l, i)
                     /\ chan'[l].members[i] = chan[l].members[i]
          <5>1. CASE l = k
            BY <2>9, <3>2, <3>3, <4>1, <5>1
          <5>2. CASE l # k
            BY <3>1, <4>1, <5>2
          <5> QED
            BY <5>1, <5>2
        <4>2. ASSUME NEW l \in Channel, NEW i \in 1..Len(chan'[l].members)
              PROVE  \/ i \in 1..Len(chan[l].members)
                     \/ /\ l = k /\ i = Len(chan[k].members) + 1
                        /\ chan'[l].members[i] = c /\ FdOf(l, i)' = task[t].fd
          <5>1. CASE l = k
            BY <3>2, <3>4, <4>2, <5>1
          <5>2. CASE l # k
            BY <3>1, <4>2, <5>2
          <5> QED
            BY <5>1, <5>2
        <4> QED
          BY <3>5, <4>1, <4>2
    <2>14. \A u \in Thread \ {t} : thr[u].fd = task[t].fd => Excused(task[t].fd)
      BY <2>3 DEF Excused, Shares
    <2>15. ChanTypes'
      BY <1>1, <2>6, <2>7, <2>12 DEF ChanTypes
    <2>16. Started'
      <3>1. ASSUME NEW l \in Channel, NEW i \in 1..Len(chan'[l].members)
            PROVE  thr[chan'[l].members[i]].pc \notin Young
                   /\ client[chan'[l].members[i]].fd \in Fd
        <4>1. /\ \A q \in Channel : \A j \in 1..Len(chan[q].members) :
                   thr[chan[q].members[j]].pc \notin Young /\ client[chan[q].members[j]].fd \in Fd
          BY <1>1 DEF Started
        <4>2. CASE l = k /\ i = Len(chan[k].members) + 1 /\ chan'[l].members[i] = c
          BY <2>3, <4>2
        <4>3. CASE i \in 1..Len(chan[l].members)
          <5>1. chan'[l].members[i] = chan[l].members[i]
            BY <2>13, <4>3
          <5> QED
            BY <4>1, <4>3, <5>1
        <4> QED
          BY <2>13, <3>1, <4>2, <4>3
      <3> QED
        BY <1>1, <2>6, <3>1 DEF Started
    <2>17. ListedOnce' /\ NamedOnce'
      BY <1>1, <2>6, <2>12 DEF ListedOnce, NamedOnce, InList, Distinct
    <2>18. InOnce'
      <3>1. \A i \in 1..Len(chan[k].members) : FdOf(k, i) = task[t].fd => Excused(task[t].fd)
        BY <1>1, <2>1, <2>3 DEF Fits, NotYetIn
      <3> SUFFICES ASSUME NEW l \in Channel, NEW i \in 1..Len(chan'[l].members),
                          NEW j \in 1..Len(chan'[l].members), i # j,
                          FdOf(l, i)' = FdOf(l, j)'
                   PROVE  Excused(FdOf(l, i))'
        BY DEF InOnce
      <3>2. CASE i \in 1..Len(chan[l].members) /\ j \in 1..Len(chan[l].members)
        <4>1. Excused(FdOf(l, i))
          BY <1>1, <2>13, <3>2 DEF InOnce
        <4> QED
          BY <2>6, <2>13, <3>2, <4>1 DEF Excused, Shares
      <3>3. CASE i \notin 1..Len(chan[l].members) \/ j \notin 1..Len(chan[l].members)
        <4>1. l = k /\ FdOf(l, i)' = task[t].fd
              /\ (i \in 1..Len(chan[k].members) \/ j \in 1..Len(chan[k].members))
          BY <2>13, <3>3
        <4>2. Excused(task[t].fd)
          BY <2>13, <3>1, <3>3, <4>1
        <4> QED
          BY <2>6, <4>1, <4>2 DEF Excused, Shares
      <3> QED
        BY <3>2, <3>3
    <2>19. ASSUME NEW u \in Thread \ {t}
           PROVE  Fits(u, task[u])'
      <3>1. Fits(u, task[u]) /\ task'[u] = task[u]
        BY <1>1, <2>7
      <3>2. InRole(task[u])'
        BY <3>1 DEF Fits
      <3>3. ForItself(u, task[u])'
        BY <2>6, <3>1 DEF Fits, ForItself
      <3>4. UpToDate(u, task[u])'
        BY <2>6, <2>12, <3>1 DEF Fits, UpToDate, InList
      <3>5. NotYetIn(task[u])'
        <4>1. PICK T : T = task[u]
          OBVIOUS
        <4>2. T.pc \in {"check", "count", "enter", "append"} => T.ch \in Channel
          BY <3>1, <4>1 DEF Fits, InRole, OnChannel, Steps
        <4>3. NotYetIn(T)'
          <5>1. CASE T.pc = "check" /\ T.op = "JOIN" /\ ~T.busy
            <6>1. thr[u].fd = T.fd
              BY <3>1, <4>1, <5>1 DEF Fits, ForItself
            <6>2. \A i \in 1..Len(chan[T.ch].members) :
                    i > T.n /\ FdOf(T.ch, i) = T.fd => Excused(T.fd)
              BY <3>1, <4>1, <5>1 DEF Fits, NotYetIn
            <6> QED
              BY <2>13, <2>14, <4>2, <5>1, <6>1, <6>2 DEF NotYetIn
          <5>2. CASE T.pc \in {"count", "enter", "append"}
            <6>1. thr[u].fd = T.fd
              BY <3>1, <4>1, <5>2 DEF Fits, ForItself, InRole
            <6>2. \A i \in 1..Len(chan[T.ch].members) :
                    FdOf(T.ch, i) = T.fd => Excused(T.fd)
              BY <3>1, <4>1, <5>2 DEF Fits, NotYetIn
            <6> QED
              BY <2>13, <2>14, <4>2, <5>2, <6>1, <6>2 DEF NotYetIn
          <5> QED
            BY <5>1, <5>2 DEF NotYetIn
        <4> QED
          BY <3>1, <4>1, <4>3
      <3> QED
        BY <3>2, <3>3, <3>4, <3>5 DEF Fits
    <2>20. Fits(t, task[t])'
      <3>1. InRole(y)
        BY <1>1, <1>2, <2>3, <2>5 DEF Fits, InRole, OnChannel, Steps
      <3>2. ForItself(t, y)'
        BY <2>2, <2>3, <2>5, <2>6 DEF ForItself
      <3>3. UpToDate(t, y)' /\ NotYetIn(y)'
        BY <2>5 DEF UpToDate, NotYetIn
      <3> QED
        BY <2>7, <3>1, <3>2, <3>3 DEF Fits
    <2> QED
      BY <2>15, <2>16, <2>17, <2>18, <2>19, <2>20 DEF ChannelSafe
  <1> QED
    BY <1>3, <1>4 DEF JoinAppend

(* r is s, or s without some of its members: each one is at its old        *)
(* position or before it.                                                  *)
Within(r, s) ==
  /\ Len(r) <= Len(s)
  /\ \A a, b \in 1..Len(r) : \E c, d \in 1..Len(s) :
       a <= c /\ r[a] = s[c] /\ r[b] = s[d] /\ (a # b => c # d)

LEMMA WithinFds ==
  ASSUME client' = client, NEW k, Within(chan'[k].members, chan[k].members)
  PROVE  \A a, b \in 1..Len(chan'[k].members) :
           \E c, d \in 1..Len(chan[k].members) :
             /\ a <= c /\ (a # b => c # d)
             /\ FdOf(k, a)' = FdOf(k, c) /\ FdOf(k, b)' = FdOf(k, d)
  <1>1. PICK r, s : r = chan'[k].members /\ s = chan[k].members
    OBVIOUS
  <1>2. \A a, b \in 1..Len(r) : \E c, d \in 1..Len(s) :
          a <= c /\ r[a] = s[c] /\ r[b] = s[d] /\ (a # b => c # d)
    <2>1. Within(r, s)
      BY <1>1
    <2> QED
      BY <2>1 DEF Within
  <1>3. \A i : FdOf(k, i)' = client[r[i]].fd /\ FdOf(k, i) = client[s[i]].fd
    BY <1>1 DEF FdOf
  <1>4. ASSUME NEW a \in 1..Len(r), NEW b \in 1..Len(r)
        PROVE  \E c, d \in 1..Len(s) :
                 /\ a <= c /\ (a # b => c # d)
                 /\ FdOf(k, a)' = FdOf(k, c) /\ FdOf(k, b)' = FdOf(k, d)
    <2>1. PICK c \in 1..Len(s), d \in 1..Len(s) :
            a <= c /\ r[a] = s[c] /\ r[b] = s[d] /\ (a # b => c # d)
      BY <1>2
    <2>2. FdOf(k, a)' = FdOf(k, c) /\ FdOf(k, b)' = FdOf(k, d)
      BY <1>3, <2>1
    <2> QED
      BY <2>1, <2>2
  <1> QED
    BY <1>1, <1>4

LEMMA WithinItself ==
  ASSUME NEW T, NEW s \in Seq(T)
  PROVE  Within(s, s)
  <1>1. Len(s) \in Nat
    OBVIOUS
  <1>2. ASSUME NEW a \in 1..Len(s), NEW b \in 1..Len(s)
        PROVE  \E c, d \in 1..Len(s) :
                 a <= c /\ s[a] = s[c] /\ s[b] = s[d] /\ (a # b => c # d)
    <2>1. a <= a
      BY <1>1
    <2> QED
      BY <2>1
  <1> QED
    BY <1>1, <1>2 DEF Within

LEMMA WithinNothing ==
  ASSUME NEW T, NEW s \in Seq(T)
  PROVE  Within(<<>>, s)
  BY DEF Within

(* A list from which at most one is taken out.                             *)
LEMMA WithoutFacts ==
  ASSUME NEW T, NEW s \in Seq(T), NEW i \in Nat, NEW iterated \in BOOLEAN
  PROVE  LET r == Without(s, i, iterated)
         IN /\ r \in Seq(T) /\ Len(r) \in Nat /\ Within(r, s)
            /\ ~iterated /\ i \in 1..Len(s) => /\ r = Cut(s, i) /\ Len(r) = Len(s) - 1
            /\ iterated \/ i \notin 1..Len(s) => r = s
  <1> DEFINE r == Without(s, i, iterated)
  <1>1. DOMAIN s = 1..Len(s) /\ Len(s) \in Nat
    OBVIOUS
  <1>2. CASE iterated \/ i \notin 1..Len(s)
    <2>1. r = s
      BY <1>1, <1>2 DEF Without
    <2> HIDE DEF r
    <2>2. Len(r) = Len(s) /\ Len(s) <= Len(s)
      BY <1>1, <2>1
    <2>3. ASSUME NEW a \in 1..Len(r), NEW b \in 1..Len(r)
          PROVE  \E c, d \in 1..Len(s) :
                   a <= c /\ r[a] = s[c] /\ r[b] = s[d] /\ (a # b => c # d)
      <3>1. a \in 1..Len(s) /\ b \in 1..Len(s) /\ a <= a /\ r[a] = s[a] /\ r[b] = s[b]
        BY <1>1, <2>1
      <3> QED
        BY <3>1
    <2>4. ~(~iterated /\ i \in 1..Len(s))
      BY <1>2
    <2> QED
      BY <1>1, <2>1, <2>2, <2>3, <2>4 DEF r, Within
  <1>3. CASE ~iterated /\ i \in 1..Len(s)
    <2>1. r = Cut(s, i)
      BY <1>1, <1>3 DEF Without, Cut
    <2>2. /\ r \in Seq(T) /\ Len(r) = Len(s) - 1
          /\ \A j \in 1..Len(r) : r[j] = IF j < i THEN s[j] ELSE s[j + 1]
      BY <1>3, <2>1, CutFacts
    <2> HIDE DEF r
    <2>3. ASSUME NEW a \in 1..Len(r), NEW b \in 1..Len(r)
          PROVE  \E c, d \in 1..Len(s) :
                   a <= c /\ r[a] = s[c] /\ r[b] = s[d] /\ (a # b => c # d)
      <3> DEFINE c == IF a < i THEN a ELSE a + 1
                 d == IF b < i THEN b ELSE b + 1
      <3>1. c \in 1..Len(s) /\ d \in 1..Len(s) /\ a <= c /\ (a # b => c # d)
        BY <1>1, <1>3, <2>2
      <3>2. r[a] = s[c] /\ r[b] = s[d]
        BY <2>2
      <3> QED
        BY <3>1, <3>2
    <2>4. Len(r) \in Nat /\ Len(r) <= Len(s)
      BY <1>1, <1>3, <2>2
    <2> QED
      BY <1>3, <2>1, <2>2, <2>3, <2>4 DEF r, Within
  <1> QED
    BY <1>2, <1>3

(* A step that takes members out of a channel keeps the invariant.         *)
LEMMA LeavingIsSafe ==
  ASSUME ChannelSafe, NEW t \in Thread, NEW y \in TaskRec,
         task' = [task EXCEPT ![t] = y], InRole(y), ForItself(t, y),
         y.pc \in {"idle", "leave"},
         thr' = thr, client' = client, chan' \in [Channel -> ChanRec],
         \A k \in Channel : /\ chan'[k].name = chan[k].name
                            /\ Within(chan'[k].members, chan[k].members),
         channelList' \in Seq(Channel), Distinct(channelList'),
         \A x : InList(channelList', x) => InList(channelList, x),
         \/ channelList' = channelList /\ late' = late
         \/ late' = Overtaken(t),
         UNCHANGED <<listing, misuse, commands, raced, blind, overlapped>>
  PROVE  ChannelSafe'
  <1>1. /\ ChanTypes /\ Started /\ ListedOnce /\ NamedOnce /\ InOnce
        /\ \A u \in Thread : Fits(u, task[u])
    BY DEF ChannelSafe
  <1>2. /\ task \in [Thread -> TaskRec]
        /\ \A l \in Channel : chan[l].members \in Seq(Thread) /\ Len(chan[l].members) \in Nat
        /\ \A l \in Channel : Len(chan'[l].members) \in Nat
    <2>1. \A l \in Channel : chan'[l].members \in Seq(Thread)
      BY DEF ChanRec
    <2> QED
      BY <1>1, <2>1, ChannelFacts DEF ChanTypes
  <1>3. task' \in [Thread -> TaskRec] /\ task'[t] = y /\ \A u \in Thread \ {t} : task'[u] = task[u]
    BY <1>2
  <1>4. /\ late' \in SUBSET Thread /\ late \subseteq late'
        /\ \A u \in Thread \ {t} :
             u \notin late' => task[u].pc \notin {"get", "create"} \/ channelList' = channelList
    BY <1>1 DEF Overtaken, ChanTypes
  <1>5. \A fd : Excused(fd)' = Excused(fd)
    BY DEF Excused, Shares
  <1>6. \A k \in Channel : \A a, b \in 1..Len(chan'[k].members) :
          \E c, d \in 1..Len(chan[k].members) :
            /\ a <= c /\ (a # b => c # d)
            /\ FdOf(k, a)' = FdOf(k, c) /\ FdOf(k, b)' = FdOf(k, d)
    BY WithinFds
  <1>7. ChanTypes'
    BY <1>1, <1>3, <1>4 DEF ChanTypes
  <1>8. Started'
    <2> SUFFICES ASSUME NEW k \in Channel, NEW a \in 1..Len(chan'[k].members)
                 PROVE  /\ thr[chan'[k].members[a]].pc \notin Young
                        /\ client[chan'[k].members[a]].fd \in Fd
      BY <1>1 DEF Started
    <2>1. PICK c \in 1..Len(chan[k].members) : chan'[k].members[a] = chan[k].members[c]
      BY DEF Within
    <2> QED
      BY <1>1, <2>1 DEF Started
  <1>9. ListedOnce' /\ NamedOnce'
    BY <1>1 DEF ListedOnce, NamedOnce
  <1>10. InOnce'
    <2> SUFFICES ASSUME NEW k \in Channel, NEW a \in 1..Len(chan'[k].members),
                        NEW b \in 1..Len(chan'[k].members), a # b, FdOf(k, a)' = FdOf(k, b)'
                 PROVE  Excused(FdOf(k, a))'
      BY DEF InOnce
    <2>1. PICK c \in 1..Len(chan[k].members), d \in 1..Len(chan[k].members) :
            c # d /\ FdOf(k, a)' = FdOf(k, c) /\ FdOf(k, b)' = FdOf(k, d)
      BY <1>6
    <2>2. Excused(FdOf(k, c))
      BY <1>1, <2>1 DEF InOnce
    <2> QED
      BY <2>1, <2>2 DEF Excused, Shares
  <1>11. ASSUME NEW u \in Thread \ {t}
         PROVE  Fits(u, task[u])'
    <2>1. Fits(u, task[u]) /\ task'[u] = task[u]
      BY <1>1, <1>3
    <2>2. InRole(task[u])'
      BY <2>1 DEF Fits
    <2>3. ForItself(u, task[u])'
      BY <2>1 DEF Fits, ForItself
    <2>4. UpToDate(u, task[u])'
      BY <1>4, <2>1 DEF Fits, UpToDate, InList
    <2>5. NotYetIn(task[u])'
      <3>1. PICK T \in TaskRec : T = task[u]
        BY <1>2
      <3>2. T.pc \in {"check", "count", "enter", "append"} => T.ch \in Channel
        BY <2>1, <3>1 DEF Fits, InRole, OnChannel, Steps
      <3>3. T.n \in Int
        BY DEF TaskRec
      <3>4. NotYetIn(T)'
        <4>1. CASE T.pc = "check" /\ T.op = "JOIN" /\ ~T.busy
          <5>1. \A i \in 1..Len(chan[T.ch].members) :
                  i > T.n /\ FdOf(T.ch, i) = T.fd => Excused(T.fd)
            BY <2>1, <3>1, <4>1 DEF Fits, NotYetIn
          <5>2. ASSUME NEW a \in 1..Len(chan'[T.ch].members), a > T.n, FdOf(T.ch, a)' = T.fd
                PROVE  Excused(T.fd)
            <6>1. PICK c \in 1..Len(chan[T.ch].members) : a <= c /\ FdOf(T.ch, a)' = FdOf(T.ch, c)
              BY <1>6, <3>2, <4>1
            <6>2. c > T.n
              BY <1>2, <3>2, <3>3, <4>1, <5>2, <6>1
            <6> QED
              BY <5>1, <5>2, <6>1, <6>2
          <5> QED
            BY <1>5, <4>1, <5>2 DEF NotYetIn
        <4>2. CASE T.pc \in {"count", "enter", "append"}
          <5>1. \A i \in 1..Len(chan[T.ch].members) : FdOf(T.ch, i) = T.fd => Excused(T.fd)
            BY <2>1, <3>1, <4>2 DEF Fits, NotYetIn
          <5>2. ASSUME NEW a \in 1..Len(chan'[T.ch].members), FdOf(T.ch, a)' = T.fd
                PROVE  Excused(T.fd)
            <6>1. PICK c \in 1..Len(chan[T.ch].members) : FdOf(T.ch, a)' = FdOf(T.ch, c)
              BY <1>6, <3>2, <4>2
            <6> QED
              BY <5>1, <5>2, <6>1
          <5> QED
            BY <1>5, <4>2, <5>2 DEF NotYetIn
        <4> QED
          BY <4>1, <4>2 DEF NotYetIn
      <3> QED
        BY <2>1, <3>1, <3>4
    <2> QED
      BY <2>2, <2>3, <2>4, <2>5 DEF Fits
  <1>12. Fits(t, task[t])'
    <2>1. ForItself(t, y)' /\ UpToDate(t, y)' /\ NotYetIn(y)'
      BY DEF ForItself, UpToDate, NotYetIn
    <2> QED
      BY <1>3, <2>1 DEF Fits
  <1> QED
    BY <1>7, <1>8, <1>9, <1>10, <1>11, <1>12 DEF ChannelSafe

LEMMA RemoveIsSafe ==
  ASSUME ChannelSafe, NEW t \in Thread, Remove(t)
  PROVE  ChannelSafe'
  <1>1. ChanTypes /\ ListedOnce /\ Fits(t, task[t]) /\ InRole(task[t])
    BY DEF ChannelSafe, Fits
  <1>2. /\ task \in [Thread -> TaskRec] /\ task[t] \in TaskRec
        /\ chan \in [Channel -> ChanRec] /\ channelList \in Seq(Channel)
        /\ Null \notin Channel /\ Null \notin Names
        /\ \A l \in Channel : chan[l].members \in Seq(Thread) /\ Len(chan[l].members) \in Nat
    BY <1>1, ChannelFacts DEF ChanTypes
  <1>3. CASE Misuse
    BY <1>3, MisuseIsSafe
  <1>4. CASE ~Misuse
    <2>1. PICK k : k = task[t].ch
      OBVIOUS
    <2>2. task[t].pc = "delete" /\ k \in Channel /\ task[t].op = "REMOVE"
      BY <1>1, <2>1 DEF Remove, At, InRole, OnChannel, Steps
    <2>3. PICK rest : rest = Without(chan[k].members, task[t].pos, ~MembersUnlocked(t))
      OBVIOUS
    <2>4. /\ chan' = [chan EXCEPT ![k].members = rest]
          /\ task' = [task EXCEPT ![t].pc = "leave", ![t].pos = 0]
          /\ UNCHANGED <<channelList, listing>> /\ Quietly
      BY <1>4, <2>1, <2>3 DEF Remove
    <2>5. rest \in Seq(Thread) /\ Within(rest, chan[k].members)
      <3>1. task[t].pos \in Nat
        BY <1>2 DEF TaskRec
      <3>2. PICK s : s = chan[k].members
        OBVIOUS
      <3>3. PICK i \in Nat : i = task[t].pos
        BY <3>1
      <3>4. PICK b \in BOOLEAN : b = ~MembersUnlocked(t)
        BY DEF MembersUnlocked
      <3>5. s \in Seq(Thread) /\ rest = Without(s, i, b)
        BY <1>2, <2>2, <2>3, <3>2, <3>3, <3>4
      <3>6. rest \in Seq(Thread) /\ Within(rest, s)
        BY <3>5, WithoutFacts
      <3> QED
        BY <3>2, <3>6
    <2>6. PICK z : z = [chan[k] EXCEPT !.members = rest]
      OBVIOUS
    <2>7. z \in ChanRec /\ z.name = chan[k].name /\ z.members = rest
      BY <1>2, <2>2, <2>5, <2>6 DEF ChanRec
    <2>8. chan' \in [Channel -> ChanRec] /\ chan'[k] = z /\ \A l \in Channel \ {k} : chan'[l] = chan[l]
      <3>1. chan' = [chan EXCEPT ![k] = z]
        BY <1>2, <2>2, <2>4, <2>6
      <3> QED
        BY <1>2, <2>2, <2>7, <3>1
    <2>9. \A l \in Channel : /\ chan'[l].name = chan[l].name
                             /\ Within(chan'[l].members, chan[l].members)
      <3> TAKE l \in Channel
      <3>1. CASE l = k
        <4>1. chan'[l].members = rest /\ chan'[l].name = chan[l].name /\ l = k
          BY <2>7, <2>8, <3>1
        <4> QED
          BY <2>5, <4>1
      <3>2. CASE l # k
        <4>1. chan'[l] = chan[l] /\ chan[l].members \in Seq(Thread)
          BY <1>2, <2>8, <3>2
        <4> QED
          BY <4>1, WithinItself
      <3> QED
        BY <3>1, <3>2
    <2>10. PICK i \in Nat : i = 0
      OBVIOUS
    <2>11. PICK y : y = [task[t] EXCEPT !.pc = "leave", !.pos = i]
      OBVIOUS
    <2>12. /\ y \in TaskRec /\ y.pc = "leave" /\ y.op = task[t].op /\ y.name = task[t].name
           /\ y.ch = k
      BY <1>2, <2>1, <2>11 DEF TaskRec, Steps
    <2>13. task' = [task EXCEPT ![t] = y]
      BY <1>2, <2>4, <2>10, <2>11
    <2>14. InRole(y) /\ ForItself(t, y)
      BY <1>1, <1>2, <2>2, <2>12 DEF Fits, InRole, ForItself, OnChannel, Steps
    <2>15. /\ thr' = thr /\ client' = client /\ late' = late
           /\ UNCHANGED <<listing, misuse, commands, raced, blind, overlapped>>
           /\ channelList' = channelList /\ channelList' \in Seq(Channel)
           /\ Distinct(channelList') /\ \A x : InList(channelList', x) => InList(channelList, x)
      BY <1>1, <1>2, <2>4 DEF Quietly, vars, history, ListedOnce
    <2> QED
      BY <2>8, <2>9, <2>12, <2>13, <2>14, <2>15, LeavingIsSafe
  <1> QED
    BY <1>3, <1>4

LEMMA DestroyIsSafe ==
  ASSUME ChannelSafe, NEW t \in Thread, Destroy(t)
  PROVE  ChannelSafe'
  <1>1. ChanTypes /\ ListedOnce /\ Fits(t, task[t]) /\ InRole(task[t])
    BY DEF ChannelSafe, Fits
  <1>2. /\ task \in [Thread -> TaskRec] /\ task[t] \in TaskRec
        /\ chan \in [Channel -> ChanRec] /\ channelList \in Seq(Channel)
        /\ Null \notin Channel /\ Null \notin Names
        /\ \A l \in Channel : chan[l].members \in Seq(Thread) /\ Len(chan[l].members) \in Nat
    BY <1>1, ChannelFacts DEF ChanTypes
  <1>3. CASE Misuse
    BY <1>3, MisuseIsSafe
  <1>4. CASE ~(Gone(t) \/ chan[task[t].ch].topic = "freed")
    <2>1. PICK k : k = task[t].ch
      OBVIOUS
    <2>2. k \in Channel
      BY <1>1, <2>1 DEF Destroy, At, InRole, OnChannel, Steps
    <2>3. PICK rest : rest = IF MembersUnlocked(t) THEN <<>> ELSE chan[k].members
      OBVIOUS
    <2>4. /\ chan' = [chan EXCEPT ![k].freed = TRUE, ![k].members = rest]
          /\ channelList' = Unlist(t) /\ Ends(t)
          /\ late' = IF channelList' = channelList THEN late ELSE Overtaken(t)
          /\ UNCHANGED <<vars, listing, misuse, commands, raced, blind, overlapped>>
      BY <1>2, <1>4, <2>1, <2>2, <2>3 DEF Destroy
    <2>5. PICK yes \in BOOLEAN : yes = TRUE
      OBVIOUS
    <2>6. PICK z : z = [chan[k] EXCEPT !.freed = yes, !.members = rest]
      OBVIOUS
    <2>7. rest \in Seq(Thread) /\ (rest = chan[k].members \/ rest = <<>>)
      BY <1>2, <2>2, <2>3
    <2>8. z \in ChanRec /\ z.name = chan[k].name /\ z.members = rest
      BY <1>2, <2>2, <2>6, <2>7 DEF ChanRec
    <2>9. chan' \in [Channel -> ChanRec] /\ chan'[k] = z /\ \A l \in Channel \ {k} : chan'[l] = chan[l]
      <3>1. chan' = [chan EXCEPT ![k] = z]
        BY <1>2, <2>2, <2>4, <2>5, <2>6
      <3> QED
        BY <1>2, <2>2, <2>8, <3>1
    <2>10. \A l \in Channel : chan'[l].name = chan[l].name /\ chan'[l].members \in {chan[l].members, <<>>}
      BY <2>7, <2>8, <2>9
    <2>11. \A l \in Channel : /\ chan'[l].name = chan[l].name
                              /\ Within(chan'[l].members, chan[l].members)
      <3> TAKE l \in Channel
      <3>1. PICK s \in Seq(Thread) : s = chan[l].members
        BY <1>2
      <3>2. Within(s, s) /\ Within(<<>>, s)
        BY WithinItself, WithinNothing
      <3> QED
        BY <2>10, <3>1, <3>2
    <2>12. PICK y \in TaskRec : y = Idle
      BY <1>2, IdleFits
    <2>13. /\ task' = [task EXCEPT ![t] = y] /\ y.pc = "idle" /\ InRole(y) /\ ForItself(t, y)
      BY <2>4, <2>12, IdleFits DEF Ends, Fits, Idle
    <2>14. /\ channelList' \in Seq(Channel) /\ Distinct(channelList')
           /\ \A x : InList(channelList', x) => InList(channelList, x)
      <3>1. Distinct(channelList) /\ task[t].pos \in Nat
        BY <1>1, <1>2 DEF ListedOnce, TaskRec
      <3>2. channelList' = Without(channelList, task[t].pos, listing # Null)
        BY <2>4 DEF Unlist
      <3>5. PICK i \in Nat : i = task[t].pos
        BY <3>1
      <3>6. PICK b \in BOOLEAN : b = (listing # Null)
        OBVIOUS
      <3>7. PICK s : s = channelList
        OBVIOUS
      <3>8. /\ s \in Seq(Channel) /\ channelList' = Without(s, i, b)
            /\ b \/ i \notin 1..Len(s) => channelList' = s
            /\ ~b /\ i \in 1..Len(s) => channelList' = Cut(s, i)
        <4>1. s \in Seq(Channel) /\ channelList' = Without(s, i, b)
          BY <1>2, <3>2, <3>5, <3>6, <3>7
        <4> QED
          BY <4>1, WithoutFacts
      <3>3. CASE b \/ i \notin 1..Len(s)
        <4>1. channelList' = channelList
          BY <3>3, <3>7, <3>8
        <4> QED
          BY <1>2, <3>1, <4>1
      <3>4. CASE ~b /\ i \in 1..Len(s)
        <4>1. channelList' = Cut(s, i) /\ Distinct(s)
          BY <3>1, <3>4, <3>7, <3>8
        <4> QED
          <5>1. /\ \A j, n \in 1..Len(s) : j # n => s[j] # s[n]
                /\ s \in Seq(Channel) /\ i \in 1..Len(s)
            BY <3>4, <3>8, <4>1 DEF Distinct
          <5> DEFINE r == Cut(s, i)
          <5>2. /\ r \in Seq(Channel)
                /\ \A j, n \in 1..Len(r) : j # n => r[j] # r[n]
                /\ \A x : (\E j \in 1..Len(r) : r[j] = x)
                         <=> x # s[i] /\ \E j \in 1..Len(s) : s[j] = x
            BY <5>1, CutKeeps
          <5>3. r = channelList'
            BY <4>1
          <5> HIDE DEF r
          <5> QED
            BY <3>7, <5>2, <5>3 DEF Distinct, InList
      <3> QED
        BY <3>3, <3>4
    <2>15. /\ thr' = thr /\ client' = client
           /\ UNCHANGED <<listing, misuse, commands, raced, blind, overlapped>>
           /\ \/ channelList' = channelList /\ late' = late
              \/ late' = Overtaken(t)
      BY <2>4 DEF vars
    <2> QED
      BY <2>9, <2>11, <2>13, <2>14, <2>15, LeavingIsSafe
  <1> QED
    BY <1>3, <1>4 DEF Destroy

-----------------------------------------------------------------------------
(***************************************************************************)
(* A message arrives; the connections.                                     *)
(***************************************************************************)
LEMMA CommandIsSafe ==
  ASSUME IrcSafe, ChannelSafe, NEW t \in Thread, NEW op, NEW name, Command(t, op, name),
         \/ op \in Commands /\ name \in Names
         \/ op \in {"NAMES", "LIST"} /\ name = Null
  PROVE  ChannelSafe'
  <1>1. ChanTypes /\ Fits(t, task[t])
    BY DEF ChannelSafe
  <1>2. /\ task \in [Thread -> TaskRec] /\ chan \in [Channel -> ChanRec]
        /\ Null \notin Channel /\ Null \notin Names /\ Null \notin Thread /\ Null \notin Fd
    BY <1>1, ChannelFacts DEF ChanTypes
  <1>3. /\ thr[t].pc = "recv" /\ task[t] = Idle /\ thr[t].fd # Null /\ commands < MaxCommands
        /\ commands' = commands + 1 /\ UNCHANGED <<lists, misuse, late, raced, blind>>
        /\ overlapped' \in BOOLEAN
    BY DEF Command, Ready
  <1>4. IrcTypes /\ Listed
    BY DEF IrcSafe
  <1>5. thr[t].fd \in Fd /\ clientList \in Seq(Thread)
    <2>1. thr[t] \in ThreadRec
      BY <1>4 DEF IrcTypes
    <2> QED
      BY <1>3, <1>4, <2>1 DEF IrcTypes, ThreadRec
  <1>6. PICK c : c = Seek(thr[t].fd)
    OBVIOUS
  <1>7. /\ c \in Thread \union {Null}
        /\ c # Null => /\ c \in Thread /\ client[c].fd = thr[t].fd
                       /\ thr[c].pc \notin Young
    BY <1>4, <1>5, <1>6, SeekFacts DEF Listed, Young
  <1>8. /\ commands' \in 0..MaxCommands /\ misuse' \in BOOLEAN /\ late' = late
        /\ late' \in SUBSET Thread /\ blind' \in SUBSET Fd /\ blind' = blind
        /\ chan' = chan /\ channelList' = channelList /\ listing' = listing /\ raced' = raced
        /\ listing' \in Thread \union {Null} /\ chan' \in [Channel -> ChanRec]
    BY <1>1, <1>3, ChannelsAssumption DEF ChanTypes, lists
  <1>9. CASE c = Null /\ op \in Asking
    <2>1. thr' = thr /\ client' = client /\ task' = task
      BY <1>6, <1>9 DEF Command, Crash
    <2>2. Fits(t, task[t])'
      BY <1>1, <1>3, <2>1, IdleFits DEF Fits, InRole, ForItself, UpToDate, NotYetIn, Idle, OnChannel
    <2> QED
      BY <1>3, <1>8, <2>1, <2>2, StillSafe
  <1>10. CASE ~(c = Null /\ op \in Asking)
    <2>1. PICK p : p = IF name = Null THEN "iterate" ELSE "locate"
      OBVIOUS
    <2>2. PICK fd \in Fd : fd = thr[t].fd
      BY <1>5
    <2>3. PICK y : y = [Idle EXCEPT !.pc = p, !.op = op, !.name = name, !.fd = fd, !.c = c]
      OBVIOUS
    <2>4. op \in Ops /\ name \in Names \union {Null} /\ p \in {"iterate", "locate"}
      BY <2>1 DEF Ops, Commands
    <2>5. /\ y.pc = p /\ y.op = op /\ y.name = name /\ y.fd = fd /\ y.c = c
      BY <2>3 DEF Idle
    <2>6. y \in TaskRec
      BY <1>7, <2>3, <2>4, IdleFits DEF TaskRec, Steps
    <2>7. task' = [task EXCEPT ![t] = y] /\ UNCHANGED vars
      BY <1>6, <1>10, <2>1, <2>2, <2>3 DEF Command
    <2>8. thr' = thr /\ client' = client
      BY <2>7 DEF vars
    <2>9. InRole(y)
      BY <1>2, <2>1, <2>4, <2>5 DEF InRole, OnChannel, Steps, Commands
    <2>10. ForItself(t, y)'
      <3>1. op = "JOIN" => c # Null
        BY <1>10 DEF Asking, Locking
      <3> QED
        BY <1>3, <1>7, <2>2, <2>5, <2>8, <3>1 DEF ForItself
    <2>11. UpToDate(t, y)' /\ NotYetIn(y)'
      BY <2>4, <2>5 DEF UpToDate, NotYetIn
    <2>12. Fits(t, y)'
      BY <2>9, <2>10, <2>11 DEF Fits
    <2> QED
      BY <1>3, <1>8, <2>6, <2>7, <2>8, <2>12, MoveIsSafe
  <1> QED
    BY <1>9, <1>10

(* A thread keeps the descriptor that it has read, and its client does.    *)
LEMMA ConnectionKeeps ==
  ASSUME IrcSafe, NEW t \in Thread, Accept(t) \/ Serve(t) \/ Continue(t),
         thr[t].pc \in {"none", "start"} => thr[t].fd = Null
  PROVE  /\ \A u \in Thread \ {t} : thr'[u] = thr[u]
         /\ thr[t].pc \notin {"none", "start"} => thr'[t].fd = thr[t].fd
         /\ thr[t].pc \notin Young => thr'[t].pc \notin Young
         /\ thr'[t].pc \in {"none", "start"} => thr'[t].fd = Null
         /\ \A c \in Thread : thr[c].pc \notin Young => client'[c].fd = client[c].fd
  <1>1. /\ thr \in [Thread -> ThreadRec] /\ client \in [Thread -> ClientRec]
        /\ clientList \in Seq(Thread) /\ Working
    BY DEF IrcSafe, IrcTypes
  <1>2. thr[t] \in ThreadRec /\ \A c \in Thread : client[c] \in ClientRec
    BY <1>1
  <1>3. ASSUME NEW y, thr' = [thr EXCEPT ![t] = y], y.fd = thr[t].fd,
               y.pc \in Young => \/ y.pc = "append" /\ thr[t].pc \in Young
                                 \/ y.pc = "start" /\ thr[t].pc \in {"none", "start"},
               \A c \in Thread : client'[c].fd = client[c].fd
        PROVE  /\ \A u \in Thread \ {t} : thr'[u] = thr[u]
               /\ thr[t].pc \notin {"none", "start"} => thr'[t].fd = thr[t].fd
               /\ thr[t].pc \notin Young => thr'[t].pc \notin Young
               /\ thr'[t].pc \in {"none", "start"} => thr'[t].fd = Null
               /\ \A c \in Thread : thr[c].pc \notin Young => client'[c].fd = client[c].fd
    BY <1>1, <1>2, <1>3 DEF Young
  <1>4. ASSUME thr' = thr, \A c \in Thread : client'[c].fd = client[c].fd
        PROVE  /\ \A u \in Thread \ {t} : thr'[u] = thr[u]
               /\ thr[t].pc \notin {"none", "start"} => thr'[t].fd = thr[t].fd
               /\ thr[t].pc \notin Young => thr'[t].pc \notin Young
               /\ thr'[t].pc \in {"none", "start"} => thr'[t].fd = Null
               /\ \A c \in Thread : thr[c].pc \notin Young => client'[c].fd = client[c].fd
    BY <1>1, <1>2, <1>4 DEF Young
  <1>5. CASE Accept(t)
    <2>1. PICK y : y = [thr[t] EXCEPT !.pc = "start"]
      OBVIOUS
    <2>2. y.fd = thr[t].fd /\ (y.pc = "start")
      BY <1>2, <2>1 DEF ThreadRec
    <2>3. thr' = [thr EXCEPT ![t] = y]
      BY <1>1, <2>1, <1>5 DEF Accept, Goto
    <2>4. \A c \in Thread : client'[c].fd = client[c].fd
      BY <1>1, <1>5 DEF Accept, Goto
    <2>5. thr[t].pc = "none"
      BY <1>5 DEF Accept, Ready
    <2> QED
      BY <1>3, <2>2, <2>3, <2>4, <2>5 DEF Young
  <1>6. CASE AppendClient(t)
    <2>1. PICK y : y = [thr[t] EXCEPT !.pc = "recv"]
      OBVIOUS
    <2>2. y.fd = thr[t].fd /\ y.pc = "recv"
      BY <1>2, <2>1 DEF ThreadRec
    <2>3. thr' = [thr EXCEPT ![t] = y] /\ client' = client
      BY <1>1, <2>1, <1>6 DEF AppendClient, Goto
    <2> QED
      BY <1>3, <2>2, <2>3 DEF Young
  <1>7. CASE Ask(t)
    <2>0. PICK label \in {"lusers", "motd"} : Goto(t, label)
      BY <1>7 DEF Ask
    <2>1. PICK y : y = [thr[t] EXCEPT !.pc = label]
      OBVIOUS
    <2>2. y.fd = thr[t].fd /\ y.pc \in {"lusers", "motd"}
      BY <1>2, <2>1 DEF ThreadRec
    <2>3. thr' = [thr EXCEPT ![t] = y]
      BY <1>1, <2>0, <2>1 DEF Goto
    <2>4. \A c \in Thread : client'[c].fd = client[c].fd
      BY <1>7 DEF Ask
    <2> QED
      BY <1>3, <2>2, <2>3, <2>4 DEF Young
  <1>8. CASE Count(t)
    <2>1. PICK y : y = [thr[t] EXCEPT !.pc = "counting"]
      OBVIOUS
    <2>2. y.fd = thr[t].fd /\ (y.pc = "counting")
      BY <1>2, <2>1 DEF ThreadRec
    <2>3. thr' = [thr EXCEPT ![t] = y]
      BY <1>1, <2>1, <1>8 DEF Count, Goto
    <2>4. \A c \in Thread : client'[c].fd = client[c].fd
      BY <1>1, <1>8 DEF Count, Goto
    <2> QED
      BY <1>3, <2>2, <2>3, <2>4 DEF Young
  <1>9. CASE Counted(t)
    <2>1. PICK y : y = [thr[t] EXCEPT !.pc = "answer"]
      OBVIOUS
    <2>2. y.fd = thr[t].fd /\ (y.pc = "answer")
      BY <1>2, <2>1 DEF ThreadRec
    <2>3. thr' = [thr EXCEPT ![t] = y]
      BY <1>1, <2>1, <1>9 DEF Counted, Goto
    <2>4. \A c \in Thread : client'[c].fd = client[c].fd
      BY <1>1, <1>9 DEF Counted, Goto
    <2> QED
      BY <1>3, <2>2, <2>3, <2>4 DEF Young
  <1>10. CASE Quit(t)
    <2>1. PICK y : y = [thr[t] EXCEPT !.pc = "quit", !.c = Seek(thr[t].fd)]
      OBVIOUS
    <2>2. y.fd = thr[t].fd /\ (y.pc = "quit")
      BY <1>2, <2>1 DEF ThreadRec
    <2>3. thr' = [thr EXCEPT ![t] = y]
      BY <1>1, <2>1, <1>10 DEF Quit
    <2>4. \A c \in Thread : client'[c].fd = client[c].fd
      BY <1>1, <1>10 DEF Quit
    <2> QED
      BY <1>3, <2>2, <2>3, <2>4 DEF Young
  <1>11. CASE QuitClose(t)
    <2>1. PICK y : y = [thr[t] EXCEPT !.pc = "recv"]
      OBVIOUS
    <2>2. y.fd = thr[t].fd /\ (y.pc = "recv")
      BY <1>2, <2>1 DEF ThreadRec
    <2>3. thr' = [thr EXCEPT ![t] = y]
      BY <1>1, <2>1, <1>11 DEF QuitClose, Goto
    <2>4. \A c \in Thread : client'[c].fd = client[c].fd
      BY <1>1, <1>11 DEF QuitClose, Goto
    <2> QED
      BY <1>3, <2>2, <2>3, <2>4 DEF Young
  <1>12. CASE \E nick \in Nicks : Nick(t, nick)
    <2>1. PICK nick \in Nicks : Nick(t, nick)
      BY <1>12
    <2>2. CASE Locate(nick) # 0
      BY <1>4, <2>1, <2>2 DEF Nick
    <2>3. CASE ~(Locate(nick) # 0)
      <3>1. PICK y : y = [thr[t] EXCEPT !.pc = "nick", !.nick = nick]
        OBVIOUS
      <3>2. y.fd = thr[t].fd /\ y.pc = "nick"
        BY <1>2, <3>1 DEF ThreadRec
      <3>3. thr' = [thr EXCEPT ![t] = y] /\ client' = client
        BY <1>1, <2>1, <2>3, <3>1 DEF Nick
      <3> QED
        BY <1>3, <3>2, <3>3 DEF Young
    <2> QED
      BY <2>2, <2>3
  <1>13. CASE SetNick(t)
    <2>1. CASE Seek(thr[t].fd) = Null
      BY <1>4, <2>1, <1>13 DEF SetNick, Crash
    <2>2. CASE ~(Seek(thr[t].fd) = Null)
      <3>1. PICK y : y = [thr[t] EXCEPT !.pc = "welcome", !.nick = Null, !.c = Seek(thr[t].fd)]
        OBVIOUS
      <3>2. y.fd = thr[t].fd /\ y.pc = "welcome"
        BY <1>2, <3>1 DEF ThreadRec
      <3>3. thr' = [thr EXCEPT ![t] = y]
        BY <1>1, <2>2, <3>1, <1>13 DEF SetNick
      <3>4. \A c \in Thread : client'[c].fd = client[c].fd
        BY <1>1, <1>2, <2>2, <1>13 DEF SetNick, NickSet, ClientRec
      <3> QED
        BY <1>3, <3>2, <3>3, <3>4 DEF Young
    <2> QED
      BY <2>1, <2>2
  <1>14. CASE User(t)
    <2>1. CASE Seek(thr[t].fd) = Null
      BY <1>4, <2>1, <1>14 DEF User, Crash
    <2>2. CASE ~(Seek(thr[t].fd) = Null)
      <3>1. PICK y : y = [thr[t] EXCEPT !.pc = "welcome", !.c = Seek(thr[t].fd)]
        OBVIOUS
      <3>2. y.fd = thr[t].fd /\ y.pc = "welcome"
        BY <1>2, <3>1 DEF ThreadRec
      <3>3. thr' = [thr EXCEPT ![t] = y]
        BY <1>1, <2>2, <3>1, <1>14 DEF User
      <3>4. \A c \in Thread : client'[c].fd = client[c].fd
        BY <1>1, <1>2, <2>2, <1>14 DEF User, ClientRec
      <3> QED
        BY <1>3, <3>2, <3>3, <3>4 DEF Young
    <2> QED
      BY <2>1, <2>2
  <1>15. CASE Answer(t)
    <2>1. CASE Seek(thr[t].fd) = Null
      BY <1>4, <2>1, <1>15 DEF Answer, Goto, Crash
    <2>2. CASE ~(Seek(thr[t].fd) = Null)
      <3>1. PICK y : y = [thr[t] EXCEPT !.pc = IF thr[t].c = Null THEN "recv" ELSE "motd"]
        OBVIOUS
      <3>2. y.fd = thr[t].fd /\ y.pc \in {"recv", "motd"}
        BY <1>2, <3>1 DEF ThreadRec
      <3>3. thr' = [thr EXCEPT ![t] = y]
        BY <1>1, <2>2, <3>1, <1>15 DEF Answer, Goto
      <3>4. \A c \in Thread : client'[c].fd = client[c].fd
        BY <1>1, <1>2, <2>2, <1>15 DEF Answer, Goto
      <3> QED
        BY <1>3, <3>2, <3>3, <3>4 DEF Young
    <2> QED
      BY <2>1, <2>2
  <1>16. CASE QuitDelete(t)
    <2>1. PICK y : y = [thr[t] EXCEPT !.pc = "close", !.pos = 0]
      OBVIOUS
    <2>2. y.fd = thr[t].fd /\ y.pc = "close"
      BY <1>2, <2>1 DEF ThreadRec
    <2>3. thr' = [thr EXCEPT ![t] = y] /\ client' = client
      BY <1>1, <2>1, <1>16 DEF QuitDelete
    <2> QED
      BY <1>3, <2>2, <2>3 DEF Young
  <1>20. CASE QuitLocate(t)
    <2>1. CASE thr[t].c = Null /\ clientList # <<>>
      BY <1>4, <2>1, <1>20 DEF QuitLocate, Crash
    <2>2. CASE ~(thr[t].c = Null /\ clientList # <<>>)
      <3>1. PICK y : y = [thr[t] EXCEPT !.pc = "delete", !.c = Null, !.pos =
                            IF thr[t].c = Null THEN 0 ELSE Locate(client[thr[t].c].nick)]
        OBVIOUS
      <3>2. y.fd = thr[t].fd /\ y.pc = "delete"
        BY <1>2, <3>1 DEF ThreadRec
      <3>3. thr' = [thr EXCEPT ![t] = y] /\ client' = client
        BY <1>1, <2>2, <3>1, <1>20 DEF QuitLocate
      <3> QED
        BY <1>3, <3>2, <3>3 DEF Young
    <2> QED
      BY <2>1, <2>2
  <1>21. CASE Motd(t)
    <2>1. CASE Seek(thr[t].fd) = Null
      BY <1>4, <2>1, <1>21 DEF Motd, Crash
    <2>2. CASE Seek(thr[t].fd) # Null
      <3>1. PICK y : y = [thr[t] EXCEPT !.pc = "recv", !.c = Null]
        OBVIOUS
      <3>2. y.fd = thr[t].fd /\ y.pc = "recv"
        BY <1>2, <3>1 DEF ThreadRec
      <3>3. thr' = [thr EXCEPT ![t] = y] /\ client' = client
        BY <1>1, <2>2, <3>1, <1>21 DEF Motd
      <3> QED
        BY <1>3, <3>2, <3>3 DEF Young
    <2> QED
      BY <2>1, <2>2
  <1>17. CASE Inform(t)
    <2> QED
      BY <1>4, <1>17 DEF Inform
  <1>18. CASE Welcome(t)
    <2>1. PICK p : p = IF Complete(thr[t].c) THEN "lusers" ELSE "recv"
      OBVIOUS
    <2>2. PICK y : y = [thr[t] EXCEPT !.pc = p,
                                      !.c = IF Complete(thr[t].c) THEN thr[t].c ELSE Null]
      OBVIOUS
    <2>3. y.fd = thr[t].fd /\ y.pc = p /\ p \in {"lusers", "recv"}
      BY <1>2, <2>1, <2>2 DEF ThreadRec
    <2>4. thr' = [thr EXCEPT ![t] = y]
      BY <1>1, <2>1, <2>2, <1>18 DEF Welcome
    <2>5. client' = client \/ client' = [client EXCEPT ![thr[t].c].registered = TRUE]
      BY <1>18 DEF Welcome, Registered
    <2>6. \A c \in Thread : client'[c].fd = client[c].fd
      BY <1>1, <1>2, <2>5 DEF ClientRec
    <2> QED
      BY <1>3, <2>3, <2>4, <2>6 DEF Young
  <1>19. CASE Start(t)
    <2>1. PICK y : y = [thr[t] EXCEPT !.pc = "append", !.fd = handlingSocket]
      OBVIOUS
    <2>2. y.pc = "append"
      BY <1>2, <2>1 DEF ThreadRec
    <2>3. /\ thr' = [thr EXCEPT ![t] = y] /\ thr[t].pc = "start"
          /\ client' = [client EXCEPT ![t] = [NoClient EXCEPT !.fd = handlingSocket]]
      BY <1>1, <2>1, <1>19 DEF Start, Ready
    <2>4. thr'[t] = y /\ \A u \in Thread \ {t} : thr'[u] = thr[u] /\ client'[u] = client[u]
      BY <1>1, <2>3
    <2> QED
      BY <2>2, <2>3, <2>4 DEF Young
  <1> QED
    BY <1>5, <1>6, <1>7, <1>8, <1>9, <1>10, <1>11, <1>12, <1>13, <1>14, <1>15, <1>16, <1>17, <1>18, <1>19, <1>20, <1>21 DEF Serve, Continue

LEMMA ConnectionIsSafe ==
  ASSUME IrcSafe, ChannelSafe, NEW t \in Thread, Connection(t)
  PROVE  ChannelSafe'
  <1>1. /\ ChanTypes /\ Started /\ ListedOnce /\ NamedOnce /\ InOnce
        /\ \A u \in Thread : Fits(u, task[u])
    BY DEF ChannelSafe
  <1>2. /\ task[t] = Idle
        /\ chan' = chan /\ channelList' = channelList /\ listing' = listing /\ task' = task
        /\ misuse' = misuse /\ commands' = commands
        /\ late' = late /\ raced' = raced /\ blind' = blind /\ overlapped' = overlapped
    BY DEF Connection, channelVars
  <1>3. /\ \A u \in Thread \ {t} : thr'[u] = thr[u]
        /\ thr[t].pc \notin {"none", "start"} => thr'[t].fd = thr[t].fd
        /\ thr[t].pc \notin Young => thr'[t].pc \notin Young
        /\ thr'[t].pc \in {"none", "start"} => thr'[t].fd = Null
        /\ \A c \in Thread : thr[c].pc \notin Young => client'[c].fd = client[c].fd
    BY <1>1, ConnectionKeeps DEF Connection, Started
  <1>4. /\ \A k \in Channel : \A i \in 1..Len(chan[k].members) :
             chan[k].members[i] \in Thread /\ FdOf(k, i) \in Fd /\ FdOf(k, i)' = FdOf(k, i)
        /\ Null \notin Fd
    BY <1>1, <1>2, <1>3, ChannelFacts DEF FdOf, Started
  <1>5. \A u \in Thread : thr[u].pc \notin {"none", "start"} => thr'[u].fd = thr[u].fd
    BY <1>3
  <1>6. \A fd \in Fd : Excused(fd) => Excused(fd)'
    <2> SUFFICES ASSUME NEW fd \in Fd, Shares(fd) PROVE Shares(fd)'
      BY <1>2 DEF Excused
    <2>1. PICK u \in Thread, v \in Thread : u # v /\ thr[u].fd = fd /\ thr[v].fd = fd
      BY DEF Shares
    <2>2. thr[u].pc \notin {"none", "start"} /\ thr[v].pc \notin {"none", "start"}
      BY <1>1, <1>4, <2>1 DEF Started
    <2>3. thr'[u].fd = fd /\ thr'[v].fd = fd
      BY <1>5, <2>1, <2>2
    <2> QED
      BY <2>1, <2>3 DEF Shares
  <1>7. ChanTypes' /\ ListedOnce' /\ NamedOnce'
    BY <1>1, <1>2 DEF ChanTypes, ListedOnce, NamedOnce, Distinct, InList
  <1>8. Started'
    <2>1. \A u \in Thread : thr'[u].pc \in {"none", "start"} => thr'[u].fd = Null
      BY <1>1, <1>3 DEF Started
    <2>2. ASSUME NEW k \in Channel, NEW i \in 1..Len(chan[k].members)
          PROVE  /\ thr'[chan[k].members[i]].pc \notin Young
                 /\ client'[chan[k].members[i]].fd \in Fd
      <3>1. PICK c \in Thread : c = chan[k].members[i]
        BY <1>4
      <3>2. thr[c].pc \notin Young /\ client[c].fd \in Fd
        BY <1>1, <3>1 DEF Started
      <3> QED
        BY <1>3, <3>1, <3>2
    <2> QED
      BY <1>2, <2>1, <2>2 DEF Started
  <1>9. InOnce'
    BY <1>1, <1>2, <1>4, <1>6 DEF InOnce
  <1>10. ASSUME NEW u \in Thread
         PROVE  Fits(u, task[u])'
    <2>1. Fits(u, task[u]) /\ task'[u] = task[u]
      BY <1>1, <1>2
    <2>2. CASE u = t
      <3>1. InRole(Idle)' /\ ForItself(u, Idle)' /\ UpToDate(u, Idle)' /\ NotYetIn(Idle)'
        BY DEF InRole, ForItself, UpToDate, NotYetIn, Idle, OnChannel
      <3> QED
        BY <1>2, <2>1, <2>2, <3>1 DEF Fits
    <2>3. CASE u # t
      <3>1. PICK T : T = task[u]
        OBVIOUS
      <3>2. InRole(T) /\ ForItself(u, T) /\ UpToDate(u, T) /\ NotYetIn(T)
        BY <2>1, <3>1 DEF Fits
      <3>3. InRole(T)'
        BY <3>2
      <3>4. ForItself(u, T)'
        BY <1>3, <2>3, <3>2 DEF ForItself
      <3>5. UpToDate(u, T)'
        BY <1>2, <3>2 DEF UpToDate, InList
      <3>6. NotYetIn(T)'
        <4>1. T.pc \in {"check", "count", "enter", "append"} => T.ch \in Channel /\ T.pc # "idle"
          BY <3>2 DEF InRole, OnChannel, Steps
        <4>2. /\ T.pc \in {"count", "enter", "append"} => T.op = "JOIN"
              /\ T.pc # "idle" /\ T.op = "JOIN" => T.fd \in Fd
          BY <3>2 DEF InRole, ForItself
        <4>3. CASE T.pc = "check" /\ T.op = "JOIN" /\ ~T.busy
          <5>1. \A i \in 1..Len(chan[T.ch].members) :
                  i > T.n /\ FdOf(T.ch, i) = T.fd => Excused(T.fd)
            BY <3>2, <4>3 DEF NotYetIn
          <5> QED
            BY <1>2, <1>4, <1>6, <4>1, <4>2, <4>3, <5>1 DEF NotYetIn
        <4>4. CASE T.pc \in {"count", "enter", "append"}
          <5>1. \A i \in 1..Len(chan[T.ch].members) : FdOf(T.ch, i) = T.fd => Excused(T.fd)
            BY <3>2, <4>4 DEF NotYetIn
          <5> QED
            BY <1>2, <1>4, <1>6, <4>1, <4>2, <4>4, <5>1 DEF NotYetIn
        <4> QED
          BY <4>3, <4>4 DEF NotYetIn
      <3> QED
        BY <2>1, <3>1, <3>3, <3>4, <3>5, <3>6 DEF Fits
    <2> QED
      BY <2>2, <2>3
  <1> QED
    BY <1>7, <1>8, <1>9, <1>10 DEF ChannelSafe

LEMMA NothingIsSafe ==
  ASSUME ChannelSafe, thr' = thr, client' = client, UNCHANGED channelVars
  PROVE  ChannelSafe'
  <1>1. /\ chan' = chan /\ channelList' = channelList /\ listing' = listing /\ task' = task
        /\ misuse' = misuse /\ commands' = commands
        /\ late' = late /\ raced' = raced /\ blind' = blind /\ overlapped' = overlapped
    BY DEF channelVars
  <1>2. /\ listing' \in Thread \union {Null} /\ misuse' \in BOOLEAN /\ overlapped' \in BOOLEAN
        /\ commands' \in 0..MaxCommands
    BY <1>1 DEF ChannelSafe, ChanTypes
  <1> QED
    BY <1>1, <1>2, UntouchedIsSafe

-----------------------------------------------------------------------------
(***************************************************************************)
(* Every behaviour.                                                        *)
(***************************************************************************)
LEMMA FreshChannels ==
  ASSUME ChannelInit, channelList = <<>>, chan = [k \in Channel |-> NoChannel],
         commands \in 0..MaxCommands,
         \A t \in Thread : thr[t].pc \in {"none", "start"} => thr[t].fd = Null
  PROVE  ChannelSafe
  <1>1. NoChannel \in ChanRec /\ NoChannel.members = <<>> /\ NoChannel.name = Null
    BY DEF NoChannel, ChanRec
  <1>2. chan \in [Channel -> ChanRec] /\ \A k \in Channel : chan[k].members = <<>>
    BY <1>1
  <1>3. task \in [Thread -> TaskRec] /\ \A t \in Thread : task[t] = Idle /\ Fits(t, task[t])
    BY IdleFits DEF ChannelInit
  <1>4. ChanTypes
    <2>1. channelList \in Seq(Channel)
      OBVIOUS
    <2>2. /\ listing = Null /\ misuse = FALSE /\ overlapped = FALSE
          /\ late = {} /\ raced = {} /\ blind = {}
      BY DEF ChannelInit
    <2> QED
      BY <1>2, <1>3, <2>1, <2>2 DEF ChanTypes
  <1>5. Started
    BY <1>2 DEF Started
  <1>6. ListedOnce /\ NamedOnce
    BY <1>2 DEF ListedOnce, NamedOnce, Distinct, InList
  <1>7. InOnce
    BY <1>2 DEF InOnce
  <1> QED
    BY <1>3, <1>4, <1>5, <1>6, <1>7 DEF ChannelSafe

LEMMA ChannelInitIsSafe ==
  ASSUME ChannelInit
  PROVE  ChannelSafe
  <1>1. CASE Fresh
    <2>1. commands \in 0..MaxCommands
      BY <1>1, ChannelsAssumption DEF Fresh
    <2>2. \A t \in Thread : thr[t].fd = Null
      BY <1>1 DEF Fresh, Init, NoThread
    <2> QED
      BY <1>1, <2>1, <2>2, FreshChannels DEF Fresh
  <1>2. CASE Connected
    <2>1. {1, 2} \subseteq Thread \intersect Fd /\ Null \notin Names
      BY <1>2, ChannelsAssumption DEF Connected
    <2>2. thr = [t \in Thread |->
            IF t \in {1, 2} THEN [NoThread EXCEPT !.pc = "recv", !.fd = t] ELSE NoThread]
      BY <1>2 DEF Connected
    <2>3. \A t \in Thread : IF t \in {1, 2} THEN thr[t].pc = "recv" /\ thr[t].fd = t
                            ELSE thr[t].pc = "none" /\ thr[t].fd = Null
      BY <2>2 DEF NoThread
    <2>4. client[1].fd = 1 /\ client[2].fd = 2
      <3>1. PICK m \in Nicks, n \in Nicks :
              client = [t \in Thread |->
                IF t \in {1, 2} THEN [fd |-> t, nick |-> IF t = 1 THEN m ELSE n,
                                      user |-> TRUE, registered |-> TRUE]
                ELSE NoClient]
        BY <1>2 DEF Connected
      <3>2. 1 \in Thread /\ 2 \in Thread
        BY <2>1
      <3> DEFINE x(t) == IF t = 1 THEN m ELSE n
      <3>3. \A t \in {1, 2} :
              client[t] = [fd |-> t, nick |-> x(t), user |-> TRUE, registered |-> TRUE]
        BY <3>1, <3>2
      <3> HIDE DEF x
      <3>4. \A t \in {1, 2} : client[t].fd = t
        BY <3>3
      <3> QED
        BY <3>4
    <2>5. commands \in 0..MaxCommands
      <3>1. PICK n \in {0, 1} : n <= MaxCommands /\ commands = n
        BY <1>2 DEF Connected
      <3> QED
        BY <3>1, ChannelsAssumption
    <2>6. CASE chan = [k \in Channel |-> NoChannel] /\ channelList = <<>>
      BY <2>3, <2>5, <2>6, FreshChannels
    <2>7. CASE ~(chan = [k \in Channel |-> NoChannel] /\ channelList = <<>>)
      <3>1. PICK x \in Names, y \in Names :
              /\ x # y
              /\ {1, 2} \subseteq Channel
              /\ chan = [k \in Channel |->
                   CASE k = 1 -> [NoChannel EXCEPT !.name = x, !.members = <<1>>, !.nusers = 1]
                     [] k = 2 -> [NoChannel EXCEPT !.name = y, !.members = <<1, 2>>, !.nusers = 2]
                     [] OTHER -> NoChannel]
              /\ channelList = <<1, 2>>
        BY <1>2, <2>7 DEF Connected
      <3>2. PICK p \in Seq(Thread) : p = <<1>> /\ Len(p) = 1 /\ p[1] = 1
        <4>1. 1 \in Thread
          BY <2>1
        <4>2. <<1>> \in Seq(Thread)
          BY <4>1
        <4> QED
          BY <4>2
      <3>3. PICK q \in Seq(Thread) : q = <<1, 2>> /\ Len(q) = 2 /\ q[1] = 1 /\ q[2] = 2
        <4>1. 1 \in Thread /\ 2 \in Thread
          BY <2>1
        <4>2. <<1, 2>> \in Seq(Thread)
          BY <4>1
        <4> QED
          BY <4>2
      <3>4. PICK m \in Int, n \in Int : m = 1 /\ n = 2
        OBVIOUS
      <3>5. PICK a : a = [NoChannel EXCEPT !.name = x, !.members = p, !.nusers = m]
        OBVIOUS
      <3>6. PICK b : b = [NoChannel EXCEPT !.name = y, !.members = q, !.nusers = n]
        OBVIOUS
      <3>7. /\ a \in ChanRec /\ a.name = x /\ a.members = p
            /\ b \in ChanRec /\ b.name = y /\ b.members = q
        BY <3>5, <3>6 DEF NoChannel, ChanRec
      <3>8. /\ NoChannel \in ChanRec /\ NoChannel.members = <<>>
        BY DEF NoChannel, ChanRec
      <3>9. \A k \in Channel : chan[k] = IF k = 1 THEN a ELSE IF k = 2 THEN b ELSE NoChannel
        BY <3>1, <3>2, <3>3, <3>4, <3>5, <3>6
      <3>10. chan \in [Channel -> ChanRec]
        <4>1. chan = [k \in Channel |-> chan[k]]
          BY <3>1
        <4> QED
          BY <3>7, <3>8, <3>9, <4>1
      <3>11. /\ chan[1].name = x /\ chan[1].members = p
             /\ chan[2].name = y /\ chan[2].members = q
             /\ \A k \in Channel : k \notin {1, 2} => Len(chan[k].members) = 0
        <4>1. 1 \in Channel /\ 2 \in Channel /\ Len(<<>>) = 0
          BY <3>1
        <4>2. chan[1] = a /\ chan[2] = b
          BY <3>9, <4>1
        <4>3. \A k \in Channel : k \notin {1, 2} => chan[k] = NoChannel
          BY <3>9
        <4> QED
          BY <3>7, <3>8, <4>1, <4>2, <4>3
      <3>12. task \in [Thread -> TaskRec] /\ \A t \in Thread : task[t] = Idle /\ Fits(t, task[t])
        BY IdleFits DEF ChannelInit
      <3>13. /\ channelList \in Seq(Channel) /\ Len(channelList) = 2
             /\ channelList[1] = 1 /\ channelList[2] = 2
        BY <3>1
      <3>14. \A k : InList(channelList, k) <=> k \in {1, 2}
        BY <3>13 DEF InList
      <3>15. ChanTypes
        BY <2>5, <3>10, <3>12, <3>13 DEF ChanTypes, ChannelInit
      <3>16. \A k \in Channel : \A i \in 1..Len(chan[k].members) :
               i \in {1, 2} /\ chan[k].members[i] = i
        <4> TAKE k \in Channel
        <4>1. CASE k = 1
          BY <3>2, <3>11, <4>1
        <4>2. CASE k = 2
          <5>1. chan[k].members = q /\ Len(q) = 2
            BY <3>3, <3>11, <4>2
          <5>2. \A i \in 1..2 : i = 1 \/ i = 2
            OBVIOUS
          <5> QED
            BY <3>3, <5>1, <5>2
        <4>3. CASE k \notin {1, 2}
          BY <3>11, <4>3
        <4> QED
          BY <4>1, <4>2, <4>3
      <3>17. Started
        <4>1. thr[1].pc \notin Young /\ thr[2].pc \notin Young
          BY <2>1, <2>3 DEF Young
        <4> QED
          BY <2>1, <2>3, <2>4, <3>16, <4>1 DEF Started
      <3>18. ListedOnce /\ NamedOnce
        BY <3>1, <3>11, <3>13, <3>14 DEF ListedOnce, NamedOnce, Distinct
      <3>19. InOnce
        BY <2>4, <3>16 DEF InOnce, FdOf
      <3> QED
        BY <3>12, <3>15, <3>17, <3>18, <3>19 DEF ChannelSafe
    <2> QED
      BY <2>6, <2>7
  <1> QED
    BY <1>1, <1>2 DEF ChannelInit

LEMMA ChannelNextIsSafe ==
  ASSUME IrcSafe, ChannelSafe, ChannelNext
  PROVE  ChannelSafe'
  <1>1. CASE ~misuse /\ AcceptFails /\ UNCHANGED channelVars
    BY <1>1, NothingIsSafe DEF AcceptFails
  <1>2. ASSUME NEW t \in Thread, Connection(t) PROVE ChannelSafe'
    BY <1>2, ConnectionIsSafe
  <1>3. ASSUME NEW t \in Thread, NEW op \in Commands, NEW name \in Names, Command(t, op, name)
        PROVE  ChannelSafe'
    <2>1. op \in Commands /\ name \in Names
      OBVIOUS
    <2> QED
      BY <1>3, <2>1, CommandIsSafe
  <1>4. ASSUME NEW t \in Thread, NEW op \in {"NAMES", "LIST"}, Command(t, op, Null)
        PROVE  ChannelSafe'
    BY <1>4, CommandIsSafe
  <1>5. ASSUME NEW t \in Thread, Handle(t)
        PROVE  ChannelSafe'
    <2>0. CASE LocateHalfway(t) \/ GetHalfway(t) \/ Astray(t)
      BY <2>0, LocateHalfwayIsSafe, GetHalfwayIsSafe, AstrayIsSafe
    <2>1. CASE FindLocate(t) \/ FindGet(t) \/ Create(t) \/ Link(t) \/ Copy(t) \/ Check(t)
      BY <2>1, FindLocateIsSafe, FindGetIsSafe, CreateIsSafe, LinkIsSafe, CopyIsSafe, CheckIsSafe
    <2>2. CASE JoinRead(t) \/ JoinWrite(t) \/ JoinAppend(t)
      BY <2>2, JoinReadIsSafe, JoinWriteIsSafe, JoinAppendIsSafe
    <2>3. CASE MessageCopy(t) \/ MessageAll(t) \/ Show(t)
      BY <2>3, MessageCopyIsSafe, MessageAllIsSafe, ShowIsSafe
    <2>4. CASE TopicFree(t) \/ TopicReplace(t)
      BY <2>4, TopicFreeIsSafe, TopicReplaceIsSafe
    <2>5. CASE Member(t)
      <3>1. IrcTypes
        BY DEF IrcSafe
      <3> QED
        BY <2>5, <3>1, MemberIsSafe
    <2>6. CASE Remove(t) \/ LeaveRead(t) \/ LeaveWrite(t)
      BY <2>6, RemoveIsSafe, LeaveReadIsSafe, LeaveWriteIsSafe
    <2>7. CASE Empty(t) \/ Destroy(t)
      BY <2>7, EmptyIsSafe, DestroyIsSafe
    <2>8. CASE NamesStart(t) \/ NamesStop(t)
      BY <2>8, NamesStartIsSafe, NamesStopIsSafe
    <2>9. CASE Iterate(t) \/ Each(t) \/ IterateEnd(t)
      BY <2>9, IterateIsSafe, EachIsSafe, IterateEndIsSafe
    <2> QED
      BY <1>5, <2>0, <2>1, <2>2, <2>3, <2>4, <2>5, <2>6, <2>7, <2>8, <2>9 DEF Handle
  <1> QED
    BY <1>1, <1>2, <1>3, <1>4, <1>5 DEF ChannelNext

LEMMA SafeIsOnce ==
  ASSUME ChannelSafe
  PROVE  ChannelTypeOK /\ NameOnce /\ MemberOnce
  <1>1. ChanTypes /\ ListedOnce /\ NamedOnce /\ InOnce
    BY DEF ChannelSafe
  <1>2. ChannelTypeOK
    <2>1. DOMAIN chan = Channel /\ \A k \in Channel : chan[k] \in ChanRec
      BY <1>1 DEF ChanTypes
    <2> QED
      BY <1>1, <2>1 DEF ChannelTypeOK, ChanTypes, ChanRec
  <1>3. NameOnce
    <2> SUFFICES ASSUME NEW i \in DOMAIN channelList, NEW j \in DOMAIN channelList, i # j,
                        chan[channelList[i]].name = chan[channelList[j]].name
                 PROVE  chan[channelList[i]].name \in raced
      BY DEF NameOnce
    <2>1. /\ i \in 1..Len(channelList) /\ j \in 1..Len(channelList)
          /\ channelList[i] \in Channel /\ channelList[j] \in Channel
      BY <1>1, ChannelFacts
    <2>2. channelList[i] # channelList[j]
      BY <1>1, <2>1 DEF ListedOnce, Distinct
    <2>3. InList(channelList, channelList[i]) /\ InList(channelList, channelList[j])
      BY <2>1 DEF InList
    <2> QED
      BY <1>1, <2>1, <2>2, <2>3 DEF NamedOnce
  <1>4. MemberOnce
    <2> SUFFICES ASSUME NEW k \in Channel, NEW i \in DOMAIN chan[k].members,
                        NEW j \in DOMAIN chan[k].members, i # j, FdOf(k, j) = FdOf(k, i)
                 PROVE  Excused(FdOf(k, i))
      BY DEF MemberOnce, FdOf, Excused, Shares
    <2>1. i \in 1..Len(chan[k].members) /\ j \in 1..Len(chan[k].members)
      BY <1>1, ChannelFacts
    <2> QED
      BY <1>1, <2>1 DEF InOnce
  <1> QED
    BY <1>2, <1>3, <1>4

LEMMA AlwaysSafe == ChannelSpec => [](IrcSafe /\ ChannelSafe)
  <1>1. ChannelInit => IrcSafe /\ ChannelSafe
    BY InitIsSafe, ConnectedIsSafe, ChannelInitIsSafe DEF ChannelInit, Fresh
  <1>2. IrcSafe /\ ChannelSafe /\ [ChannelNext]_<<vars, channelVars>> => (IrcSafe /\ ChannelSafe)'
    <2>1. ASSUME IrcSafe, ChannelSafe, ChannelNext PROVE IrcSafe' /\ ChannelSafe'
      BY <2>1, ChannelNextIsNext, NextIsSafe, CrashSafe, ChannelNextIsSafe
    <2>2. ASSUME IrcSafe, ChannelSafe, UNCHANGED <<vars, channelVars>>
          PROVE  IrcSafe' /\ ChannelSafe'
      <3>1. thr' = thr /\ client' = client /\ UNCHANGED channelVars
        BY <2>2 DEF vars
      <3> QED
        BY <2>2, <3>1, NextIsSafe, NothingIsSafe
    <2> QED
      BY <2>1, <2>2
  <1> QED
    BY <1>1, <1>2, PTL DEF ChannelSpec

(* However the handlers interleave, two listed channels have one name only *)
(* if the list had changed between a JOIN's lookup of the name and its     *)
(* addition, or was being changed while it looked (findChannel takes no    *)
(* lock in common with createChannel).                                     *)
THEOREM ChannelNamesAreShared == ChannelSpec => []NameOnce
  <1>1. ChannelSafe => NameOnce
    BY SafeIsOnce
  <1> QED
    BY <1>1, AlwaysSafe, PTL

(* A descriptor is twice among the members of a channel only if two        *)
(* threads serve it or it joined while NAMES iterated the members          *)
(* (isUserInChannel, pairUserWithChannel).                                 *)
THEOREM MembersAreListedOnce == ChannelSpec => []MemberOnce
  <1>1. ChannelSafe => MemberOnce
    BY SafeIsOnce
  <1> QED
    BY <1>1, AlwaysSafe, PTL
-----------------------------------------------------------------------------
(***************************************************************************)
(* Channels: as long as no PART and no TOPIC runs beside another handler,  *)
(* and no lookup goes wrong beside an addition that is half done.          *)
(***************************************************************************)

(* The channels are as they were, but for who reads them.                  *)
Kept(k) ==
  /\ chan'[k].name = chan[k].name /\ chan'[k].members = chan[k].members
  /\ chan'[k].nusers = chan[k].nusers /\ chan'[k].freed = chan[k].freed
  /\ chan'[k].topic = chan[k].topic

(* Who is in no handler knows nothing.                                     *)
LEMMA IdleKnows ==
  ASSUME NEW y, y.pc = "idle"
  PROVE  Knows(y) /\ Knows(y)'
  <1>1. Knows(y)
    BY DEF Knows, Present, Measured, Parting, OnChannel
  <1>2. Knows(y)'
    BY DEF Knows, Present, Measured, Parting, OnChannel
  <1> QED
    BY <1>1, <1>2

(* What a handler knows stays true while the channels are as they were.    *)
LEMMA KnowsAgain ==
  ASSUME NEW y, Knows(y), y.pc \in OnChannel => y.ch \in Channel,
         channelList \in Seq(Channel), channelList' = channelList, client' = client,
         \A k \in Channel : Kept(k) /\ Entering(k)' = Entering(k)
  PROVE  Knows(y)'
  <1>1. Present(y)'
    BY DEF Knows, Present, Kept, OnChannel, Steps
  <1>2. Measured(y)'
    BY DEF Knows, Measured, Kept, OnChannel, Steps
  <1>3. Parting(y)'
    <2>1. \A i, name : IsFirst(i, name)' <=> IsFirst(i, name)
      <3>1. \A i \in 1..Len(channelList) : channelList[i] \in Channel
        OBVIOUS
      <3>2. ASSUME NEW i \in 1..Len(channelList), NEW j \in 1..(i - 1)
            PROVE  j \in 1..Len(channelList)
        BY Len(channelList) \in Nat
      <3>3. \A i \in 1..Len(channelList) : chan'[channelList[i]].name = chan[channelList[i]].name
        BY <3>1 DEF Kept
      <3> QED
        BY <3>2, <3>3 DEF IsFirst
    <2>2. y.pc \in OnChannel => (HasMember(y)' <=> HasMember(y))
      BY DEF HasMember, FdOf, Kept
    <2> QED
      BY <2>1, <2>2 DEF Knows, Parting, Kept, OnChannel, Steps
  <1> QED
    BY <1>1, <1>2, <1>3 DEF Knows

(* A step of a handler that changes nothing of the channels but who reads  *)
(* them.                                                                   *)
LEMMA QuietOrder ==
  ASSUME ChannelSafe, Order, NEW t \in Thread, NEW y \in TaskRec,
         task' = [task EXCEPT ![t] = y], \A k \in Channel : Kept(k),
         channelList' = channelList, misuse' = misuse, client' = client,
         task[t].pc \notin {"idle", "append", "replace", "leave", "left", "empty", "destroy"},
         y.pc # "append",
         y.pc # "idle" /\ y.op \in Freeing => task[t].op \in Freeing,
         listing' \in {listing, Null, t},
         listing' = t => y.pc \in {"each", "names", "naming", "show"} /\ y.name = Null,
         \A k \in Channel : /\ chan'[k].reader \in {chan[k].reader, Null, t}
                            /\ chan'[k].reader = t => y.pc = "naming" /\ y.ch = k
                            /\ Carries(task[t], k) => chan[k].members # <<>> \/ Carries(y, k),
         InRole(y), Knows(y)
  PROVE  Order'
  <1>0. ChanTypes /\ \A u \in Thread : InRole(task[u])
    BY DEF ChannelSafe, Fits
  <1>1. /\ ~misuse /\ Alone /\ Iterating /\ Valid /\ UsersCounted /\ Peopled
        /\ \A u \in Thread : Knows(task[u])
    BY DEF Order
  <1>2. /\ task'[t] = y /\ \A u \in Thread : u # t => task'[u] = task[u]
        /\ Null \notin Thread /\ channelList \in Seq(Channel)
    BY <1>0, ChannelFacts DEF ChanTypes
  <1>3. Alone'
    <2>1. ASSUME NEW u \in Thread, NEW v \in Thread, u # v, Active(u)', Active(v)'
          PROVE  task'[u].op \notin Freeing
      <3>1. Active(u) /\ Active(v) /\ task'[u].pc # "idle"
        BY <1>2, <2>1 DEF Active
      <3>2. task[u].op \notin Freeing
        BY <1>1, <2>1, <3>1 DEF Alone
      <3>3. CASE u = t
        BY <1>2, <3>1, <3>2, <3>3
      <3>4. CASE u # t
        BY <1>2, <3>2, <3>4
      <3> QED
        BY <3>3, <3>4
    <2> QED
      BY <2>1 DEF Alone
  <1>4. Iterating'
    <2>1. ASSUME NEW u \in Thread, listing' = u
          PROVE  task'[u].pc \in {"each", "names", "naming", "show"} /\ task'[u].name = Null
      BY <1>1, <1>2, <2>1 DEF Iterating
    <2>2. ASSUME NEW k \in Channel, NEW u \in Thread, chan'[k].reader = u
          PROVE  task'[u].pc = "naming" /\ task'[u].ch = k
      BY <1>1, <1>2, <2>2 DEF Iterating
    <2> QED
      BY <2>1, <2>2 DEF Iterating
  <1>5. Valid'
    <2>1. ASSUME NEW k \in Channel, chan[k].topic = "freed"
          PROVE  \E u \in Thread : task'[u].pc = "replace" /\ task'[u].ch = k
      BY <1>1, <1>2, <2>1 DEF Valid
    <2> QED
      BY <1>1, <2>1 DEF Valid, InList, Kept
  <1>6. \A k : Entering(k)' = Entering(k)
    BY <1>2 DEF Entering
  <1>7. \A u \in Thread : task[u].pc \in {"leave", "left", "empty", "destroy"} =>
          task'[u] = task[u]
    BY <1>2
  <1>8. UsersCounted'
    <2>1. \A k : /\ Removing(k, {"leave", "left"}) => Removing(k, {"leave", "left"})'
                 /\ Removing(k, {"empty", "destroy"}) => Removing(k, {"empty", "destroy"})'
      BY <1>7 DEF Removing
    <2> QED
      BY <1>1, <1>6, <2>1 DEF UsersCounted, Kept
  <1>9. Peopled'
    <2>1. ASSUME NEW k \in Channel, NEW u \in Thread, Carries(task[u], k)
          PROVE  chan[k].members # <<>> \/ Carries(task'[u], k)
      BY <1>2, <2>1
    <2>2. \A k \in Channel : InList(channelList, k) =>
            chan[k].members # <<>> \/ \E u \in Thread : Carries(task'[u], k)
      BY <1>1, <2>1 DEF Peopled
    <2>3. \A k \in Channel, u \in Thread : Carries(task[u], k)' <=> Carries(task'[u], k)
      BY DEF Carries
    <2> QED
      BY <2>2, <2>3 DEF Peopled, InList, Kept
  <1>10. ASSUME NEW u \in Thread PROVE Knows(task[u])'
    <2>1. PICK z : z = task'[u]
      OBVIOUS
    <2>2. Knows(z) /\ InRole(z)
      BY <1>0, <1>1, <1>2, <2>1
    <2>3. z.pc \in OnChannel => z.ch \in Channel
      BY <2>2 DEF InRole
    <2>4. Knows(z)'
      BY <1>2, <1>6, <2>2, <2>3, KnowsAgain
    <2> QED
      BY <2>1, <2>4
  <1> QED
    BY <1>1, <1>3, <1>4, <1>5, <1>8, <1>9, <1>10 DEF Order

(* The end of a handler.                                                   *)
LEMMA EndOrder ==
  ASSUME ChannelSafe, Order, NEW t \in Thread, Ends(t), \A k \in Channel : Kept(k),
         channelList' = channelList, misuse' = misuse, client' = client,
         task[t].pc \notin {"idle", "append", "replace", "leave", "left", "empty", "destroy"},
         listing' \in {listing, Null}, listing' # t,
         \A k \in Channel : /\ chan'[k].reader \in {chan[k].reader, Null}
                            /\ chan'[k].reader # t
                            /\ Carries(task[t], k) => chan[k].members # <<>>
  PROVE  Order'
  <1>1. PICK y \in TaskRec : y = Idle /\ Fits(t, y)
    BY IdleFits
  <1>2. y.pc = "idle" /\ InRole(y)
    BY <1>1 DEF Idle, Fits
  <1>3. Knows(y)
    BY <1>2, IdleKnows
  <1>4. task' = [task EXCEPT ![t] = y] /\ y.pc # "append"
    BY <1>1, <1>2 DEF Ends
  <1> QED
    BY <1>2, <1>3, <1>4, QuietOrder

(* Nothing changes, or nobody iterates the list any more.                  *)
LEMMA SameOrder ==
  ASSUME ChannelSafe, Order, chan' = chan, channelList' = channelList, task' = task,
         listing' \in {listing, Null}, misuse' = misuse, client' = client
  PROVE  Order'
  <1>0. ChanTypes /\ \A u \in Thread : InRole(task[u])
    BY DEF ChannelSafe, Fits
  <1>1. /\ ~misuse /\ Alone /\ Iterating /\ Valid /\ UsersCounted /\ Peopled
        /\ \A u \in Thread : Knows(task[u])
    BY DEF Order
  <1>2. Alone' /\ Valid'
    BY <1>1 DEF Alone, Active, Valid, InList
  <1>3. Iterating'
    BY <1>0, <1>1, ChannelFacts DEF Iterating
  <1>4. \A k : Entering(k)' = Entering(k) /\ Kept(k)
    BY DEF Entering, Kept
  <1>5. UsersCounted' /\ Peopled'
    BY <1>1, <1>4 DEF UsersCounted, Removing, Peopled, Carries, InList
  <1>6. ASSUME NEW u \in Thread PROVE Knows(task[u])'
    <2>1. PICK z : z = task[u]
      OBVIOUS
    <2>2. z.pc \in OnChannel => z.ch \in Channel
      BY <1>0, <2>1 DEF InRole
    <2>3. channelList \in Seq(Channel)
      BY <1>0 DEF ChanTypes
    <2>4. Knows(z)'
      BY <1>1, <1>4, <2>1, <2>2, <2>3, KnowsAgain
    <2> QED
      BY <2>1, <2>4
  <1> QED
    BY <1>1, <1>2, <1>3, <1>5, <1>6 DEF Order

(* What is known when a handler takes a step.                              *)
LEMMA HandlerFacts ==
  ASSUME ChannelSafe, Order, NEW t \in Thread
  PROVE  /\ task[t] \in TaskRec /\ task \in [Thread -> TaskRec]
         /\ InRole(task[t]) /\ Knows(task[t])
         /\ Null \notin Thread /\ channelList \in Seq(Channel)
         /\ \A i \in 1..Len(channelList) : channelList[i] \in Channel
         /\ \A k \in Channel : /\ Len(chan[k].members) \in Nat /\ chan[k].nusers \in Int
                               /\ chan[k].members \in Seq(Thread)
                               /\ InList(channelList, k) => ~chan[k].freed
         /\ task[t].pc \notin {"each", "names", "naming", "show"} => listing # t
         /\ task[t].name # Null => listing # t
         /\ task[t].pc # "naming" => \A k \in Channel : chan[k].reader # t
  <1>1. ChanTypes /\ InRole(task[t]) /\ Knows(task[t]) /\ Valid /\ Iterating
    BY DEF ChannelSafe, Fits, Order
  <1>2. /\ task[t] \in TaskRec /\ task \in [Thread -> TaskRec]
        /\ Null \notin Thread /\ channelList \in Seq(Channel)
        /\ \A i \in 1..Len(channelList) : channelList[i] \in Channel
        /\ \A k \in Channel : /\ Len(chan[k].members) \in Nat /\ chan[k] \in ChanRec
                              /\ chan[k].members \in Seq(Thread)
    BY <1>1, ChannelFacts DEF ChanTypes
  <1>3. \A k \in Channel : chan[k].nusers \in Int
    BY <1>2 DEF ChanRec
  <1>4. \A k \in Channel : InList(channelList, k) => ~chan[k].freed
    BY <1>1 DEF Valid
  <1>5. /\ task[t].pc \notin {"each", "names", "naming", "show"} => listing # t
        /\ task[t].name # Null => listing # t
        /\ task[t].pc # "naming" => \A k \in Channel : chan[k].reader # t
    BY <1>1 DEF Iterating
  <1> QED
    BY <1>1, <1>2, <1>3, <1>4, <1>5

(* The others of a PART or a TOPIC are in no handler.                      *)
LEMMA OthersIdle ==
  ASSUME Order, NEW t \in Thread, task[t].pc # "idle", task[t].op \in Freeing
  PROVE  \A u \in Thread : u # t => task[u].pc = "idle"
  BY DEF Order, Alone, Active

(* No topic is freed beside another handler.                               *)
LEMMA TopicIsSet ==
  ASSUME ChannelSafe, Order, NEW t \in Thread, task[t].pc \notin {"idle", "replace"},
         NEW k \in Channel
  PROVE  chan[k].topic # "freed"
  <1>1. SUFFICES ASSUME chan[k].topic = "freed" PROVE FALSE
    OBVIOUS
  <1>2. PICK u \in Thread : task[u].pc = "replace"
    BY <1>1 DEF Order, Valid
  <1>3. task[u].op = "TOPIC"
    BY <1>2 DEF ChannelSafe, Fits, InRole
  <1>4. t # u /\ task[u].op \in Freeing
    BY <1>2, <1>3 DEF Freeing
  <1> QED
    BY <1>2, <1>4, OthersIdle

(* Nobody is about to count the user that another handler has removed.     *)
LEMMA NotRemoving ==
  ASSUME ChannelSafe, Order, NEW t \in Thread,
         task[t].pc \notin {"idle", "leave", "left", "empty", "destroy"}, NEW k
  PROVE  /\ ~Removing(k, {"leave", "left"}) /\ ~Removing(k, {"empty", "destroy"})
  <1>1. SUFFICES ASSUME NEW u \in Thread, task[u].pc \in {"leave", "left", "empty", "destroy"}
                 PROVE  FALSE
    BY DEF Removing
  <1>2. task[u].op = "REMOVE"
    BY <1>1 DEF ChannelSafe, Fits, InRole
  <1>3. t # u /\ task[u].op \in Freeing
    BY <1>1, <1>2 DEF Freeing
  <1> QED
    BY <1>1, <1>3, OthersIdle

LEMMA NothingKept ==
  ASSUME UNCHANGED lists
  PROVE  /\ \A k \in Channel : Kept(k) /\ chan'[k].reader = chan[k].reader
         /\ channelList' = channelList /\ listing' = listing /\ chan' = chan
  BY DEF lists, Kept

(* The copy of a list that nobody iterates is as long as the list.         *)
LEMMA CopiedOrder ==
  ASSUME ChannelSafe, Order, NEW t \in Thread, NEW label \in {"check", "send"},
         task[t].pc = IF label = "check" THEN "copy" ELSE "head",
         task' = Copied(t, label), UNCHANGED lists, misuse' = misuse, client' = client
  PROVE  Order'
  <1>1. /\ task[t] \in TaskRec /\ task \in [Thread -> TaskRec]
        /\ InRole(task[t]) /\ Knows(task[t]) /\ listing # t
        /\ \A k \in Channel : Len(chan[k].members) \in Nat /\ chan[k].reader # t
    BY HandlerFacts
  <1>2. task[t].ch \in Channel /\ ~chan[task[t].ch].freed
    BY <1>1 DEF InRole, Knows, Present, OnChannel, Steps
  <1>3. PICK x \in TaskRec : x = task[t]
    BY <1>1
  <1>4. PICK n \in Int : n = Len(chan[x.ch].members)
    BY <1>1, <1>2, <1>3
  <1>5. PICK b \in BOOLEAN : b = ~MembersUnlocked(t)
    OBVIOUS
  <1>6. PICK y : y = [x EXCEPT !.pc = label, !.n = n, !.busy = b]
    OBVIOUS
  <1>7. /\ y \in TaskRec /\ y.pc = label /\ y.n = n /\ y.busy = b
        /\ y.op = x.op /\ y.name = x.name /\ y.fd = x.fd /\ y.ch = x.ch
    <2>1. CASE b = TRUE
      BY <1>6, <2>1 DEF TaskRec, Steps
    <2>2. CASE b = FALSE
      BY <1>6, <2>2 DEF TaskRec, Steps
    <2> QED
      BY <2>1, <2>2
  <1>8. task' = [task EXCEPT ![t] = y]
    BY <1>1, <1>3, <1>4, <1>5, <1>6 DEF Copied
  <1>9. x.op \in {"PART", "REMOVE"} => b = FALSE
    <2>1. ASSUME x.op \in {"PART", "REMOVE"}, NEW u \in Thread, chan[x.ch].reader = u
          PROVE  FALSE
      <3>1. task[u].pc = "naming"
        BY <1>2, <1>3, <2>1 DEF Order, Iterating
      <3>2. task[u].pc = "idle"
        BY <1>1, <1>2, <1>3, <2>1, OthersIdle DEF Freeing
      <3> QED
        BY <3>1, <3>2
    <2>2. chan[x.ch].reader \in Thread \union {Null}
      BY <1>2, <1>3, ChannelFacts DEF ChannelSafe, ChanRec
    <2> QED
      BY <1>3, <1>5, <2>1, <2>2 DEF MembersUnlocked
  <1>10. Present(y) /\ Measured(y)
    BY <1>1, <1>2, <1>3, <1>4, <1>7 DEF Present, Measured
  <1>11. Parting(y)
    <2>1. Parting(x) /\ x.pc \in OnChannel
      BY <1>1, <1>3 DEF Knows, OnChannel, Steps
    <2>2. HasMember(y) <=> HasMember(x)
      BY <1>7 DEF HasMember
    <2> QED
      BY <1>3, <1>4, <1>7, <1>9, <2>1, <2>2 DEF Parting
  <1>12. InRole(y)
    BY <1>1, <1>2, <1>3, <1>7 DEF InRole, OnChannel, Steps
  <1>13. \A k : Carries(task[t], k) => Carries(y, k)
    BY <1>3, <1>7 DEF Carries
  <1>14. y.pc # "idle" /\ y.op \in Freeing => task[t].op \in Freeing
    BY <1>3, <1>7
  <1>15. /\ \A k \in Channel : Kept(k) /\ chan'[k].reader = chan[k].reader
         /\ channelList' = channelList /\ listing' = listing
    BY NothingKept
  <1>16. Knows(y)
    BY <1>10, <1>11 DEF Knows
  <1>17. /\ y.pc # "append" /\ listing' \in {listing, Null, t} /\ listing' # t
         /\ task[t].pc \notin {"idle", "append", "replace", "leave", "left", "empty", "destroy"}
         /\ \A k \in Channel : /\ chan'[k].reader \in {chan[k].reader, Null, t}
                               /\ chan'[k].reader = t => y.pc = "naming" /\ y.ch = k
                               /\ Carries(task[t], k) => chan[k].members # <<>> \/ Carries(y, k)
    BY <1>1, <1>7, <1>13, <1>15
  <1> QED
    BY <1>7, <1>8, <1>12, <1>14, <1>15, <1>16, <1>17, QuietOrder

LEMMA CopyOrder ==
  ASSUME ChannelSafe, Order, NEW t \in Thread, Copy(t)
  PROVE  Order'
  BY CopiedOrder DEF Copy, At, vars

LEMMA MessageCopyOrder ==
  ASSUME ChannelSafe, Order, NEW t \in Thread, MessageCopy(t)
  PROVE  Order'
  BY CopiedOrder DEF MessageCopy, At, Quietly, vars

(* A step that leaves the lists alone.                                     *)
LEMMA MoveOrder ==
  ASSUME ChannelSafe, Order, NEW t \in Thread, NEW y \in TaskRec,
         task' = [task EXCEPT ![t] = y], UNCHANGED lists, misuse' = misuse, client' = client,
         task[t].pc \notin {"idle", "append", "replace", "leave", "left", "empty", "destroy",
                            "naming"},
         y.pc # "append",
         y.pc # "idle" /\ y.op \in Freeing => task[t].op \in Freeing,
         listing = t => y.pc \in {"each", "names", "naming", "show"} /\ y.name = Null,
         \A k \in Channel : Carries(task[t], k) => chan[k].members # <<>> \/ Carries(y, k),
         InRole(y), Knows(y)
  PROVE  Order'
  <1>1. /\ \A k \in Channel : Kept(k) /\ chan'[k].reader = chan[k].reader
        /\ channelList' = channelList /\ listing' = listing
    BY NothingKept
  <1>2. \A k \in Channel : chan[k].reader # t
    BY HandlerFacts
  <1>3. /\ listing' \in {listing, Null, t}
        /\ listing' = t => y.pc \in {"each", "names", "naming", "show"} /\ y.name = Null
        /\ \A k \in Channel : /\ chan'[k].reader \in {chan[k].reader, Null, t}
                              /\ chan'[k].reader = t => y.pc = "naming" /\ y.ch = k
                              /\ Carries(task[t], k) => chan[k].members # <<>> \/ Carries(y, k)
    BY <1>1, <1>2
  <1> QED
    BY <1>1, <1>3, QuietOrder

LEMMA StopOrder ==
  ASSUME ChannelSafe, Order, NEW t \in Thread, Ends(t), UNCHANGED lists,
         misuse' = misuse, client' = client, listing # t,
         task[t].pc \notin {"idle", "append", "replace", "leave", "left", "empty", "destroy",
                            "naming"},
         \A k \in Channel : Carries(task[t], k) => chan[k].members # <<>>
  PROVE  Order'
  <1>1. /\ \A k \in Channel : Kept(k) /\ chan'[k].reader = chan[k].reader
        /\ channelList' = channelList /\ listing' = listing
    BY NothingKept
  <1>2. \A k \in Channel : chan[k].reader # t
    BY HandlerFacts
  <1>3. /\ listing' \in {listing, Null} /\ listing' # t
        /\ \A k \in Channel : /\ chan'[k].reader \in {chan[k].reader, Null}
                              /\ chan'[k].reader # t
                              /\ Carries(task[t], k) => chan[k].members # <<>>
    BY <1>1, <1>2
  <1> QED
    BY <1>1, <1>3, EndOrder

LEMMA CrashOrder ==
  ASSUME ChannelSafe, Order, Crash, UNCHANGED <<lists, task, misuse>>
  PROVE  Order'
  <1>1. /\ chan' = chan /\ channelList' = channelList /\ task' = task /\ misuse' = misuse
        /\ listing' \in {listing, Null} /\ client' = client
    BY DEF Crash, lists
  <1> QED
    BY <1>1, SameOrder

LEMMA MessageAllOrder ==
  ASSUME ChannelSafe, Order, NEW t \in Thread, MessageAll(t)
  PROVE  Order'
  <1>1. /\ task[t] \in TaskRec /\ task \in [Thread -> TaskRec]
        /\ InRole(task[t]) /\ Knows(task[t])
        /\ \A k \in Channel : Len(chan[k].members) \in Nat
    BY HandlerFacts
  <1>2. task[t].pc = "send"
    BY DEF MessageAll, At
  <1>3. /\ task[t].ch \in Channel /\ ~chan[task[t].ch].freed /\ listing # t
        /\ task[t].n \in 0..Len(chan[task[t].ch].members)
        /\ task[t].op \in {"JOIN", "PART", "PRIVMSG", "NOTICE", "TOPIC", "MODE"}
    BY <1>1, <1>2, HandlerFacts DEF InRole, Knows, Present, Measured, OnChannel, Steps
  <1>4. ~(Gone(t) \/ task[t].n > Len(chan[task[t].ch].members))
    BY <1>1, <1>3 DEF Gone
  <1>5. PICK x \in TaskRec : x = task[t]
    BY <1>1
  <1>6. PICK z : z = [x EXCEPT !.n = 0, !.busy = FALSE]
    OBVIOUS
  <1>7. /\ z \in TaskRec /\ z.pc = x.pc /\ z.op = x.op /\ z.name = x.name /\ z.fd = x.fd
        /\ z.ch = x.ch
    <2>1. 0 \in Int
      OBVIOUS
    <2> QED
      BY <1>6, <2>1 DEF TaskRec
  <1>8. /\ task' = [task EXCEPT ![t] = CASE z.op = "JOIN" -> [z EXCEPT !.pc = "show"]
                                         [] z.op = "PART" -> [z EXCEPT !.pc = "copy", !.op = "REMOVE"]
                                         [] OTHER         -> Idle]
        /\ UNCHANGED lists /\ misuse' = misuse /\ client' = client
    <2>1. z = [task[t] EXCEPT !.n = 0, !.busy = FALSE] /\ z.ch = task[t].ch
      BY <1>5, <1>6, <1>7
    <2>2. ~(~task[t].busy /\ (Gone(t) \/ task[t].n > Len(chan[z.ch].members)))
      BY <1>4, <2>1
    <2> QED
      BY <2>1, <2>2 DEF MessageAll, Quietly, vars
  <1>9. \A k \in Channel : ~Carries(task[t], k)
    BY <1>2 DEF Carries
  <1>10. Knows(x) /\ x.pc = "send" /\ InRole(x)
    BY <1>1, <1>2, <1>5
  <1>11. CASE x.op = "JOIN"
    <2>1. PICK y : y = [z EXCEPT !.pc = "show"]
      OBVIOUS
    <2>2. /\ y \in TaskRec /\ y.pc = "show" /\ y.op = "JOIN" /\ y.name = x.name /\ y.ch = x.ch
      BY <1>7, <1>11, <2>1 DEF TaskRec, Steps
    <2>3. task' = [task EXCEPT ![t] = y]
      BY <1>7, <1>8, <1>11, <2>1
    <2>4. Knows(y)
      BY <1>3, <1>5, <2>2 DEF Knows, Present, Measured, Parting
    <2>5. x.name \in Names /\ x.ch \in Channel
      BY <1>3, <1>5, <1>10, <1>11 DEF InRole
    <2>6. InRole(y)
      BY <2>2, <2>5, ChannelsAssumption DEF InRole, OnChannel, Steps
    <2> QED
      BY <1>2, <1>3, <1>8, <1>9, <2>2, <2>3, <2>4, <2>6, MoveOrder DEF Freeing
  <1>12. CASE x.op = "PART"
    <2>1. PICK y : y = [z EXCEPT !.pc = "copy", !.op = "REMOVE"]
      OBVIOUS
    <2>2. /\ y \in TaskRec /\ y.pc = "copy" /\ y.op = "REMOVE" /\ y.name = x.name
          /\ y.ch = x.ch /\ y.fd = x.fd
      BY <1>7, <2>1 DEF TaskRec, Steps, Ops
    <2>3. task' = [task EXCEPT ![t] = y]
      BY <1>7, <1>8, <1>12, <2>1
    <2>4. Knows(y)
      <3>1. HasMember(x) <=> HasMember(y)
        BY <2>2 DEF HasMember
      <3>2. Parting(y)
        BY <1>10, <1>12, <2>2, <3>1 DEF Knows, Parting, OnChannel, Steps
      <3>3. Present(y) /\ Measured(y)
        BY <1>3, <1>5, <2>2 DEF Present, Measured
      <3> QED
        BY <3>2, <3>3 DEF Knows
    <2>5. InRole(y)
      BY <1>3, <1>5, <1>10, <1>12, <2>2 DEF InRole, OnChannel, Steps
    <2>6. task[t].op \in Freeing
      BY <1>5, <1>12 DEF Freeing
    <2> QED
      BY <1>2, <1>3, <1>8, <1>9, <2>2, <2>3, <2>4, <2>5, <2>6, MoveOrder
  <1>13. CASE x.op \notin {"JOIN", "PART"}
    <2>1. Ends(t)
      BY <1>7, <1>8, <1>13 DEF Ends
    <2> QED
      BY <1>2, <1>3, <1>8, <1>9, <2>1, StopOrder
  <1> QED
    BY <1>11, <1>12, <1>13

LEMMA ShowOrder ==
  ASSUME ChannelSafe, Order, NEW t \in Thread, Show(t)
  PROVE  Order'
  <1>1. /\ task[t] \in TaskRec /\ task \in [Thread -> TaskRec]
        /\ InRole(task[t]) /\ Knows(task[t])
        /\ task[t].name # Null => listing # t
    BY HandlerFacts
  <1>2. task[t].pc = "show"
    BY DEF Show, At
  <1>3. /\ task[t].ch \in Channel /\ ~chan[task[t].ch].freed
        /\ task[t].op \in {"JOIN", "TOPIC", "LIST"}
        /\ task[t].op # "LIST" => task[t].name \in Names
    BY <1>1, <1>2 DEF InRole, Knows, Present, OnChannel, Steps
  <1>4. chan[task[t].ch].topic # "freed"
    BY <1>2, <1>3, TopicIsSet
  <1>5. /\ IF task[t].op = "LIST" /\ task[t].c = Null THEN Crash /\ UNCHANGED task
           ELSE /\ IF task[t].op = "LIST" /\ task[t].name = Null THEN Goes(t, "each") ELSE Ends(t)
                /\ UNCHANGED vars
        /\ UNCHANGED lists /\ misuse' = misuse
    BY <1>3, <1>4 DEF Show, Gone
  <1>6. \A k \in Channel : ~Carries(task[t], k)
    BY <1>2 DEF Carries
  <1>7. CASE Crash /\ UNCHANGED task
    BY <1>5, <1>7, CrashOrder
  <1>8. CASE Ends(t) /\ UNCHANGED vars /\ ~(task[t].op = "LIST" /\ task[t].name = Null)
    <2>1. task[t].name # Null
      BY <1>3, <1>8, ChannelsAssumption
    <2>2. client' = client
      BY <1>8 DEF vars
    <2> QED
      BY <1>1, <1>2, <1>5, <1>6, <1>8, <2>1, <2>2, StopOrder
  <1>9. CASE Goes(t, "each") /\ UNCHANGED vars /\ task[t].op = "LIST" /\ task[t].name = Null
    <2>1. PICK x \in TaskRec : x = task[t]
      BY <1>1
    <2>2. PICK y : y = [x EXCEPT !.pc = "each"]
      OBVIOUS
    <2>3. /\ y \in TaskRec /\ y.pc = "each" /\ y.op = x.op /\ y.name = x.name /\ y.ch = x.ch
          /\ y.pos = x.pos
      BY <2>2 DEF TaskRec, Steps
    <2>4. task' = [task EXCEPT ![t] = y] /\ client' = client
      BY <1>1, <1>9, <2>1, <2>2 DEF Goes, vars
    <2>5. InRole(y)
      <3>1. x.op = "LIST" /\ x.name = Null /\ x.pos # 0
        BY <1>1, <1>2, <1>9, <2>1 DEF InRole
      <3> QED
        BY <2>3, <3>1 DEF InRole, OnChannel, Steps
    <2>6. Knows(y)
      BY <1>9, <2>1, <2>3 DEF Knows, Present, Measured, Parting, OnChannel
    <2> QED
      BY <1>2, <1>5, <1>6, <1>9, <2>1, <2>3, <2>4, <2>5, <2>6, MoveOrder DEF Freeing
  <1> QED
    BY <1>5, <1>7, <1>8, <1>9

LEMMA JoinReadOrder ==
  ASSUME ChannelSafe, Order, NEW t \in Thread, JoinRead(t)
  PROVE  Order'
  <1>1. /\ task[t] \in TaskRec /\ task \in [Thread -> TaskRec]
        /\ InRole(task[t]) /\ Knows(task[t])
        /\ \A k \in Channel : chan[k].nusers \in Int
    BY HandlerFacts
  <1>2. task[t].pc = "count" /\ UNCHANGED lists /\ misuse' = misuse /\ client' = client
    BY DEF JoinRead, ReadUsers, At, Quietly, vars
  <1>3. PICK x \in TaskRec : x = task[t]
    BY <1>1
  <1>4. x.pc = "count" /\ InRole(x) /\ Knows(x)
    BY <1>1, <1>2, <1>3
  <1>5. x.ch \in Channel /\ ~chan[x.ch].freed /\ x.op = "JOIN"
    BY <1>4 DEF InRole, Knows, Present, OnChannel, Steps
  <1>6. PICK n \in Int : n = chan[x.ch].nusers
    BY <1>1, <1>5
  <1>7. PICK y : y = [x EXCEPT !.pc = "enter", !.n = n]
    OBVIOUS
  <1>8. /\ y \in TaskRec /\ y.pc = "enter" /\ y.n = n /\ y.op = x.op /\ y.name = x.name
        /\ y.ch = x.ch
    BY <1>7 DEF TaskRec, Steps
  <1>9. task' = [task EXCEPT ![t] = y]
    BY <1>1, <1>3, <1>6, <1>7 DEF JoinRead, ReadUsers
  <1>10. n >= 0 /\ n <= Len(chan[x.ch].members) + Cardinality(Entering(x.ch))
    <2>1. ~Removing(x.ch, {"leave", "left"})
      BY <1>2, NotRemoving
    <2>2. UsersCounted
      BY DEF Order
    <2> QED
      BY <1>5, <1>6, <2>1, <2>2 DEF UsersCounted
  <1>11. Knows(y)
    BY <1>5, <1>8, <1>10 DEF Knows, Present, Measured, Parting
  <1>12. InRole(y)
    BY <1>4, <1>5, <1>8 DEF InRole, OnChannel, Steps
  <1>13. \A k : Carries(task[t], k) => Carries(y, k)
    BY <1>3, <1>5, <1>8 DEF Carries
  <1>14. listing # t
    BY <1>2, HandlerFacts
  <1> QED
    BY <1>2, <1>5, <1>8, <1>9, <1>11, <1>12, <1>13, <1>14, MoveOrder DEF Freeing

LEMMA LinkOrder ==
  ASSUME ChannelSafe, Order, NEW t \in Thread, Link(t)
  PROVE  Order'
  <1>1. /\ task[t] \in TaskRec /\ task \in [Thread -> TaskRec]
        /\ InRole(task[t]) /\ Knows(task[t])
    BY HandlerFacts
  <1>2. task[t].pc = "link" /\ UNCHANGED lists /\ misuse' = misuse /\ client' = client
    BY DEF Link, At, vars
  <1>3. PICK x \in TaskRec : x = task[t]
    BY <1>1
  <1>4. x.pc = "link" /\ InRole(x) /\ Knows(x)
    BY <1>1, <1>2, <1>3
  <1>5. x.ch \in Channel /\ ~chan[x.ch].freed /\ x.op = "JOIN"
    BY <1>4 DEF InRole, Knows, Present, OnChannel, Steps
  <1>6. PICK y : y = [x EXCEPT !.pc = "copy"]
    OBVIOUS
  <1>7. y \in TaskRec /\ y.pc = "copy" /\ y.op = x.op /\ y.name = x.name /\ y.ch = x.ch
    BY <1>6 DEF TaskRec, Steps
  <1>8. task' = [task EXCEPT ![t] = y]
    BY <1>1, <1>3, <1>6 DEF Link, Goes
  <1>9. Knows(y)
    BY <1>5, <1>7 DEF Knows, Present, Measured, Parting
  <1>10. InRole(y)
    BY <1>4, <1>5, <1>7 DEF InRole, OnChannel, Steps
  <1>11. \A k : Carries(task[t], k) => Carries(y, k)
    BY <1>3, <1>5, <1>7 DEF Carries
  <1>12. listing # t
    BY <1>2, HandlerFacts
  <1> QED
    BY <1>2, <1>5, <1>7, <1>8, <1>9, <1>10, <1>11, <1>12, MoveOrder DEF Freeing

(* A channel is not found.                                                 *)
LEMMA NotFoundOrder ==
  ASSUME ChannelSafe, Order, NEW t \in Thread, task[t].pc \in {"locate", "get"}, NotFound(t),
         UNCHANGED lists, misuse' = misuse
  PROVE  Order'
  <1>1. /\ task[t] \in TaskRec /\ task \in [Thread -> TaskRec]
        /\ InRole(task[t]) /\ Knows(task[t]) /\ listing # t
    BY HandlerFacts
  <1>2. \A k \in Channel : ~Carries(task[t], k)
    BY DEF Carries
  <1>3. CASE task[t].op = "JOIN"
    <2>1. Goes(t, "create") /\ client' = client
      BY <1>3 DEF NotFound, vars
    <2>2. PICK x \in TaskRec : x = task[t]
      BY <1>1
    <2>3. x.op = "JOIN" /\ x.name \in Names
      BY <1>1, <1>3, <2>2 DEF InRole
    <2>4. PICK y : y = [x EXCEPT !.pc = "create"]
      OBVIOUS
    <2>5. /\ y \in TaskRec /\ y.pc = "create" /\ y.op = x.op /\ y.name = x.name
      BY <2>4 DEF TaskRec, Steps
    <2>6. task' = [task EXCEPT ![t] = y]
      BY <1>1, <2>1, <2>2, <2>4 DEF Goes
    <2>7. Knows(y) /\ InRole(y)
      BY <2>3, <2>5 DEF Knows, Present, Measured, Parting, InRole, OnChannel
    <2> QED
      BY <1>1, <1>2, <2>1, <2>3, <2>5, <2>6, <2>7, MoveOrder DEF Freeing
  <1>4. CASE task[t].op = "NAMES"
    BY <1>4, CrashOrder DEF NotFound
  <1>5. CASE task[t].op \notin {"JOIN", "NAMES"}
    <2>1. Ends(t) /\ client' = client
      BY <1>5 DEF NotFound, vars
    <2> QED
      BY <1>1, <1>2, <2>1, StopOrder
  <1> QED
    BY <1>3, <1>4, <1>5

(* The names that are read are those of channels that are still there.     *)
LEMMA NamesAreValid ==
  ASSUME ChannelSafe, Order, NEW i
  PROVE  NamesValid(i)
  <1>1. /\ channelList \in Seq(Channel) /\ \A j \in 1..Len(channelList) : channelList[j] \in Channel
        /\ Valid /\ DOMAIN channelList = 1..Len(channelList)
    BY ChannelFacts DEF ChannelSafe, Order
  <1>2. \A j \in 1..Len(channelList) : ~chan[channelList[j]].freed
    BY <1>1 DEF Valid, InList
  <1> QED
    BY <1>1, <1>2 DEF NamesValid

LEMMA FindLocateOrder ==
  ASSUME ChannelSafe, Order, NEW t \in Thread, FindLocate(t)
  PROVE  Order'
  <1>1. /\ task[t] \in TaskRec /\ task \in [Thread -> TaskRec]
        /\ InRole(task[t]) /\ Knows(task[t])
        /\ channelList \in Seq(Channel)
    BY HandlerFacts
  <1>2. task[t].pc = "locate"
    BY DEF FindLocate, At
  <1>3. PICK i : i = LocateChannel(task[t].name)
    OBVIOUS
  <1>4. /\ IF i = 0 THEN NotFound(t)
           ELSE /\ task' = [task EXCEPT ![t].pc = "get", ![t].pos = i]
                /\ UNCHANGED vars
        /\ UNCHANGED lists /\ misuse' = misuse
    BY <1>3, NamesAreValid DEF FindLocate
  <1>5. CASE i = 0
    BY <1>2, <1>4, <1>5, NotFoundOrder
  <1>6. CASE i # 0
    <2>1. i \in 1..Len(channelList) /\ IsFirst(i, task[t].name)
      BY <1>1, <1>3, <1>6, LocateFacts DEF IsFirst
    <2>2. PICK x \in TaskRec : x = task[t]
      BY <1>1
    <2>3. x.op \in Commands /\ x.name \in Names
      BY <1>1, <1>2, <2>2 DEF InRole
    <2>4. PICK y : y = [x EXCEPT !.pc = "get", !.pos = i]
      OBVIOUS
    <2>5. /\ y \in TaskRec /\ y.pc = "get" /\ y.pos = i /\ y.op = x.op /\ y.name = x.name
      <3>1. i \in Nat
        BY <2>1
      <3> QED
        BY <2>4, <3>1 DEF TaskRec, Steps
    <2>6. task' = [task EXCEPT ![t] = y] /\ client' = client
      BY <1>1, <1>4, <1>6, <2>2, <2>4 DEF vars
    <2>7. Knows(y)
      BY <2>1, <2>2, <2>5 DEF Knows, Present, Measured, Parting, OnChannel
    <2>8. InRole(y)
      BY <1>6, <2>3, <2>5 DEF InRole, OnChannel
    <2>9. \A k \in Channel : ~Carries(task[t], k)
      BY <1>2 DEF Carries
    <2>10. listing # t
      BY <1>2, HandlerFacts
    <2>11. y.op = task[t].op
      BY <2>2, <2>5
    <2> QED
      BY <1>2, <1>4, <2>5, <2>6, <2>7, <2>8, <2>9, <2>10, <2>11, MoveOrder
  <1> QED
    BY <1>5, <1>6

LEMMA FindGetOrder ==
  ASSUME ChannelSafe, Order, NEW t \in Thread, FindGet(t)
  PROVE  Order'
  <1>1. /\ task[t] \in TaskRec /\ task \in [Thread -> TaskRec]
        /\ InRole(task[t]) /\ Knows(task[t]) /\ channelList \in Seq(Channel)
        /\ \A k \in Channel : InList(channelList, k) => ~chan[k].freed
        /\ \A i \in 1..Len(channelList) : channelList[i] \in Channel
    BY HandlerFacts
  <1>2. task[t].pc = "get" /\ UNCHANGED lists /\ misuse' = misuse
    BY DEF FindGet, At
  <1>3. listing # t /\ \A k \in Channel : ~Carries(task[t], k)
    BY <1>2, HandlerFacts DEF Carries
  <1>4. CASE NotFound(t)
    BY <1>2, <1>4, NotFoundOrder
  <1>5. CASE Ends(t) /\ UNCHANGED vars
    <2>1. client' = client
      BY <1>5 DEF vars
    <2> QED
      BY <1>2, <1>3, <1>5, <2>1, StopOrder
  <1>6. CASE /\ task[t].pos <= Len(channelList) /\ UNCHANGED vars
             /\ task' = [task EXCEPT ![t].pc = WhenFound(task[t].op), ![t].pos = 0,
                                     ![t].ch = channelList[task[t].pos]]
    <2>1. PICK x \in TaskRec : x = task[t]
      BY <1>1
    <2>2. x.op \in Commands /\ x.name \in Names /\ x.pos # 0 /\ x.pc = "get" /\ Knows(x)
      BY <1>1, <1>2, <2>1 DEF InRole
    <2>3. x.pos \in Nat /\ Len(channelList) \in Nat
      BY <1>1, <2>1 DEF TaskRec
    <2>4. x.pos \in 1..Len(channelList)
      BY <1>6, <2>1, <2>2, <2>3
    <2>5. PICK k \in Channel : k = channelList[x.pos]
      BY <1>1, <2>4
    <2>6. ~chan[k].freed
      BY <1>1, <2>4, <2>5 DEF InList
    <2>7. PICK p \in {"names", "show", "copy"} : p = WhenFound(x.op)
      BY DEF WhenFound
    <2>8. PICK y : y = [x EXCEPT !.pc = p, !.pos = 0, !.ch = k]
      OBVIOUS
    <2>9. y \in TaskRec /\ y.pc = p /\ y.op = x.op /\ y.name = x.name /\ y.ch = k
      <3>1. p \in Steps
        BY DEF Steps
      <3> QED
        BY <2>8, <3>1 DEF TaskRec
    <2>10. task' = [task EXCEPT ![t] = y] /\ client' = client
      BY <1>1, <1>6, <2>1, <2>5, <2>7, <2>8 DEF vars
    <2>11. Parting(y)
      <3>1. x.op \in {"PART", "REMOVE"} => IsFirst(x.pos, x.name) /\ x.op = "PART"
        BY <2>2 DEF Knows, Parting, Commands
      <3> QED
        BY <2>4, <2>5, <2>9, <3>1 DEF Parting
    <2>12. Knows(y)
      BY <2>6, <2>9, <2>11 DEF Knows, Present, Measured
    <2>13. InRole(y)
      <3>1. CASE x.op = "NAMES"
        BY <2>2, <2>7, <2>9, <3>1, ChannelsAssumption DEF InRole, OnChannel, Steps, WhenFound
      <3>2. CASE x.op = "LIST"
        BY <2>2, <2>7, <2>9, <3>2, ChannelsAssumption DEF InRole, OnChannel, Steps, WhenFound
      <3>3. CASE x.op \notin {"NAMES", "LIST"}
        <4>1. p = "copy"
          BY <2>7, <3>3 DEF WhenFound
        <4> QED
          BY <2>2, <2>9, <3>3, <4>1 DEF InRole, OnChannel, Steps, Commands
      <3> QED
        BY <3>1, <3>2, <3>3
    <2>14. y.op = task[t].op /\ y.pc # "append"
      BY <2>1, <2>9
    <2> QED
      BY <1>2, <1>3, <2>9, <2>10, <2>12, <2>13, <2>14, MoveOrder
  <1> QED
    BY <1>4, <1>5, <1>6 DEF FindGet

LEMMA EachOrder ==
  ASSUME ChannelSafe, Order, NEW t \in Thread, Each(t)
  PROVE  Order'
  <1>1. /\ task[t] \in TaskRec /\ task \in [Thread -> TaskRec]
        /\ InRole(task[t]) /\ channelList \in Seq(Channel)
        /\ \A k \in Channel : InList(channelList, k) => ~chan[k].freed
        /\ \A i \in 1..Len(channelList) : channelList[i] \in Channel
    BY HandlerFacts
  <1>2. /\ task[t].pc = "each" /\ UNCHANGED lists /\ misuse' = misuse /\ client' = client
        /\ task[t].pos <= Len(channelList)
    BY DEF Each, At, Quietly, vars
  <1>3. PICK x \in TaskRec : x = task[t]
    BY <1>1
  <1>4. x.op \in {"NAMES", "LIST"} /\ x.name = Null /\ x.pos # 0
    BY <1>1, <1>2, <1>3 DEF InRole
  <1>5. x.pos \in Nat /\ Len(channelList) \in Nat
    BY <1>1, <1>3 DEF TaskRec
  <1>6. x.pos \in 1..Len(channelList)
    BY <1>2, <1>3, <1>4, <1>5
  <1>7. PICK k \in Channel : k = channelList[x.pos]
    BY <1>1, <1>6
  <1>8. ~chan[k].freed
    BY <1>1, <1>6, <1>7 DEF InList
  <1>9. PICK p \in {"names", "show"} : p = IF x.op = "NAMES" THEN "names" ELSE "show"
    OBVIOUS
  <1>10. PICK i \in Nat : i = x.pos + 1 /\ i # 0
    BY <1>5
  <1>11. PICK y : y = [x EXCEPT !.pc = p, !.ch = k, !.pos = i]
    OBVIOUS
  <1>12. y \in TaskRec /\ y.pc = p /\ y.op = x.op /\ y.name = x.name /\ y.ch = k /\ y.pos = i
    <2>1. p \in Steps
      BY DEF Steps
    <2> QED
      BY <1>11, <2>1 DEF TaskRec
  <1>13. task' = [task EXCEPT ![t] = y]
    BY <1>1, <1>3, <1>7, <1>9, <1>10, <1>11 DEF Each
  <1>14. Knows(y)
    BY <1>4, <1>8, <1>12 DEF Knows, Present, Measured, Parting
  <1>15. InRole(y)
    BY <1>4, <1>9, <1>10, <1>12 DEF InRole, OnChannel, Steps
  <1>16. \A l \in Channel : ~Carries(task[t], l)
    BY <1>2 DEF Carries
  <1>17. /\ y.pc # "append" /\ y.op \notin Freeing
         /\ y.pc \in {"each", "names", "naming", "show"} /\ y.name = Null
    BY <1>4, <1>12 DEF Freeing
  <1> QED
    BY <1>2, <1>12, <1>13, <1>14, <1>15, <1>16, <1>17, MoveOrder

LEMMA IterateOrder ==
  ASSUME ChannelSafe, Order, NEW t \in Thread, Iterate(t)
  PROVE  Order'
  <1>1. /\ task[t] \in TaskRec /\ task \in [Thread -> TaskRec] /\ InRole(task[t])
    BY HandlerFacts
  <1>2. /\ task[t].pc = "iterate" /\ misuse' = misuse /\ client' = client
        /\ listing' = t /\ chan' = chan /\ channelList' = channelList
    BY DEF Iterate, At, Quietly, vars
  <1>3. PICK x \in TaskRec : x = task[t]
    BY <1>1
  <1>4. x.op \in {"NAMES", "LIST"} /\ x.name = Null
    BY <1>1, <1>2, <1>3 DEF InRole
  <1>5. PICK i \in Nat : i = 1
    OBVIOUS
  <1>6. PICK y : y = [x EXCEPT !.pc = "each", !.pos = i]
    OBVIOUS
  <1>7. y \in TaskRec /\ y.pc = "each" /\ y.op = x.op /\ y.name = Null /\ y.pos = i
    <2>1. y \in TaskRec /\ y.pc = "each" /\ y.op = x.op /\ y.name = x.name /\ y.pos = i
      BY <1>6 DEF TaskRec, Steps
    <2> QED
      BY <1>4, <2>1
  <1>8. task' = [task EXCEPT ![t] = y]
    BY <1>1, <1>3, <1>5, <1>6 DEF Iterate
  <1>9. InRole(y)
    BY <1>4, <1>5, <1>7 DEF InRole, OnChannel
  <1>10. Knows(y)
    BY <1>4, <1>7 DEF Knows, Present, Measured, Parting, OnChannel
  <1>11. \A k \in Channel : chan[k].reader # t /\ ~Carries(task[t], k) /\ Kept(k)
    BY <1>2, HandlerFacts DEF Carries, Kept
  <1>12. /\ listing' \in {listing, Null, t} /\ y.pc # "append" /\ y.op \notin Freeing
         /\ y.pc \in {"each", "names", "naming", "show"}
         /\ \A k \in Channel : /\ chan'[k].reader \in {chan[k].reader, Null, t}
                               /\ chan'[k].reader = t => y.pc = "naming" /\ y.ch = k
                               /\ Carries(task[t], k) => chan[k].members # <<>> \/ Carries(y, k)
    BY <1>2, <1>4, <1>7, <1>11 DEF Freeing
  <1> QED
    BY <1>2, <1>7, <1>8, <1>9, <1>10, <1>11, <1>12, QuietOrder

LEMMA IterateEndOrder ==
  ASSUME ChannelSafe, Order, NEW t \in Thread, IterateEnd(t)
  PROVE  Order'
  <1>1. /\ task[t].pc = "each" /\ misuse' = misuse
        /\ listing' = Null /\ chan' = chan /\ channelList' = channelList
    BY DEF IterateEnd, At
  <1>2. Null \notin Thread /\ listing' # t
    BY <1>1, HandlerFacts
  <1>3. CASE Crash /\ UNCHANGED task
    <2>1. client' = client
      BY <1>3 DEF Crash
    <2> QED
      BY <1>1, <1>3, <2>1, SameOrder
  <1>4. CASE Ends(t) /\ UNCHANGED vars
    <2>1. client' = client
      BY <1>4 DEF vars
    <2>2. \A k \in Channel : Kept(k)
      BY <1>1 DEF Kept
    <2>3. \A k \in Channel : /\ chan'[k].reader \in {chan[k].reader, Null}
                             /\ chan'[k].reader # t
                             /\ Carries(task[t], k) => chan[k].members # <<>>
      BY <1>1, HandlerFacts DEF Carries
    <2> QED
      BY <1>1, <1>2, <1>4, <2>1, <2>2, <2>3, EndOrder
  <1> QED
    BY <1>3, <1>4 DEF IterateEnd

LEMMA NamesStartOrder ==
  ASSUME ChannelSafe, Order, NEW t \in Thread, NamesStart(t)
  PROVE  Order'
  <1>1. /\ task[t] \in TaskRec /\ task \in [Thread -> TaskRec]
        /\ InRole(task[t]) /\ Knows(task[t])
    BY HandlerFacts
  <1>2. task[t].pc = "names"
    BY DEF NamesStart, At
  <1>3. PICK x \in TaskRec : x = task[t]
    BY <1>1
  <1>4. InRole(x) /\ Knows(x) /\ x.pc = "names"
    BY <1>1, <1>2, <1>3
  <1>5. PICK k \in Channel : k = x.ch /\ ~chan[k].freed /\ x.op = "NAMES"
    BY <1>4 DEF InRole, Knows, Present, OnChannel, Steps
  <1>6. /\ chan' = [chan EXCEPT ![k].reader = t] /\ Goes(t, "naming")
        /\ channelList' = channelList /\ listing' = listing /\ misuse' = misuse
        /\ client' = client
    BY <1>3, <1>5 DEF NamesStart, Gone, Quietly, vars
  <1>7. PICK y : y = [x EXCEPT !.pc = "naming"]
    OBVIOUS
  <1>8. /\ y \in TaskRec /\ y.pc = "naming" /\ y.op = "NAMES" /\ y.name = x.name
        /\ y.pos = x.pos /\ y.ch = k
    BY <1>5, <1>7 DEF TaskRec, Steps
  <1>9. task' = [task EXCEPT ![t] = y]
    BY <1>1, <1>3, <1>6, <1>7 DEF Goes
  <1>10. InRole(y)
    <2>1. x.name = Null => x.pos # 0
      BY <1>4 DEF InRole
    <2> QED
      BY <1>8, <2>1 DEF InRole, OnChannel, Steps
  <1>11. Knows(y)
    BY <1>5, <1>8 DEF Knows, Present, Measured, Parting
  <1>12. \A l \in Channel : Kept(l) /\ (chan'[l].reader = chan[l].reader \/ (l = k /\ chan'[l].reader = t))
    <2>1. chan \in [Channel -> ChanRec]
      BY DEF ChannelSafe, ChanTypes
    <2>2. PICK c \in ChanRec : c = chan[k]
      BY <2>1
    <2>3. PICK z : z = [c EXCEPT !.reader = t]
      OBVIOUS
    <2>4. /\ z.name = c.name /\ z.members = c.members /\ z.nusers = c.nusers
          /\ z.freed = c.freed /\ z.topic = c.topic /\ z.reader = t
      BY <2>3 DEF ChanRec
    <2>5. chan'[k] = z /\ \A l \in Channel : l # k => chan'[l] = chan[l]
      BY <1>6, <2>1, <2>2, <2>3
    <2>6. Kept(k) /\ chan'[k].reader = t
      BY <2>2, <2>4, <2>5 DEF Kept
    <2>7. ASSUME NEW l \in Channel
          PROVE  Kept(l) /\ (chan'[l].reader = chan[l].reader \/ (l = k /\ chan'[l].reader = t))
      <3>1. CASE l = k
        BY <2>6, <3>1
      <3>2. CASE l # k
        BY <2>5, <3>2 DEF Kept
      <3> QED
        BY <3>1, <3>2
    <2> QED
      BY <2>7
  <1>13. \A l \in Channel : chan[l].reader # t /\ ~Carries(task[t], l)
    BY <1>2, HandlerFacts DEF Carries
  <1>14. /\ listing' \in {listing, Null, t}
         /\ listing' = t => y.pc \in {"each", "names", "naming", "show"} /\ y.name = Null
    BY <1>3, <1>6, <1>8, HandlerFacts
  <1>15. /\ \A l \in Channel : Kept(l)
         /\ \A l \in Channel : /\ chan'[l].reader \in {chan[l].reader, Null, t}
                               /\ chan'[l].reader = t => y.pc = "naming" /\ y.ch = l
                               /\ Carries(task[t], l) => chan[l].members # <<>> \/ Carries(y, l)
    BY <1>8, <1>12, <1>13
  <1>16. y.pc # "append" /\ y.op \notin Freeing
    BY <1>8 DEF Freeing
  <1> QED
    BY <1>2, <1>6, <1>8, <1>9, <1>10, <1>11, <1>14, <1>15, <1>16, QuietOrder

LEMMA NamesStopOrder ==
  ASSUME ChannelSafe, Order, NEW t \in Thread, NamesStop(t)
  PROVE  Order'
  <1>1. /\ task[t] \in TaskRec /\ task \in [Thread -> TaskRec]
        /\ InRole(task[t]) /\ Knows(task[t]) /\ Null \notin Thread
    BY HandlerFacts
  <1>2. task[t].pc = "naming"
    BY DEF NamesStop, At
  <1>3. PICK x \in TaskRec : x = task[t]
    BY <1>1
  <1>4. InRole(x) /\ Knows(x) /\ x.pc = "naming"
    BY <1>1, <1>2, <1>3
  <1>5. PICK k \in Channel : k = x.ch /\ ~chan[k].freed /\ x.op = "NAMES"
    BY <1>4 DEF InRole, Knows, Present, OnChannel, Steps
  <1>6. /\ chan' = [chan EXCEPT ![k].reader = Null]
        /\ IF x.name = Null THEN Goes(t, "each") ELSE Ends(t)
        /\ channelList' = channelList /\ listing' = listing /\ misuse' = misuse
        /\ client' = client
    BY <1>3, <1>5 DEF NamesStop, Gone, Quietly, vars
  <1>7. \A l \in Channel : Kept(l) /\ ((chan'[l].reader = chan[l].reader /\ l # k) \/ chan'[l].reader = Null)
    <2>1. chan \in [Channel -> ChanRec]
      BY DEF ChannelSafe, ChanTypes
    <2>2. PICK c \in ChanRec : c = chan[k]
      BY <2>1
    <2>3. PICK z : z = [c EXCEPT !.reader = Null]
      OBVIOUS
    <2>4. /\ z.name = c.name /\ z.members = c.members /\ z.nusers = c.nusers
          /\ z.freed = c.freed /\ z.topic = c.topic /\ z.reader = Null
      BY <2>3 DEF ChanRec
    <2>5. chan'[k] = z /\ \A l \in Channel : l # k => chan'[l] = chan[l]
      BY <1>6, <2>1, <2>2, <2>3
    <2>6. Kept(k) /\ chan'[k].reader = Null
      BY <2>2, <2>4, <2>5 DEF Kept
    <2>7. ASSUME NEW l \in Channel, l # k PROVE Kept(l) /\ chan'[l].reader = chan[l].reader
      BY <2>5, <2>7 DEF Kept
    <2> QED
      BY <2>6, <2>7
  <1>8. \A l \in Channel : /\ chan'[l].reader \in {chan[l].reader, Null}
                           /\ chan'[l].reader # t
                           /\ ~Carries(task[t], l) /\ Kept(l)
    <2>1. \A l \in Channel : l # k => chan[l].reader # t
      BY <1>3, <1>5 DEF Order, Iterating
    <2> QED
      BY <1>1, <1>2, <1>7, <2>1 DEF Carries
  <1>9. CASE x.name = Null
    <2>1. PICK y : y = [x EXCEPT !.pc = "each"]
      OBVIOUS
    <2>2. /\ y \in TaskRec /\ y.pc = "each" /\ y.op = "NAMES" /\ y.name = Null /\ y.pos = x.pos
      BY <1>5, <1>9, <2>1 DEF TaskRec, Steps
    <2>3. task' = [task EXCEPT ![t] = y]
      BY <1>1, <1>3, <1>6, <1>9, <2>1 DEF Goes
    <2>4. x.pos # 0
      BY <1>4, <1>9 DEF InRole
    <2>5. InRole(y)
      BY <2>2, <2>4 DEF InRole, OnChannel
    <2>6. Knows(y)
      BY <2>2 DEF Knows, Present, Measured, Parting, OnChannel
    <2>7. /\ listing' \in {listing, Null, t} /\ y.pc # "append" /\ y.op \notin Freeing
          /\ y.pc \in {"each", "names", "naming", "show"}
          /\ \A l \in Channel : /\ chan'[l].reader \in {chan[l].reader, Null, t}
                                /\ chan'[l].reader = t => y.pc = "naming" /\ y.ch = l
                                /\ Carries(task[t], l) => chan[l].members # <<>> \/ Carries(y, l)
      BY <1>6, <1>8, <2>2 DEF Freeing
    <2> QED
      BY <1>2, <1>6, <1>8, <2>2, <2>3, <2>5, <2>6, <2>7, QuietOrder
  <1>10. CASE x.name # Null
    <2>1. Ends(t) /\ listing' \in {listing, Null} /\ listing' # t
      BY <1>3, <1>6, <1>10, HandlerFacts
    <2> QED
      BY <1>2, <1>6, <1>8, <2>1, EndOrder
  <1> QED
    BY <1>9, <1>10

LEMMA MemberOrder ==
  ASSUME ChannelSafe, IrcTypes, Order, NEW t \in Thread, Member(t)
  PROVE  Order'
  <1>1. /\ task[t] \in TaskRec /\ task \in [Thread -> TaskRec]
        /\ InRole(task[t]) /\ Knows(task[t])
        /\ \A k \in Channel : Len(chan[k].members) \in Nat
    BY HandlerFacts
  <1>2. task[t].pc = "member"
    BY DEF Member, At
  <1>3. PICK x \in TaskRec : x = task[t]
    BY <1>1
  <1>4. InRole(x) /\ Knows(x) /\ x.pc = "member"
    BY <1>1, <1>2, <1>3
  <1>5. /\ x.ch \in Channel /\ ~chan[x.ch].freed /\ x.op \in {"MODE", "MEMBER"} /\ x.name \in Names
        /\ x.pos \in 1..Len(chan[x.ch].members)
    BY <1>4 DEF InRole, Knows, Present, Measured, OnChannel, Steps
  <1>6. ~(Gone(t) \/ task[t].pos > Len(chan[task[t].ch].members))
    BY <1>1, <1>3, <1>5 DEF Gone
  <1>7. listing # t /\ \A k \in Channel : ~Carries(task[t], k)
    BY <1>2, HandlerFacts DEF Carries
  <1>8. /\ UNCHANGED lists /\ misuse' = misuse /\ client' = client
        /\ \/ Ends(t)
           \/ x.op = "MODE" /\ task' = [task EXCEPT ![t].pc = "head", ![t].pos = 0]
           \/ /\ x.op = "MODE"
              /\ \E i \in DOMAIN clientList :
                   task' = [task EXCEPT ![t].pc = "copy", ![t].op = "MEMBER", ![t].pos = 0,
                                        ![t].fd = client[clientList[i]].fd]
    BY <1>3, <1>6 DEF Member, Quietly, vars
  <1>9. CASE Ends(t)
    BY <1>2, <1>7, <1>8, <1>9, StopOrder
  <1>10. CASE x.op = "MODE" /\ task' = [task EXCEPT ![t].pc = "head", ![t].pos = 0]
    <2>1. PICK y : y = [x EXCEPT !.pc = "head", !.pos = 0]
      OBVIOUS
    <2>2. /\ y \in TaskRec /\ y.pc = "head" /\ y.op = "MODE" /\ y.name = x.name /\ y.ch = x.ch
      BY <1>10, <2>1 DEF TaskRec, Steps
    <2>3. task' = [task EXCEPT ![t] = y]
      BY <1>1, <1>3, <1>10, <2>1
    <2>4. Knows(y) /\ InRole(y)
      BY <1>5, <2>2 DEF Knows, Present, Measured, Parting, InRole, OnChannel, Steps
    <2>5. y.op \notin Freeing /\ y.pc # "append"
      BY <2>2 DEF Freeing
    <2> QED
      BY <1>2, <1>7, <1>8, <2>2, <2>3, <2>4, <2>5, MoveOrder
  <1>11. CASE /\ x.op = "MODE"
              /\ \E i \in DOMAIN clientList :
                   task' = [task EXCEPT ![t].pc = "copy", ![t].op = "MEMBER", ![t].pos = 0,
                                        ![t].fd = client[clientList[i]].fd]
    <2>1. PICK fd : task' = [task EXCEPT ![t].pc = "copy", ![t].op = "MEMBER", ![t].pos = 0,
                                         ![t].fd = fd] /\ fd \in Fd \union {Null}
      <3>1. PICK i \in DOMAIN clientList :
              task' = [task EXCEPT ![t].pc = "copy", ![t].op = "MEMBER", ![t].pos = 0,
                                   ![t].fd = client[clientList[i]].fd]
        BY <1>11
      <3>2. client[clientList[i]].fd \in Fd \union {Null}
        BY DEF IrcTypes, ClientRec
      <3> QED
        BY <3>1, <3>2
    <2>2. PICK y : y = [x EXCEPT !.pc = "copy", !.op = "MEMBER", !.pos = 0, !.fd = fd]
      OBVIOUS
    <2>3. /\ y \in TaskRec /\ y.pc = "copy" /\ y.op = "MEMBER" /\ y.name = x.name /\ y.ch = x.ch
      BY <2>1, <2>2 DEF TaskRec, Steps, Ops
    <2>4. task' = [task EXCEPT ![t] = y]
      BY <1>1, <1>3, <2>1, <2>2
    <2>5. Knows(y) /\ InRole(y)
      BY <1>5, <2>3 DEF Knows, Present, Measured, Parting, InRole, OnChannel, Steps
    <2>6. y.op \notin Freeing /\ y.pc # "append"
      BY <2>3 DEF Freeing
    <2> QED
      BY <1>2, <1>7, <1>8, <2>3, <2>4, <2>5, <2>6, MoveOrder
  <1> QED
    BY <1>8, <1>9, <1>10, <1>11

(* isUserInChannel finds who is there.                                     *)
LEMMA CheckOrder ==
  ASSUME ChannelSafe, Order, NEW t \in Thread, Check(t)
  PROVE  Order'
  <1>1. /\ task[t] \in TaskRec /\ task \in [Thread -> TaskRec]
        /\ InRole(task[t]) /\ Knows(task[t])
        /\ \A k \in Channel : Len(chan[k].members) \in Nat /\ chan[k].members \in Seq(Thread)
    BY HandlerFacts
  <1>2. task[t].pc = "check"
    BY DEF Check, At
  <1>3. PICK x \in TaskRec : x = task[t]
    BY <1>1
  <1>4. InRole(x) /\ Knows(x) /\ x.pc = "check"
    BY <1>1, <1>2, <1>3
  <1>5. /\ x.ch \in Channel /\ ~chan[x.ch].freed /\ x.n \in 0..Len(chan[x.ch].members)
        /\ x.op \in {"JOIN", "PART", "REMOVE", "PRIVMSG", "NOTICE", "TOPIC", "MODE", "MEMBER"}
        /\ x.name \in Names
    BY <1>4 DEF InRole, Knows, Present, Measured, OnChannel, Steps
  <1>6. PICK m \in Seq(Thread) : m = chan[x.ch].members /\ Len(m) \in Nat
    BY <1>1, <1>5
  <1>7. PICK i : i = IF x.busy THEN 0 ELSE Position(m, x.n, x.fd)
    OBVIOUS
  <1>8. i \in 0..Len(m) /\ (i # 0 => client[m[i]].fd = x.fd)
    <2>1. CASE x.busy
      BY <1>6, <1>7, <2>1
    <2>2. CASE ~x.busy
      BY <1>7, <2>2, PositionFacts
    <2> QED
      BY <2>1, <2>2
  <1>9. Checked(t, i) /\ UNCHANGED lists /\ misuse' = misuse
    <2>1. ~Gone(t) /\ ~(x.n > Len(m))
      BY <1>3, <1>5, <1>6 DEF Gone
    <2> QED
      BY <1>3, <1>6, <1>7, <2>1 DEF Check
  <1>10. PICK label \in After(x, i) :
            CASE label = "crash" -> Crash /\ UNCHANGED task
              [] label = "end"   -> Ends(t) /\ UNCHANGED vars
              [] OTHER           -> /\ task' = [task EXCEPT ![t].pc = label, ![t].pos = i,
                                                            ![t].n = 0, ![t].busy = FALSE]
                                    /\ UNCHANGED vars
    BY <1>3, <1>9 DEF Checked
  <1>11. listing # t
    BY <1>2, HandlerFacts
  <1>12. CASE label = "crash"
    <2>1. Crash /\ UNCHANGED task
      BY <1>10, <1>12
    <2> QED
      BY <1>9, <2>1, CrashOrder
  <1>13. CASE label = "end"
    <2>1. Ends(t) /\ client' = client
      BY <1>10, <1>13 DEF vars
    <2>2. x.op = "JOIN" => i # 0
      BY <1>10, <1>13 DEF After
    <2>3. i # 0 => chan[x.ch].members # <<>>
      BY <1>6, <1>8
    <2>4. \A k \in Channel : Carries(task[t], k) => chan[k].members # <<>>
      BY <1>3, <1>4, <2>2, <2>3 DEF Carries
    <2> QED
      BY <1>2, <1>9, <1>11, <2>1, <2>4, StopOrder
  <1>14. CASE label \notin {"crash", "end"}
    <2>1. task' = [task EXCEPT ![t].pc = label, ![t].pos = i, ![t].n = 0, ![t].busy = FALSE]
          /\ client' = client
      BY <1>10, <1>14 DEF vars
    <2>2. \/ label = "delete" /\ x.op = "REMOVE"
          \/ label = "count" /\ x.op = "JOIN"
          \/ label = "head" /\ x.op \in {"PART", "PRIVMSG", "NOTICE"} /\ i # 0
          \/ label \in {"show", "free"} /\ x.op = "TOPIC"
          \/ label = "member" /\ x.op \in {"MODE", "MEMBER"} /\ i # 0
      <3>1. CASE x.op = "REMOVE"
        <4>1. After(x, i) = {"delete"}
          BY <3>1 DEF After
        <4> QED
          BY <3>1, <4>1
      <3>2. CASE x.op = "JOIN"
        BY <1>14, <3>2 DEF After
      <3>3. CASE x.op \notin {"REMOVE", "JOIN"}
        <4>1. i # 0
          <5>1. CASE i = 0
            <6>1. After(x, i) = {IF x.op = "MODE" THEN "crash" ELSE "end"}
              BY <3>3, <5>1 DEF After
            <6> QED
              BY <1>14, <6>1
          <5> QED
            BY <5>1
        <4>2. CASE x.op \in {"PART", "PRIVMSG", "NOTICE"}
          <5>1. After(x, i) \subseteq {"crash", "head"}
            BY <4>1, <4>2 DEF After
          <5> QED
            BY <1>14, <4>1, <4>2, <5>1
        <4>3. CASE x.op = "TOPIC"
          BY <4>1, <4>3 DEF After
        <4>4. CASE x.op \in {"MODE", "MEMBER"}
          BY <4>1, <4>4 DEF After
        <4> QED
          BY <1>5, <3>3, <4>2, <4>3, <4>4
      <3> QED
        BY <3>1, <3>2, <3>3
    <2>3. label \in Steps /\ label # "append"
      BY <2>2 DEF Steps
    <2>4. PICK y : y = [x EXCEPT !.pc = label, !.pos = i, !.n = 0, !.busy = FALSE]
      OBVIOUS
    <2>5. /\ y \in TaskRec /\ y.pc = label /\ y.pos = i /\ y.op = x.op /\ y.name = x.name
          /\ y.ch = x.ch /\ y.fd = x.fd
      <3>1. i \in Nat /\ 0 \in Int
        BY <1>6, <1>8
      <3> QED
        BY <2>3, <2>4, <3>1 DEF TaskRec
    <2>6. task' = [task EXCEPT ![t] = y]
      BY <1>1, <1>3, <2>1, <2>4
    <2>7. InRole(y)
      BY <1>5, <2>2, <2>5, ChannelsAssumption DEF InRole, OnChannel, Steps
    <2>8. i # 0 => HasMember(y)
      BY <1>6, <1>8, <2>5 DEF HasMember, FdOf
    <2>9. x.op = "REMOVE" => i # 0
      <3>1. SUFFICES ASSUME x.op = "REMOVE" PROVE i # 0
        OBVIOUS
      <3>2. Parting(x)
        BY <1>4 DEF Knows
      <3>3. ~x.busy /\ x.n = Len(m) /\ HasMember(x)
        BY <1>4, <1>6, <3>1, <3>2 DEF Parting
      <3>4. PICK j \in 1..Len(m) : client[m[j]].fd = x.fd
        BY <1>6, <3>3 DEF HasMember, FdOf
      <3>5. j <= x.n
        BY <1>6, <3>3
      <3> QED
        BY <1>7, <3>3, <3>4, <3>5, PositionFacts
    <2>10. Present(y) /\ Measured(y)
      BY <1>5, <1>6, <1>8, <2>2, <2>5 DEF Present, Measured
    <2>11. Parting(y)
      <3>1. Parting(x) /\ x.pc \in OnChannel
        BY <1>4 DEF Knows, OnChannel, Steps
      <3>2. x.op \in {"PART", "REMOVE"} =>
              \E j \in 1..Len(channelList) : IsFirst(j, x.name) /\ x.ch = channelList[j]
        BY <3>1 DEF Parting
      <3>3. x.op = "PART" => label = "head" /\ i # 0
        BY <2>2
      <3>4. x.op = "REMOVE" => label = "delete"
        BY <2>2
      <3>5. x.op = "REMOVE" => i \in 1..Len(m)
        BY <1>6, <1>8, <2>9
      <3>6. CASE x.op = "PART"
        BY <2>5, <2>8, <3>2, <3>3, <3>6 DEF Parting
      <3>7. CASE x.op = "REMOVE"
        BY <1>6, <2>5, <3>2, <3>4, <3>5, <3>7 DEF Parting
      <3>8. CASE x.op \notin {"PART", "REMOVE"}
        BY <2>5, <3>8 DEF Parting
      <3> QED
        BY <3>6, <3>7, <3>8
    <2>12. Knows(y)
      BY <2>10, <2>11 DEF Knows
    <2>13. \A k \in Channel : Carries(task[t], k) => Carries(y, k)
      <3>1. x.op = "JOIN" => label = "count"
        BY <2>2
      <3> QED
        BY <1>3, <1>4, <2>5, <3>1 DEF Carries
    <2>14. y.op = task[t].op /\ y.pc # "append"
      BY <1>3, <2>3, <2>5
    <2> QED
      BY <1>2, <1>9, <1>11, <2>1, <2>5, <2>6, <2>7, <2>12, <2>13, <2>14, MoveOrder
  <1> QED
    BY <1>12, <1>13, <1>14

LEMMA SomeThreads ==
  ASSUME NEW S \in SUBSET Thread
  PROVE  IsFiniteSet(S) /\ Cardinality(S) \in Nat
  <1>1. IsFiniteSet(Thread)
    BY IrcAssumption, FS_Interval DEF Thread
  <1>2. IsFiniteSet(S)
    BY <1>1, FS_Subset
  <1> QED
    BY <1>2, FS_CardinalityType

Entered(k) == Len(chan[k].members) + Cardinality(Entering(k))

LEMMA EnteredFacts ==
  ASSUME ChannelSafe, NEW k \in Channel
  PROVE  Entered(k) \in Nat /\ Cardinality(Entering(k)) \in Nat /\ IsFiniteSet(Entering(k))
  <1>1. Entering(k) \in SUBSET Thread
    BY DEF Entering
  <1>2. Len(chan[k].members) \in Nat
    BY ChannelFacts DEF ChannelSafe
  <1> QED
    BY <1>1, <1>2, SomeThreads DEF Entered

(* A step of a JOIN that changes a channel: beside it there is no PART and *)
(* no TOPIC.  Members are added, and whoever is about to be added has been *)
(* counted, if not by everyone.                                            *)
LEMMA JoiningOrder ==
  ASSUME ChannelSafe, Order, NEW t \in Thread, NEW y \in TaskRec,
         task' = [task EXCEPT ![t] = y],
         task[t].pc \in {"create", "enter", "append"}, task[t].op = "JOIN",
         y.pc \in {"link", "append", "head"}, y.op = "JOIN",
         y.ch \in Channel, ~chan[y.ch].freed, y.pc = "append" => chan'[y.ch].nusers >= 1,
         listing' = listing, misuse' = misuse, client' = client,
         \A k \in Channel :
           /\ chan'[k].freed = chan[k].freed /\ chan'[k].topic = chan[k].topic
           /\ chan'[k].reader = chan[k].reader
           /\ chan'[k].name \in {chan[k].name} \union Names
           /\ chan'[k].nusers \in Int /\ Len(chan'[k].members) \in Nat /\ Entered(k)' \in Int
           /\ Len(chan[k].members) <= Len(chan'[k].members)
           /\ Entered(k) <= Entered(k)'
           /\ \/ chan'[k].nusers = chan[k].nusers
              \/ chan'[k].nusers >= 1 /\ chan'[k].nusers <= Entered(k)'
           /\ chan'[k].members # <<>> => chan[k].members # <<>> \/ chan'[k].nusers >= 1
           /\ chan[k].members # <<>> => chan'[k].members # <<>>
           /\ InList(channelList', k) => ~chan[k].freed
           /\ InList(channelList', k) =>
                \/ chan'[k].members # <<>> \/ Carries(y, k)
                \/ InList(channelList, k) /\ ~Carries(task[t], k)
  PROVE  Order'
  <1>0. ChanTypes /\ \A u \in Thread : InRole(task[u]) /\ task[u] \in TaskRec
    BY HandlerFacts DEF ChannelSafe
  <1>1. /\ ~misuse /\ Alone /\ Iterating /\ Valid /\ UsersCounted /\ Peopled
        /\ \A u \in Thread : Knows(task[u])
    BY DEF Order
  <1>2. /\ task'[t] = y /\ \A u \in Thread : u # t => task'[u] = task[u]
    BY <1>0 DEF ChanTypes
  <1>3. Active(t) /\ task[t].op \notin Freeing /\ y.op \notin Freeing
    BY DEF Active, Freeing
  <1>4. \A u \in Thread : u # t /\ Active(u) => task[u].op \notin Freeing
    BY <1>1, <1>3 DEF Alone
  <1>5. Alone'
    <2>1. ASSUME NEW u \in Thread, Active(u)' PROVE task'[u].op \notin Freeing
      <3>1. CASE u = t
        BY <1>2, <1>3, <3>1
      <3>2. CASE u # t
        <4>1. Active(u)
          BY <1>2, <2>1, <3>2 DEF Active
        <4> QED
          BY <1>2, <1>4, <3>2, <4>1
      <3> QED
        BY <3>1, <3>2
    <2> QED
      BY <2>1 DEF Alone
  <1>6. Iterating'
    <2>1. listing # t /\ \A k \in Channel : chan[k].reader # t
      BY HandlerFacts
    <2>2. ASSUME NEW u \in Thread, listing' = u
          PROVE  task'[u].pc \in {"each", "names", "naming", "show"} /\ task'[u].name = Null
      BY <1>1, <1>2, <2>1, <2>2 DEF Iterating
    <2>3. ASSUME NEW k \in Channel, NEW u \in Thread, chan'[k].reader = u
          PROVE  task'[u].pc = "naming" /\ task'[u].ch = k
      BY <1>1, <1>2, <2>1, <2>3 DEF Iterating
    <2> QED
      BY <2>2, <2>3 DEF Iterating
  <1>7. Valid'
    <2>1. \A k \in Channel : chan[k].topic # "freed"
      BY TopicIsSet
    <2>2. \A k \in Channel : chan'[k].freed => chan'[k].name \in Names
      BY <1>1 DEF Valid
    <2> QED
      BY <2>1, <2>2 DEF Valid
  <1>8. \A k \in Channel : /\ chan[k].nusers >= 0 /\ chan[k].nusers <= Entered(k)
                           /\ chan[k].members # <<>> => chan[k].nusers >= 1
    <2>1. \A k : ~Removing(k, {"leave", "left"}) /\ ~Removing(k, {"empty", "destroy"})
      BY NotRemoving
    <2> QED
      BY <1>1, <2>1 DEF UsersCounted, Entered
  <1>9. \A k \in Channel : /\ chan[k].nusers \in Int /\ Entered(k) \in Int
                           /\ Len(chan[k].members) \in Nat
    <2>1. \A k \in Channel : chan[k].nusers \in Int /\ Len(chan[k].members) \in Nat
      BY HandlerFacts
    <2>2. \A k \in Channel : Entered(k) \in Int
      BY EnteredFacts
    <2> QED
      BY <2>1, <2>2
  <1>10. UsersCounted'
    <2>1. ASSUME NEW k \in Channel
          PROVE  /\ chan'[k].nusers >= 0 /\ chan'[k].nusers <= Entered(k)'
                 /\ chan'[k].members # <<>> => chan'[k].nusers >= 1
      BY <1>8, <1>9
    <2> QED
      BY <2>1 DEF UsersCounted, Entered
  <1>11. Peopled'
    <2>1. ASSUME NEW k \in Channel, InList(channelList', k)
          PROVE  chan'[k].members # <<>> \/ \E u \in Thread : Carries(task'[u], k)
      <3>1. CASE chan'[k].members # <<>> \/ Carries(y, k)
        BY <1>2, <3>1
      <3>2. CASE InList(channelList, k) /\ ~Carries(task[t], k) /\ chan[k].members = <<>>
        <4>1. PICK u \in Thread : Carries(task[u], k)
          BY <1>1, <3>2 DEF Peopled
        <4> QED
          BY <1>2, <3>2, <4>1
      <3> QED
        BY <2>1, <3>1, <3>2
    <2>2. \A k \in Channel, u \in Thread : Carries(task[u], k)' <=> Carries(task'[u], k)
      BY DEF Carries
    <2>3. \A k : InList(channelList, k)' <=> InList(channelList', k)
      BY DEF InList
    <2> QED
      BY <2>1, <2>2, <2>3 DEF Peopled
  <1>12. ASSUME NEW z, z.pc \in OnChannel => z.ch \in Channel /\ ~chan[z.ch].freed,
                z.pc # "replace"
         PROVE  Present(z)'
    BY <1>12 DEF Present
  <1>13. ASSUME NEW u \in Thread PROVE Knows(task[u])'
    <2>1. CASE u = t
      <3>1. Knows(y)'
        BY DEF Knows, Present, Measured, Parting, OnChannel
      <3> QED
        BY <1>2, <2>1, <3>1
    <2>2. CASE u # t
      <3>1. PICK z \in TaskRec : z = task[u]
        BY <1>0
      <3>2. InRole(z) /\ Knows(z) /\ (z.pc # "idle" => z.op \notin Freeing)
        BY <1>0, <1>1, <1>4, <2>2, <3>1 DEF Active
      <3>3. z.pc # "replace" /\ (z.pc \in OnChannel => z.ch \in Channel /\ ~chan[z.ch].freed)
        BY <3>2 DEF InRole, Knows, Present, Freeing
      <3>4. Present(z)'
        BY <1>12, <3>3
      <3>5. Measured(z)'
        <4>1. z.pc \in {"check", "send", "member", "append", "enter"} => z.ch \in Channel
          BY <3>3 DEF OnChannel, Steps
        <4>2. z.n \in Int /\ z.pos \in Nat
          BY DEF TaskRec
        <4>3. Measured(z)
          BY <3>2 DEF Knows
        <4>4. z.pc \in {"check", "send"} => z.n \in 0..Len(chan'[z.ch].members)
          <5>1. SUFFICES ASSUME z.pc \in {"check", "send"}
                         PROVE  z.n \in 0..Len(chan'[z.ch].members)
            OBVIOUS
          <5>2. z.n \in 0..Len(chan[z.ch].members)
            BY <4>3, <5>1 DEF Measured
          <5>3. /\ Len(chan[z.ch].members) \in Nat /\ Len(chan'[z.ch].members) \in Nat
                /\ Len(chan[z.ch].members) <= Len(chan'[z.ch].members)
            BY <1>9, <4>1, <5>1
          <5> QED
            BY <5>2, <5>3
        <4>5. z.pc = "member" => z.pos \in 1..Len(chan'[z.ch].members)
          <5>1. SUFFICES ASSUME z.pc = "member"
                         PROVE  z.pos \in 1..Len(chan'[z.ch].members)
            OBVIOUS
          <5>2. z.pos \in 1..Len(chan[z.ch].members)
            BY <4>3, <5>1 DEF Measured
          <5>3. /\ Len(chan[z.ch].members) \in Nat /\ Len(chan'[z.ch].members) \in Nat
                /\ Len(chan[z.ch].members) <= Len(chan'[z.ch].members)
            BY <1>9, <4>1, <5>1
          <5> QED
            BY <5>2, <5>3
        <4>6. z.pc = "append" => chan'[z.ch].nusers >= 1
          BY <4>1, <4>3 DEF Measured
        <4>7. z.pc = "enter" => z.n >= 0 /\ z.n <= Entered(z.ch)'
          <5>1. SUFFICES ASSUME z.pc = "enter" PROVE z.n >= 0 /\ z.n <= Entered(z.ch)'
            OBVIOUS
          <5>2. z.n >= 0 /\ z.n <= Entered(z.ch) /\ z.ch \in Channel
            BY <4>1, <4>3, <5>1 DEF Measured, Entered
          <5> QED
            BY <1>9, <4>2, <5>2
        <4> QED
          BY <4>4, <4>5, <4>6, <4>7 DEF Measured, Entered
      <3>6. Parting(z)'
        <4>1. z.pc = "idle" \/ z.op \notin {"PART", "REMOVE"}
          BY <3>2 DEF Freeing
        <4> QED
          BY <4>1 DEF Parting, OnChannel
      <3>7. Knows(z)'
        BY <3>4, <3>5, <3>6 DEF Knows
      <3> QED
        BY <1>2, <2>2, <3>1, <3>7
    <2> QED
      BY <2>1, <2>2
  <1> QED
    BY <1>1, <1>5, <1>6, <1>7, <1>10, <1>11, <1>13 DEF Order

LEMMA JoinWriteOrder ==
  ASSUME ChannelSafe, Order, NEW t \in Thread, JoinWrite(t)
  PROVE  Order'
  <1>1. /\ task[t] \in TaskRec /\ task \in [Thread -> TaskRec]
        /\ InRole(task[t]) /\ Knows(task[t])
        /\ chan \in [Channel -> ChanRec]
        /\ \A k \in Channel : Len(chan[k].members) \in Nat /\ chan[k].nusers \in Int
    BY HandlerFacts DEF ChannelSafe, ChanTypes
  <1>2. task[t].pc = "enter"
    BY DEF JoinWrite, WriteUsers, At
  <1>3. PICK x \in TaskRec : x = task[t]
    BY <1>1
  <1>4. x.pc = "enter" /\ InRole(x) /\ Knows(x)
    BY <1>1, <1>2, <1>3
  <1>5. PICK k \in Channel : k = x.ch /\ ~chan[k].freed /\ x.op = "JOIN"
    BY <1>4 DEF InRole, Knows, Present, OnChannel, Steps
  <1>6. x.n \in Int /\ x.n >= 0 /\ x.n <= Entered(k)
    BY <1>4, <1>5 DEF Knows, Measured, Entered, TaskRec
  <1>7. PICK n \in Int : n = x.n + 1
    BY <1>6
  <1>8. PICK c \in ChanRec : c = chan[k]
    BY <1>1
  <1>9. PICK z : z = [c EXCEPT !.nusers = n]
    OBVIOUS
  <1>10. /\ z.name = c.name /\ z.members = c.members /\ z.nusers = n
         /\ z.freed = c.freed /\ z.topic = c.topic /\ z.reader = c.reader
    BY <1>9 DEF ChanRec
  <1>11. PICK y : y = [x EXCEPT !.pc = "append", !.n = 0]
    OBVIOUS
  <1>12. y \in TaskRec /\ y.pc = "append" /\ y.op = "JOIN" /\ y.ch = k
    <2>1. 0 \in Int
      OBVIOUS
    <2> QED
      BY <1>5, <1>11, <2>1 DEF TaskRec, Steps
  <1>13. /\ chan' = [chan EXCEPT ![k] = z] /\ task' = [task EXCEPT ![t] = y]
         /\ channelList' = channelList /\ listing' = listing /\ misuse' = misuse
         /\ client' = client
    BY <1>1, <1>3, <1>5, <1>7, <1>8, <1>9, <1>11 DEF JoinWrite, WriteUsers, Quietly, vars
  <1>14. chan'[k] = z /\ \A l \in Channel : l # k => chan'[l] = chan[l]
    BY <1>1, <1>13
  <1>15. task'[t] = y /\ \A u \in Thread : u # t => task'[u] = task[u]
    BY <1>1, <1>13
  <1>16. \A l \in Channel : chan'[l].members = chan[l].members
    BY <1>8, <1>10, <1>14
  <1>17. Entered(k)' = Entered(k) + 1
    <2>1. Entering(k)' = Entering(k) \union {t} /\ t \notin Entering(k)
      BY <1>2, <1>12, <1>15 DEF Entering
    <2>2. IsFiniteSet(Entering(k))
      BY EnteredFacts
    <2>3. Cardinality(Entering(k)') = Cardinality(Entering(k)) + 1
      BY <2>1, <2>2, FS_AddElement
    <2>4. Cardinality(Entering(k)) \in Nat
      BY EnteredFacts
    <2>5. Len(chan'[k].members) = Len(chan[k].members) /\ Len(chan[k].members) \in Nat
      BY <1>1, <1>16
    <2>6. PICK a \in Nat, b \in Nat : /\ a = Len(chan[k].members)
                                     /\ b = Cardinality(Entering(k))
      BY <2>4, <2>5
    <2>7. Len(chan'[k].members) = a /\ Cardinality(Entering(k)') = b + 1
      BY <2>3, <2>5, <2>6
    <2>8. Entered(k) = a + b /\ Entered(k)' = a + (b + 1)
      BY <2>6, <2>7 DEF Entered
    <2> QED
      BY <2>8
  <1>18. \A l \in Channel : l # k => Entered(l)' = Entered(l)
    <2>1. ASSUME NEW l \in Channel, l # k PROVE Entering(l)' = Entering(l)
      BY <1>2, <1>12, <1>15, <2>1 DEF Entering
    <2> QED
      BY <1>16, <2>1 DEF Entered
  <1>19. \A l \in Channel : Entered(l) \in Nat
    BY EnteredFacts
  <1>20. \A l \in Channel :
           /\ chan'[l].freed = chan[l].freed /\ chan'[l].topic = chan[l].topic
           /\ chan'[l].reader = chan[l].reader /\ chan'[l].name = chan[l].name
    BY <1>8, <1>10, <1>14
  <1>21. ASSUME NEW l \in Channel
         PROVE  /\ chan'[l].nusers \in Int /\ Entered(l)' \in Int /\ Entered(l) <= Entered(l)'
                /\ \/ chan'[l].nusers = chan[l].nusers
                   \/ chan'[l].nusers >= 1 /\ chan'[l].nusers <= Entered(l)'
    <2>1. CASE l = k
      BY <1>6, <1>7, <1>10, <1>14, <1>17, <1>19, <2>1
    <2>2. CASE l # k
      BY <1>1, <1>14, <1>18, <1>19, <2>2
    <2> QED
      BY <2>1, <2>2
  <1>22. \A l \in Channel :
           /\ Len(chan'[l].members) \in Nat /\ Len(chan[l].members) <= Len(chan'[l].members)
    BY <1>1, <1>16
  <1>23. \A l \in Channel : InList(channelList', l) => ~chan[l].freed /\ InList(channelList, l)
    BY <1>13, HandlerFacts
  <1>24. \A l \in Channel : Carries(task[t], l) => Carries(y, l)
    BY <1>3, <1>5, <1>12 DEF Carries
  <1>25. chan'[y.ch].nusers >= 1
    BY <1>6, <1>7, <1>10, <1>12, <1>14
  <1>26. \A l \in Channel :
           /\ chan'[l].freed = chan[l].freed /\ chan'[l].topic = chan[l].topic
           /\ chan'[l].reader = chan[l].reader
           /\ chan'[l].name \in {chan[l].name} \union Names
           /\ chan'[l].nusers \in Int /\ Len(chan'[l].members) \in Nat /\ Entered(l)' \in Int
           /\ Len(chan[l].members) <= Len(chan'[l].members)
           /\ Entered(l) <= Entered(l)'
           /\ \/ chan'[l].nusers = chan[l].nusers
              \/ chan'[l].nusers >= 1 /\ chan'[l].nusers <= Entered(l)'
           /\ chan'[l].members # <<>> => chan[l].members # <<>> \/ chan'[l].nusers >= 1
           /\ chan[l].members # <<>> => chan'[l].members # <<>>
           /\ InList(channelList', l) => ~chan[l].freed
           /\ InList(channelList', l) =>
                \/ chan'[l].members # <<>> \/ Carries(y, l)
                \/ InList(channelList, l) /\ ~Carries(task[t], l)
    BY <1>16, <1>20, <1>21, <1>22, <1>23, <1>24
  <1>27. /\ task[t].pc \in {"create", "enter", "append"} /\ task[t].op = "JOIN"
         /\ y.pc \in {"link", "append", "head"} /\ y.op = "JOIN"
         /\ y.ch \in Channel /\ ~chan[y.ch].freed
         /\ y.pc = "append" => chan'[y.ch].nusers >= 1
    BY <1>2, <1>3, <1>5, <1>12, <1>25
  <1> QED
    BY <1>12, <1>13, <1>26, <1>27, JoiningOrder

LEMMA JoinAppendOrder ==
  ASSUME ChannelSafe, Order, NEW t \in Thread, JoinAppend(t)
  PROVE  Order'
  <1>1. /\ task[t] \in TaskRec /\ task \in [Thread -> TaskRec]
        /\ InRole(task[t]) /\ Knows(task[t])
        /\ chan \in [Channel -> ChanRec]
        /\ \A k \in Channel : /\ Len(chan[k].members) \in Nat /\ chan[k].nusers \in Int
                              /\ chan[k].members \in Seq(Thread)
    BY HandlerFacts DEF ChannelSafe, ChanTypes
  <1>2. task[t].pc = "append"
    BY DEF JoinAppend, At
  <1>3. PICK x \in TaskRec : x = task[t]
    BY <1>1
  <1>4. x.pc = "append" /\ InRole(x) /\ Knows(x)
    BY <1>1, <1>2, <1>3
  <1>5. PICK k \in Channel : k = x.ch /\ ~chan[k].freed /\ x.op = "JOIN" /\ chan[k].nusers >= 1
    BY <1>4 DEF InRole, Knows, Present, Measured, OnChannel, Steps
  <1>6. x.c \in Thread
    BY <1>3, <1>4, <1>5 DEF ChannelSafe, Fits, ForItself
  <1>7. PICK c \in ChanRec : c = chan[k]
    BY <1>1
  <1>8. PICK m \in Seq(Thread) : m = Append(c.members, x.c)
    <2>1. c.members \in Seq(Thread)
      BY <1>1, <1>7
    <2>2. Append(c.members, x.c) \in Seq(Thread)
      BY <1>6, <2>1, AppendProperties
    <2> QED
      BY <2>2
  <1>9. m # <<>> /\ Len(m) = Len(c.members) + 1
    BY <1>1, <1>6, <1>7, <1>8
  <1>10. PICK z : z = [c EXCEPT !.members = m]
    OBVIOUS
  <1>11. /\ z.name = c.name /\ z.members = m /\ z.nusers = c.nusers
         /\ z.freed = c.freed /\ z.topic = c.topic /\ z.reader = c.reader
    BY <1>10 DEF ChanRec
  <1>12. PICK y : y = [x EXCEPT !.pc = "head"]
    OBVIOUS
  <1>13. y \in TaskRec /\ y.pc = "head" /\ y.op = "JOIN" /\ y.ch = k
    BY <1>5, <1>12 DEF TaskRec, Steps
  <1>14. /\ chan' = [chan EXCEPT ![k] = z] /\ task' = [task EXCEPT ![t] = y]
         /\ channelList' = channelList /\ listing' = listing /\ misuse' = misuse
         /\ client' = client
    <2>1. ~Gone(t)
      BY <1>3, <1>5 DEF Gone
    <2>2. /\ chan' = [chan EXCEPT ![task[t].ch].members = Append(@, task[t].c)]
          /\ Goes(t, "head") /\ UNCHANGED <<channelList, listing>> /\ Quietly
      BY <2>1 DEF JoinAppend
    <2>3. chan' = [chan EXCEPT ![k] = z]
      BY <1>1, <1>3, <1>5, <1>7, <1>8, <1>10, <2>2
    <2>4. task' = [task EXCEPT ![t] = y]
      BY <1>1, <1>3, <1>12, <2>2 DEF Goes
    <2> QED
      BY <2>2, <2>3, <2>4 DEF Quietly, vars
  <1>15. chan'[k] = z /\ \A l \in Channel : l # k => chan'[l] = chan[l]
    BY <1>1, <1>14
  <1>16. task'[t] = y /\ \A u \in Thread : u # t => task'[u] = task[u]
    BY <1>1, <1>14
  <1>17. Entered(k)' = Entered(k)
    <2>1. Entering(k)' = Entering(k) \ {t} /\ t \in Entering(k)
      BY <1>2, <1>3, <1>5, <1>13, <1>16 DEF Entering
    <2>2. IsFiniteSet(Entering(k)) /\ Cardinality(Entering(k)) \in Nat
      BY EnteredFacts
    <2>3. Cardinality(Entering(k)') = Cardinality(Entering(k)) - 1
      BY <2>1, <2>2, FS_RemoveElement
    <2>4. Len(chan'[k].members) = Len(chan[k].members) + 1
      BY <1>7, <1>9, <1>11, <1>15
    <2> QED
      BY <1>1, <2>2, <2>3, <2>4 DEF Entered
  <1>18. \A l \in Channel : l # k => Entered(l)' = Entered(l)
    <2>1. ASSUME NEW l \in Channel, l # k PROVE Entering(l)' = Entering(l)
      BY <1>3, <1>5, <1>13, <1>16, <2>1 DEF Entering
    <2> QED
      BY <1>15, <2>1 DEF Entered
  <1>19. \A l \in Channel : Entered(l) \in Nat
    BY EnteredFacts
  <1>20. \A l \in Channel :
           /\ chan'[l].freed = chan[l].freed /\ chan'[l].topic = chan[l].topic
           /\ chan'[l].reader = chan[l].reader /\ chan'[l].name = chan[l].name
           /\ chan'[l].nusers = chan[l].nusers
    BY <1>7, <1>11, <1>15
  <1>21. \A l \in Channel : Entered(l)' \in Int /\ Entered(l) <= Entered(l)'
    BY <1>17, <1>18, <1>19
  <1>22. ASSUME NEW l \in Channel
         PROVE  /\ Len(chan'[l].members) \in Nat /\ Len(chan[l].members) <= Len(chan'[l].members)
                /\ chan'[l].members # <<>> => chan[l].members # <<>> \/ chan'[l].nusers >= 1
                /\ chan[l].members # <<>> => chan'[l].members # <<>>
    <2>1. CASE l = k
      <3>1. chan'[l].members = m /\ chan'[l].nusers >= 1
        BY <1>5, <1>11, <1>15, <1>20, <2>1
      <3> QED
        BY <1>1, <1>7, <1>9, <2>1, <3>1
    <2>2. CASE l # k
      BY <1>1, <1>15, <2>2
    <2> QED
      BY <2>1, <2>2
  <1>23. \A l \in Channel : InList(channelList', l) => ~chan[l].freed /\ InList(channelList, l)
    BY <1>14, HandlerFacts
  <1>24. \A l \in Channel : Carries(task[t], l) => chan'[l].members # <<>>
    BY <1>3, <1>4, <1>5, <1>9, <1>11, <1>15 DEF Carries
  <1>25. \A l \in Channel :
           /\ chan'[l].freed = chan[l].freed /\ chan'[l].topic = chan[l].topic
           /\ chan'[l].reader = chan[l].reader
           /\ chan'[l].name \in {chan[l].name} \union Names
           /\ chan'[l].nusers \in Int /\ Len(chan'[l].members) \in Nat /\ Entered(l)' \in Int
           /\ Len(chan[l].members) <= Len(chan'[l].members)
           /\ Entered(l) <= Entered(l)'
           /\ \/ chan'[l].nusers = chan[l].nusers
              \/ chan'[l].nusers >= 1 /\ chan'[l].nusers <= Entered(l)'
           /\ chan'[l].members # <<>> => chan[l].members # <<>> \/ chan'[l].nusers >= 1
           /\ chan[l].members # <<>> => chan'[l].members # <<>>
           /\ InList(channelList', l) => ~chan[l].freed
           /\ InList(channelList', l) =>
                \/ chan'[l].members # <<>> \/ Carries(y, l)
                \/ InList(channelList, l) /\ ~Carries(task[t], l)
    BY <1>1, <1>20, <1>21, <1>22, <1>23, <1>24
  <1>26. /\ task[t].pc \in {"create", "enter", "append"} /\ task[t].op = "JOIN"
         /\ y.pc \in {"link", "append", "head"} /\ y.op = "JOIN"
         /\ y.ch \in Channel /\ ~chan[y.ch].freed
         /\ y.pc = "append" => chan'[y.ch].nusers >= 1
    BY <1>2, <1>3, <1>5, <1>13
  <1> QED
    BY <1>13, <1>14, <1>25, <1>26, JoiningOrder

LEMMA CreateOrder ==
  ASSUME ChannelSafe, Order, NEW t \in Thread, Create(t)
  PROVE  Order'
  <1>1. /\ task[t] \in TaskRec /\ task \in [Thread -> TaskRec]
        /\ InRole(task[t]) /\ Knows(task[t])
        /\ chan \in [Channel -> ChanRec] /\ channelList \in Seq(Channel)
        /\ \A k \in Channel : /\ Len(chan[k].members) \in Nat /\ chan[k].nusers \in Int
                              /\ chan[k].members \in Seq(Thread)
    BY HandlerFacts DEF ChannelSafe, ChanTypes
  <1>2. task[t].pc = "create"
    BY DEF Create, At
  <1>3. PICK x \in TaskRec : x = task[t]
    BY <1>1
  <1>4. x.pc = "create" /\ x.op = "JOIN" /\ x.name \in Names
    BY <1>1, <1>2, <1>3 DEF InRole
  <1>5. PICK k \in Channel :
          /\ chan[k].name = Null
          /\ chan' = [chan EXCEPT ![k].name = x.name]
          /\ channelList' = Append(channelList, k)
          /\ task' = [task EXCEPT ![t].pc = "link", ![t].ch = k, ![t].pos = 0]
    BY <1>3 DEF Create
  <1>6. ~chan[k].freed
    <2>1. Null \notin Names
      BY ChannelsAssumption
    <2>2. chan[k].freed => chan[k].name \in Names
      BY DEF Order, Valid
    <2> QED
      BY <1>5, <2>1, <2>2
  <1>7. PICK c \in ChanRec : c = chan[k]
    BY <1>1
  <1>8. PICK z : z = [c EXCEPT !.name = x.name]
    OBVIOUS
  <1>9. /\ z.name \in Names /\ z.members = c.members /\ z.nusers = c.nusers
        /\ z.freed = c.freed /\ z.topic = c.topic /\ z.reader = c.reader
    BY <1>4, <1>8 DEF ChanRec
  <1>10. PICK y : y = [x EXCEPT !.pc = "link", !.ch = k, !.pos = 0]
    OBVIOUS
  <1>11. y \in TaskRec /\ y.pc = "link" /\ y.op = "JOIN" /\ y.ch = k
    BY <1>4, <1>10 DEF TaskRec, Steps
  <1>12. /\ chan' = [chan EXCEPT ![k] = z] /\ task' = [task EXCEPT ![t] = y]
         /\ listing' = listing /\ misuse' = misuse /\ client' = client
    BY <1>1, <1>3, <1>5, <1>7, <1>8, <1>10 DEF Create, vars
  <1>13. chan'[k] = z /\ \A l \in Channel : l # k => chan'[l] = chan[l]
    BY <1>1, <1>12
  <1>14. task'[t] = y /\ \A u \in Thread : u # t => task'[u] = task[u]
    BY <1>1, <1>12
  <1>15. \A l \in Channel :
           /\ chan'[l].freed = chan[l].freed /\ chan'[l].topic = chan[l].topic
           /\ chan'[l].reader = chan[l].reader /\ chan'[l].members = chan[l].members
           /\ chan'[l].nusers = chan[l].nusers
           /\ chan'[l].name \in {chan[l].name} \union Names
    BY <1>7, <1>9, <1>13
  <1>16. \A l : Entering(l)' = Entering(l)
    BY <1>2, <1>11, <1>14 DEF Entering
  <1>17. \A l \in Channel : Entered(l)' = Entered(l) /\ Entered(l) \in Nat
    BY <1>15, <1>16, EnteredFacts DEF Entered
  <1>18. \A l \in Channel : InList(channelList', l) => InList(channelList, l) \/ l = k
    BY <1>1, <1>5 DEF InList
  <1>19. \A l \in Channel : InList(channelList, l) => ~chan[l].freed
    BY HandlerFacts
  <1>20. Carries(y, k) /\ \A l : ~Carries(task[t], l)
    BY <1>2, <1>11 DEF Carries
  <1>21. \A l \in Channel :
           /\ chan'[l].freed = chan[l].freed /\ chan'[l].topic = chan[l].topic
           /\ chan'[l].reader = chan[l].reader
           /\ chan'[l].name \in {chan[l].name} \union Names
           /\ chan'[l].nusers \in Int /\ Len(chan'[l].members) \in Nat /\ Entered(l)' \in Int
           /\ Len(chan[l].members) <= Len(chan'[l].members)
           /\ Entered(l) <= Entered(l)'
           /\ \/ chan'[l].nusers = chan[l].nusers
              \/ chan'[l].nusers >= 1 /\ chan'[l].nusers <= Entered(l)'
           /\ chan'[l].members # <<>> => chan[l].members # <<>> \/ chan'[l].nusers >= 1
           /\ chan[l].members # <<>> => chan'[l].members # <<>>
           /\ InList(channelList', l) => ~chan[l].freed
           /\ InList(channelList', l) =>
                \/ chan'[l].members # <<>> \/ Carries(y, l)
                \/ InList(channelList, l) /\ ~Carries(task[t], l)
    BY <1>1, <1>6, <1>15, <1>17, <1>18, <1>19, <1>20
  <1>22. /\ task[t].pc \in {"create", "enter", "append"} /\ task[t].op = "JOIN"
         /\ y.pc \in {"link", "append", "head"} /\ y.op = "JOIN"
         /\ y.ch \in Channel /\ ~chan[y.ch].freed
         /\ y.pc = "append" => chan'[y.ch].nusers >= 1
    BY <1>2, <1>3, <1>4, <1>6, <1>11
  <1> QED
    BY <1>11, <1>12, <1>21, <1>22, JoiningOrder

(* What is known when a PART or a TOPIC takes a step: nobody else is in a  *)
(* handler.                                                                *)
LEMMA LoneFacts ==
  ASSUME ChannelSafe, Order, NEW t \in Thread, task[t].pc # "idle", task[t].op \in Freeing
  PROVE  /\ \A u \in Thread : u # t => task[u].pc = "idle"
         /\ listing = Null /\ \A k \in Channel : chan[k].reader = Null
         /\ \A k \in Channel :
              /\ chan[k].topic # "freed" \/ (task[t].pc = "replace" /\ task[t].ch = k)
              /\ chan[k].freed => chan[k].name \in Names
              /\ chan[k].nusers >= 0
              /\ \/ chan[k].nusers <= Len(chan[k].members)
                 \/ /\ task[t].pc \in {"leave", "left"} /\ task[t].ch = k
                    /\ chan[k].nusers <= Len(chan[k].members) + 1
              /\ chan[k].members # <<>> =>
                   chan[k].nusers >= 1 \/ (task[t].pc \in {"empty", "destroy"} /\ task[t].ch = k)
              /\ InList(channelList, k) => chan[k].members # <<>> \/ Carries(task[t], k)
  <1>1. \A u \in Thread : u # t => task[u].pc = "idle"
    BY OthersIdle
  <1>2. /\ Iterating /\ Valid /\ UsersCounted /\ Peopled /\ ChanTypes
        /\ task[t].pc = "naming" => task[t].op = "NAMES"
        /\ task[t].pc = "append" => task[t].op = "JOIN"
        /\ task[t].name = Null => task[t].op \in {"NAMES", "LIST"}
    BY ChannelsAssumption DEF Order, ChannelSafe, Fits, InRole
  <1>3. listing = Null
    <2>1. ASSUME NEW u \in Thread, listing = u PROVE FALSE
      BY <1>1, <1>2, <2>1 DEF Iterating, Freeing
    <2> QED
      BY <1>2, <2>1 DEF ChanTypes
  <1>4. ASSUME NEW k \in Channel PROVE chan[k].reader = Null
    <2>1. ASSUME NEW u \in Thread, chan[k].reader = u PROVE FALSE
      BY <1>1, <1>2, <2>1 DEF Iterating, Freeing
    <2>2. chan[k].reader \in Thread \union {Null}
      BY <1>2, ChannelFacts DEF ChanRec
    <2> QED
      BY <2>1, <2>2
  <1>5. ASSUME NEW k \in Channel PROVE Len(chan[k].members) + Cardinality(Entering(k)) = Len(chan[k].members)
    <2>1. Entering(k) = {}
      BY <1>1, <1>2 DEF Entering, Freeing
    <2>2. Cardinality(Entering(k)) = 0
      BY <2>1, FS_EmptySet
    <2>3. Len(chan[k].members) \in Nat
      BY <1>2, ChannelFacts
    <2> QED
      BY <2>2, <2>3
  <1>6. \A k, pcs : "idle" \notin pcs /\ Removing(k, pcs) => task[t].pc \in pcs /\ task[t].ch = k
    BY <1>1 DEF Removing
  <1>7. ASSUME NEW k \in Channel
        PROVE  /\ chan[k].topic # "freed" \/ (task[t].pc = "replace" /\ task[t].ch = k)
               /\ chan[k].freed => chan[k].name \in Names
    BY <1>1, <1>2 DEF Valid
  <1>8. ASSUME NEW k \in Channel
        PROVE  /\ chan[k].nusers >= 0
               /\ \/ chan[k].nusers <= Len(chan[k].members)
                  \/ /\ task[t].pc \in {"leave", "left"} /\ task[t].ch = k
                     /\ chan[k].nusers <= Len(chan[k].members) + 1
               /\ chan[k].members # <<>> =>
                    chan[k].nusers >= 1 \/ (task[t].pc \in {"empty", "destroy"} /\ task[t].ch = k)
    <2>1. /\ Removing(k, {"leave", "left"}) => task[t].pc \in {"leave", "left"} /\ task[t].ch = k
          /\ Removing(k, {"empty", "destroy"}) =>
               task[t].pc \in {"empty", "destroy"} /\ task[t].ch = k
      BY <1>6
    <2> QED
      BY <1>2, <1>5, <2>1 DEF UsersCounted
  <1>9. ASSUME NEW k \in Channel, InList(channelList, k)
        PROVE  chan[k].members # <<>> \/ Carries(task[t], k)
    <2>1. \A u \in Thread : Carries(task[u], k) => u = t
      BY <1>1 DEF Carries
    <2> QED
      BY <1>2, <1>9, <2>1 DEF Peopled
  <1> QED
    BY <1>1, <1>3, <1>4, <1>7, <1>8, <1>9

(* A step of a PART or a TOPIC.                                            *)
LEMMA LoneOrder ==
  ASSUME ChannelSafe, Order, NEW t \in Thread, NEW y \in TaskRec,
         task[t].pc # "idle", task[t].op \in Freeing,
         task' = [task EXCEPT ![t] = y], listing' = listing, misuse' = misuse,
         y.pc \notin {"append"},
         \A k \in Channel :
           /\ chan'[k].reader = chan[k].reader
           /\ chan'[k].topic # "freed" \/ (y.pc = "replace" /\ y.ch = k)
           /\ chan'[k].freed => chan'[k].name \in Names
           /\ InList(channelList', k) => ~chan'[k].freed
           /\ Len(chan'[k].members) \in Nat
           /\ chan'[k].nusers >= 0
           /\ \/ chan'[k].nusers <= Len(chan'[k].members)
              \/ /\ y.pc \in {"leave", "left"} /\ y.ch = k
                 /\ chan'[k].nusers <= Len(chan'[k].members) + 1
           /\ chan'[k].members # <<>> =>
                chan'[k].nusers >= 1 \/ (y.pc \in {"empty", "destroy"} /\ y.ch = k)
           /\ InList(channelList', k) => chan'[k].members # <<>> \/ Carries(y, k),
         Knows(y)'
  PROVE  Order'
  <1>1. /\ \A u \in Thread : u # t => task[u].pc = "idle"
        /\ listing = Null /\ \A k \in Channel : chan[k].reader = Null
    BY LoneFacts
  <1>2. /\ task'[t] = y /\ \A u \in Thread : u # t => task'[u] = task[u]
        /\ Null \notin Thread
    BY HandlerFacts
  <1>3. \A u \in Thread : u # t => task'[u].pc = "idle"
    BY <1>1, <1>2
  <1>4. ~misuse'
    BY DEF Order
  <1>5. Alone'
    BY <1>3 DEF Alone, Active
  <1>6. Iterating'
    BY <1>1, <1>2 DEF Iterating
  <1>7. Valid'
    <2>1. \A k : InList(channelList, k)' <=> InList(channelList', k)
      BY DEF InList
    <2> QED
      BY <1>2, <2>1 DEF Valid
  <1>8. UsersCounted'
    <2>1. ASSUME NEW k \in Channel
          PROVE  Len(chan'[k].members) + Cardinality(Entering(k)') = Len(chan'[k].members)
      <3>1. Entering(k)' = {}
        BY <1>2, <1>3 DEF Entering
      <3>2. Cardinality(Entering(k)') = 0
        BY <3>1, FS_EmptySet
      <3> QED
        BY <3>2
    <2>2. \A k, pcs : y.pc \in pcs /\ y.ch = k => Removing(k, pcs)'
      BY <1>2 DEF Removing
    <2>3. ASSUME NEW k \in Channel
          PROVE  /\ y.pc \in {"leave", "left"} /\ y.ch = k => Removing(k, {"leave", "left"})'
                 /\ y.pc \in {"empty", "destroy"} /\ y.ch = k => Removing(k, {"empty", "destroy"})'
      BY <2>2
    <2> QED
      BY <2>1, <2>3 DEF UsersCounted
  <1>9. Peopled'
    <2>1. \A k : Carries(task[t], k)' <=> Carries(y, k)
      BY <1>2 DEF Carries
    <2>2. \A k : InList(channelList, k)' <=> InList(channelList', k)
      BY DEF InList
    <2> QED
      BY <2>1, <2>2 DEF Peopled
  <1>10. ASSUME NEW u \in Thread PROVE Knows(task[u])'
    <2>1. CASE u = t
      BY <1>2, <2>1
    <2>2. CASE u # t
      <3>1. PICK z : z = task'[u] /\ z.pc = "idle"
        BY <1>3, <2>2
      <3>2. Knows(z)'
        BY <3>1, IdleKnows
      <3> QED
        BY <3>1, <3>2
    <2> QED
      BY <2>1, <2>2
  <1> QED
    BY <1>4, <1>5, <1>6, <1>7, <1>8, <1>9, <1>10 DEF Order

(* A step of a PART or a TOPIC on its channel.                             *)
LEMMA LoneStep ==
  ASSUME ChannelSafe, Order, NEW t \in Thread, NEW y \in TaskRec, NEW k \in Channel,
         NEW z \in ChanRec,
         task[t].pc # "idle", task[t].op \in Freeing, task[t].ch = k,
         task' = [task EXCEPT ![t] = y], chan' = [chan EXCEPT ![k] = z],
         listing' = listing, misuse' = misuse,
         \A l \in Channel : InList(channelList', l) => InList(channelList, l),
         y.pc # "append", z.reader = chan[k].reader,
         z.topic # "freed" \/ (y.pc = "replace" /\ y.ch = k),
         z.freed => z.name \in Names,
         InList(channelList', k) => ~z.freed,
         z.nusers >= 0,
         \/ z.nusers <= Len(z.members)
         \/ y.pc \in {"leave", "left"} /\ y.ch = k /\ z.nusers <= Len(z.members) + 1,
         z.members # <<>> => z.nusers >= 1 \/ (y.pc \in {"empty", "destroy"} /\ y.ch = k),
         InList(channelList', k) => z.members # <<>> \/ Carries(y, k),
         Knows(y)'
  PROVE  Order'
  <1>1. /\ chan'[k] = z /\ \A l \in Channel : l # k => chan'[l] = chan[l]
    BY DEF ChannelSafe, ChanTypes
  <1>2. ASSUME NEW l \in Channel
        PROVE  /\ chan'[l].reader = chan[l].reader
               /\ chan'[l].topic # "freed" \/ (y.pc = "replace" /\ y.ch = l)
               /\ chan'[l].freed => chan'[l].name \in Names
               /\ InList(channelList', l) => ~chan'[l].freed
               /\ Len(chan'[l].members) \in Nat
               /\ chan'[l].nusers >= 0
               /\ \/ chan'[l].nusers <= Len(chan'[l].members)
                  \/ /\ y.pc \in {"leave", "left"} /\ y.ch = l
                     /\ chan'[l].nusers <= Len(chan'[l].members) + 1
               /\ chan'[l].members # <<>> =>
                    chan'[l].nusers >= 1 \/ (y.pc \in {"empty", "destroy"} /\ y.ch = l)
               /\ InList(channelList', l) => chan'[l].members # <<>> \/ Carries(y, l)
    <2>1. CASE l = k
      <3>1. Len(z.members) \in Nat
        BY DEF ChanRec
      <3> QED
        BY <1>1, <2>1, <3>1
    <2>2. CASE l # k
      <3>1. chan'[l] = chan[l]
        BY <1>1, <2>2
      <3>2. /\ chan[l].topic # "freed"
            /\ chan[l].freed => chan[l].name \in Names
            /\ chan[l].nusers >= 0 /\ chan[l].nusers <= Len(chan[l].members)
            /\ chan[l].members # <<>> => chan[l].nusers >= 1
        BY <2>2, LoneFacts
      <3>3. InList(channelList, l) => chan[l].members # <<>>
        BY <2>2, LoneFacts DEF Carries
      <3>4. Len(chan[l].members) \in Nat /\ (InList(channelList, l) => ~chan[l].freed)
        BY HandlerFacts
      <3> QED
        BY <3>1, <3>2, <3>3, <3>4
    <2> QED
      BY <2>1, <2>2
  <1> QED
    BY <1>2, LoneOrder

(* What such a step starts from.                                           *)
LEMMA LoneHandler ==
  ASSUME ChannelSafe, Order, NEW t \in Thread,
         task[t].pc \in {"free", "replace", "delete", "leave", "left", "empty", "destroy"}
  PROVE  /\ task[t] \in TaskRec /\ task \in [Thread -> TaskRec] /\ chan \in [Channel -> ChanRec]
         /\ Knows(task[t]) /\ task[t].ch \in Channel /\ task[t].op \in Freeing
         /\ task[t].pc \in {"free", "replace"} => task[t].op = "TOPIC"
         /\ task[t].pc \notin {"free", "replace"} => task[t].op = "REMOVE"
         /\ ~chan[task[t].ch].freed /\ task[t].name \in Names
         /\ InRole(task[t])
  <1>1. /\ task[t] \in TaskRec /\ task \in [Thread -> TaskRec] /\ chan \in [Channel -> ChanRec]
        /\ InRole(task[t]) /\ Knows(task[t])
    BY HandlerFacts DEF ChannelSafe, ChanTypes
  <1>2. /\ task[t].pc \in {"free", "replace"} => task[t].op = "TOPIC"
        /\ task[t].pc \notin {"free", "replace"} => task[t].op = "REMOVE"
    BY <1>1 DEF InRole
  <1>3. task[t].ch \in Channel /\ ~chan[task[t].ch].freed /\ task[t].name \in Names
    BY <1>1, <1>2 DEF InRole, Knows, Present, OnChannel, Steps
  <1>4. task[t].op \in Freeing
    BY <1>2 DEF Freeing
  <1> QED
    BY <1>1, <1>2, <1>3, <1>4

LEMMA TopicFreeOrder ==
  ASSUME ChannelSafe, Order, NEW t \in Thread, TopicFree(t)
  PROVE  Order'
  <1>1. task[t].pc = "free"
    BY DEF TopicFree, At
  <1>2. PICK x \in TaskRec, k \in Channel : x = task[t] /\ k = x.ch
    BY <1>1, LoneHandler
  <1>3. /\ x.pc = "free" /\ x.op = "TOPIC" /\ x.op \in Freeing /\ ~chan[k].freed
        /\ task \in [Thread -> TaskRec] /\ chan \in [Channel -> ChanRec]
    BY <1>1, <1>2, LoneHandler
  <1>4. PICK c \in ChanRec : c = chan[k]
    BY <1>3
  <1>5. chan[k].topic # "freed"
    BY <1>1, TopicIsSet
  <1>6. PICK z : z = [c EXCEPT !.topic = "freed"]
    OBVIOUS
  <1>7. /\ z \in ChanRec /\ z.name = c.name /\ z.members = c.members /\ z.nusers = c.nusers
        /\ z.freed = c.freed /\ z.topic = "freed" /\ z.reader = c.reader
    BY <1>6 DEF ChanRec
  <1>8. PICK y : y = [x EXCEPT !.pc = "replace"]
    OBVIOUS
  <1>9. y \in TaskRec /\ y.pc = "replace" /\ y.op = "TOPIC" /\ y.ch = k
    BY <1>2, <1>3, <1>8 DEF TaskRec, Steps
  <1>10. /\ chan' = [chan EXCEPT ![task[t].ch].topic = "freed"] /\ Goes(t, "replace")
         /\ channelList' = channelList /\ listing' = listing /\ misuse' = misuse
    BY <1>2, <1>3, <1>5 DEF TopicFree, Gone, Quietly
  <1>11. chan' = [chan EXCEPT ![k] = z] /\ task' = [task EXCEPT ![t] = y]
    BY <1>2, <1>3, <1>4, <1>6, <1>8, <1>10 DEF Goes
  <1>12. chan'[k] = z
    BY <1>3, <1>11
  <1>13. Knows(y)'
    BY <1>3, <1>4, <1>7, <1>9, <1>12 DEF Knows, Present, Measured, Parting
  <1>14. /\ c.nusers >= 0 /\ c.nusers <= Len(c.members)
         /\ c.members # <<>> => c.nusers >= 1
         /\ InList(channelList, k) => c.members # <<>>
    BY <1>2, <1>3, <1>4, LoneFacts DEF Carries
  <1>15. \A l : InList(channelList', l) <=> InList(channelList, l)
    BY <1>10
  <1>16. task[t].pc # "idle" /\ task[t].op \in Freeing /\ task[t].ch = k /\ y.pc # "append"
    BY <1>2, <1>3, <1>9
  <1>17. /\ z.topic # "freed" \/ (y.pc = "replace" /\ y.ch = k)
         /\ z.reader = chan[k].reader /\ ~z.freed /\ z.nusers >= 0
         /\ z.nusers <= Len(z.members)
         /\ z.members # <<>> => z.nusers >= 1
         /\ InList(channelList', k) => z.members # <<>>
    BY <1>3, <1>4, <1>7, <1>9, <1>14, <1>15
  <1> QED
    BY <1>7, <1>9, <1>10, <1>11, <1>13, <1>15, <1>16, <1>17, LoneStep

LEMMA TopicReplaceOrder ==
  ASSUME ChannelSafe, Order, NEW t \in Thread, TopicReplace(t)
  PROVE  Order'
  <1>1. task[t].pc = "replace"
    BY DEF TopicReplace, At
  <1>2. PICK x \in TaskRec, k \in Channel : x = task[t] /\ k = x.ch
    BY <1>1, LoneHandler
  <1>3. /\ x.pc = "replace" /\ x.op = "TOPIC" /\ x.op \in Freeing /\ ~chan[k].freed
        /\ task \in [Thread -> TaskRec] /\ chan \in [Channel -> ChanRec]
    BY <1>1, <1>2, LoneHandler
  <1>4. PICK c \in ChanRec : c = chan[k]
    BY <1>3
  <1>6. PICK z : z = [c EXCEPT !.topic = "set"]
    OBVIOUS
  <1>7. /\ z \in ChanRec /\ z.name = c.name /\ z.members = c.members /\ z.nusers = c.nusers
        /\ z.freed = c.freed /\ z.topic = "set" /\ z.reader = c.reader
    BY <1>6 DEF ChanRec
  <1>8. PICK y : y = [x EXCEPT !.pc = "head"]
    OBVIOUS
  <1>9. y \in TaskRec /\ y.pc = "head" /\ y.op = "TOPIC" /\ y.ch = k
    BY <1>2, <1>3, <1>8 DEF TaskRec, Steps
  <1>10. /\ chan' = [chan EXCEPT ![task[t].ch].topic = "set"] /\ Goes(t, "head")
         /\ channelList' = channelList /\ listing' = listing /\ misuse' = misuse
    BY DEF TopicReplace, Quietly
  <1>11. chan' = [chan EXCEPT ![k] = z] /\ task' = [task EXCEPT ![t] = y]
    BY <1>2, <1>3, <1>4, <1>6, <1>8, <1>10 DEF Goes
  <1>12. chan'[k] = z
    BY <1>3, <1>11
  <1>13. Knows(y)'
    BY <1>3, <1>4, <1>7, <1>9, <1>12 DEF Knows, Present, Measured, Parting
  <1>14. /\ c.nusers >= 0 /\ c.nusers <= Len(c.members)
         /\ c.members # <<>> => c.nusers >= 1
         /\ InList(channelList, k) => c.members # <<>>
    BY <1>2, <1>3, <1>4, LoneFacts DEF Carries
  <1>15. \A l : InList(channelList', l) <=> InList(channelList, l)
    BY <1>10
  <1>16. task[t].pc # "idle" /\ task[t].op \in Freeing /\ task[t].ch = k /\ y.pc # "append"
    BY <1>2, <1>3, <1>9
  <1>17. /\ z.topic # "freed" \/ (y.pc = "replace" /\ y.ch = k)
         /\ z.reader = chan[k].reader /\ ~z.freed /\ z.nusers >= 0
         /\ z.nusers <= Len(z.members)
         /\ z.members # <<>> => z.nusers >= 1
         /\ InList(channelList', k) => z.members # <<>>
    BY <1>3, <1>4, <1>7, <1>9, <1>14, <1>15
  <1> QED
    BY <1>7, <1>9, <1>10, <1>11, <1>13, <1>15, <1>16, <1>17, LoneStep

LEMMA IsFirstAgain ==
  ASSUME channelList \in Seq(Channel), channelList' = channelList,
         \A l \in Channel : chan'[l].name = chan[l].name, NEW i, NEW name
  PROVE  IsFirst(i, name)' <=> IsFirst(i, name)
  <1>1. \A j \in 1..Len(channelList) : channelList[j] \in Channel
    OBVIOUS
  <1>2. ASSUME NEW m \in 1..Len(channelList), NEW j \in 1..(m - 1)
        PROVE  j \in 1..Len(channelList)
    BY Len(channelList) \in Nat
  <1>3. \A j \in 1..Len(channelList) : chan'[channelList[j]].name = chan[channelList[j]].name
    BY <1>1
  <1> QED
    BY <1>2, <1>3 DEF IsFirst

(* A name has one first position.                                          *)
LEMMA OneFirst ==
  ASSUME channelList \in Seq(Channel), NEW i, NEW j, NEW name, IsFirst(i, name), IsFirst(j, name)
  PROVE  i = j
  <1>1. /\ i \in 1..Len(channelList) /\ j \in 1..Len(channelList) /\ Len(channelList) \in Nat
        /\ ~(i \in 1..(j - 1)) /\ ~(j \in 1..(i - 1))
    BY DEF IsFirst
  <1> QED
    BY <1>1

(* The channel of a PART is the first of its name.                         *)
LEMMA ItsChannel ==
  ASSUME ChannelSafe, Order, NEW t \in Thread,
         task[t].pc \in {"delete", "leave", "left", "empty", "destroy"}
  PROVE  /\ chan[task[t].ch].name = task[t].name
         /\ \E i \in 1..Len(channelList) :
              IsFirst(i, task[t].name) /\ task[t].ch = channelList[i]
         /\ InList(channelList, task[t].ch)
  <1>1. task[t].op = "REMOVE" /\ Parting(task[t]) /\ task[t].pc \in OnChannel
    BY LoneHandler DEF Knows, OnChannel, Steps
  <1>2. PICK i \in 1..Len(channelList) :
          IsFirst(i, task[t].name) /\ task[t].ch = channelList[i]
    BY <1>1 DEF Parting
  <1> QED
    BY <1>2 DEF IsFirst, InList

LEMMA LeaveReadOrder ==
  ASSUME ChannelSafe, Order, NEW t \in Thread, LeaveRead(t)
  PROVE  Order'
  <1>1. task[t].pc = "leave"
    BY DEF LeaveRead, ReadUsers, At
  <1>2. PICK x \in TaskRec, k \in Channel : x = task[t] /\ k = x.ch
    BY <1>1, LoneHandler
  <1>3. /\ x.pc = "leave" /\ x.op = "REMOVE" /\ x.op \in Freeing /\ ~chan[k].freed /\ Knows(x)
        /\ task \in [Thread -> TaskRec] /\ chan \in [Channel -> ChanRec]
        /\ channelList \in Seq(Channel)
    BY <1>1, <1>2, LoneHandler, HandlerFacts
  <1>4. PICK c \in ChanRec : c = chan[k]
    BY <1>3
  <1>5. c.nusers \in Int /\ c.nusers >= 1
    <2>1. chan[x.ch].nusers >= 1
      BY <1>3 DEF Knows, Parting
    <2> QED
      BY <1>2, <1>4, <2>1 DEF ChanRec
  <1>6. PICK n \in Int : n = c.nusers
    BY <1>5
  <1>7. PICK y : y = [x EXCEPT !.pc = "left", !.n = n]
    OBVIOUS
  <1>8. /\ y \in TaskRec /\ y.pc = "left" /\ y.op = "REMOVE" /\ y.ch = k /\ y.n = n
        /\ y.name = x.name
    BY <1>2, <1>3, <1>7 DEF TaskRec, Steps
  <1>9. /\ task' = [task EXCEPT ![t].pc = "left", ![t].n = chan[task[t].ch].nusers]
        /\ chan' = chan /\ channelList' = channelList /\ listing' = listing /\ misuse' = misuse
    BY DEF LeaveRead, ReadUsers, lists, Quietly
  <1>10. task' = [task EXCEPT ![t] = y] /\ chan' = [chan EXCEPT ![k] = c]
    BY <1>2, <1>3, <1>4, <1>6, <1>7, <1>9
  <1>11. Knows(y)'
    <2>1. PICK i \in 1..Len(channelList) : IsFirst(i, y.name) /\ k = channelList[i]
      BY <1>1, <1>2, <1>8, ItsChannel
    <2>2. IsFirst(i, y.name)'
      BY <1>3, <1>9, <2>1, IsFirstAgain
    <2>3. Parting(y)'
      BY <1>4, <1>5, <1>6, <1>8, <1>9, <2>1, <2>2 DEF Parting
    <2>4. Present(y)' /\ Measured(y)'
      BY <1>3, <1>8, <1>9 DEF Present, Measured
    <2> QED
      BY <2>3, <2>4 DEF Knows
  <1>12. c.nusers <= Len(c.members) \/ c.nusers <= Len(c.members) + 1
    BY <1>1, <1>2, <1>3, <1>4, LoneFacts
  <1>13. Len(c.members) \in Nat
    BY DEF ChanRec
  <1>14. /\ task[t].pc # "idle" /\ task[t].op \in Freeing /\ task[t].ch = k /\ y.pc # "append"
         /\ \A l : InList(channelList', l) <=> InList(channelList, l)
    BY <1>2, <1>3, <1>8, <1>9
  <1>15. /\ c.topic # "freed" /\ c.reader = chan[k].reader /\ ~c.freed /\ c.nusers >= 0
         /\ y.pc \in {"leave", "left"} /\ y.ch = k /\ c.nusers <= Len(c.members) + 1
         /\ c.nusers >= 1 /\ Carries(y, k)
    <2>1. c.topic # "freed"
      BY <1>1, <1>4, TopicIsSet
    <2> QED
      BY <1>3, <1>4, <1>5, <1>8, <1>12, <1>13, <2>1 DEF Carries
  <1> QED
    BY <1>8, <1>9, <1>10, <1>11, <1>14, <1>15, LoneStep

LEMMA LeaveWriteOrder ==
  ASSUME ChannelSafe, Order, NEW t \in Thread, LeaveWrite(t)
  PROVE  Order'
  <1>1. task[t].pc = "left"
    BY DEF LeaveWrite, WriteUsers, At
  <1>2. PICK x \in TaskRec, k \in Channel : x = task[t] /\ k = x.ch
    BY <1>1, LoneHandler
  <1>3. /\ x.pc = "left" /\ x.op = "REMOVE" /\ x.op \in Freeing /\ ~chan[k].freed /\ Knows(x)
        /\ task \in [Thread -> TaskRec] /\ chan \in [Channel -> ChanRec]
        /\ channelList \in Seq(Channel)
    BY <1>1, <1>2, LoneHandler, HandlerFacts
  <1>4. PICK c \in ChanRec : c = chan[k]
    BY <1>3
  <1>5. c.nusers \in Int /\ c.nusers >= 1 /\ x.n = c.nusers
    <2>1. x.n = chan[x.ch].nusers /\ x.n >= 1
      BY <1>3 DEF Knows, Parting
    <2> QED
      BY <1>2, <1>4, <2>1 DEF ChanRec
  <1>6. PICK n \in Int : n = x.n + -1 /\ n = c.nusers - 1
    BY <1>5
  <1>7. PICK z : z = [c EXCEPT !.nusers = n]
    OBVIOUS
  <1>8. /\ z \in ChanRec /\ z.name = c.name /\ z.members = c.members /\ z.nusers = n
        /\ z.freed = c.freed /\ z.topic = c.topic /\ z.reader = c.reader
    BY <1>7 DEF ChanRec
  <1>9. PICK y : y = [x EXCEPT !.pc = "empty", !.n = 0]
    OBVIOUS
  <1>10. y \in TaskRec /\ y.pc = "empty" /\ y.op = "REMOVE" /\ y.ch = k /\ y.name = x.name
    <2>1. 0 \in Int
      OBVIOUS
    <2> QED
      BY <1>2, <1>3, <1>9, <2>1 DEF TaskRec, Steps
  <1>11. /\ chan' = [chan EXCEPT ![task[t].ch].nusers = task[t].n + -1]
         /\ task' = [task EXCEPT ![t].pc = "empty", ![t].n = 0]
         /\ channelList' = channelList /\ listing' = listing /\ misuse' = misuse
    BY DEF LeaveWrite, WriteUsers, Quietly
  <1>12. task' = [task EXCEPT ![t] = y] /\ chan' = [chan EXCEPT ![k] = z]
    <2>1. task' = [task EXCEPT ![t] = y]
      BY <1>2, <1>3, <1>9, <1>11
    <2>2. chan' = [chan EXCEPT ![k] = z]
      BY <1>2, <1>3, <1>4, <1>6, <1>7, <1>11
    <2> QED
      BY <2>1, <2>2
  <1>13. chan'[k] = z /\ \A l \in Channel : l # k => chan'[l] = chan[l]
    BY <1>3, <1>12
  <1>14. Knows(y)'
    <2>1. PICK i \in 1..Len(channelList) : IsFirst(i, y.name) /\ k = channelList[i]
      BY <1>1, <1>2, <1>10, ItsChannel
    <2>2. \A l \in Channel : chan'[l].name = chan[l].name
      BY <1>4, <1>8, <1>13
    <2>3. IsFirst(i, y.name)'
      BY <1>3, <1>11, <2>1, <2>2, IsFirstAgain
    <2>4. Parting(y)'
      BY <1>10, <1>11, <2>1, <2>3 DEF Parting
    <2>5. Present(y)' /\ Measured(y)'
      BY <1>3, <1>4, <1>8, <1>10, <1>13 DEF Present, Measured
    <2> QED
      BY <2>4, <2>5 DEF Knows
  <1>15. Len(c.members) \in Nat
    BY DEF ChanRec
  <1>16. c.nusers <= Len(c.members) \/ c.nusers <= Len(c.members) + 1
    BY <1>1, <1>2, <1>3, <1>4, LoneFacts
  <1>17. /\ task[t].pc # "idle" /\ task[t].op \in Freeing /\ task[t].ch = k /\ y.pc # "append"
         /\ \A l : InList(channelList', l) <=> InList(channelList, l)
    BY <1>2, <1>3, <1>10, <1>11
  <1>18. n >= 0 /\ n <= Len(c.members)
    BY <1>5, <1>6, <1>15, <1>16
  <1>19. /\ z.topic # "freed" /\ z.reader = chan[k].reader /\ ~z.freed /\ z.nusers >= 0
         /\ z.nusers <= Len(z.members)
         /\ y.pc \in {"empty", "destroy"} /\ y.ch = k /\ Carries(y, k)
    <2>1. c.topic # "freed"
      BY <1>1, <1>4, TopicIsSet
    <2> QED
      BY <1>3, <1>4, <1>8, <1>10, <1>18, <2>1 DEF Carries
  <1> QED
    BY <1>8, <1>10, <1>11, <1>12, <1>14, <1>17, <1>19, LoneStep

(* The list without one of its channels.                                   *)
LEMMA CutLists ==
  ASSUME NEW s \in Seq(Channel), NEW i \in 1..Len(s), Distinct(s)
  PROVE  \A l : InList(Cut(s, i), l) <=> l # s[i] /\ InList(s, l)
  <1>1. \A j, n \in 1..Len(s) : j # n => s[j] # s[n]
    BY DEF Distinct
  <1> DEFINE r == Cut(s, i)
  <1>2. /\ r \in Seq(Channel)
        /\ \A j, n \in 1..Len(r) : j # n => r[j] # r[n]
        /\ \A x : (\E j \in 1..Len(r) : r[j] = x)
                 <=> x # s[i] /\ \E j \in 1..Len(s) : s[j] = x
    BY <1>1, CutKeeps
  <1> HIDE DEF r
  <1>3. \A l : InList(r, l) <=> l # s[i] /\ InList(s, l)
    BY <1>2 DEF InList
  <1> QED
    BY <1>3 DEF r

LEMMA EmptyOrder ==
  ASSUME ChannelSafe, Order, NEW t \in Thread, Empty(t)
  PROVE  Order'
  <1>1. task[t].pc = "empty"
    BY DEF Empty, At
  <1>2. PICK x \in TaskRec, k \in Channel : x = task[t] /\ k = x.ch
    BY <1>1, LoneHandler
  <1>3. /\ x.pc = "empty" /\ x.op = "REMOVE" /\ x.op \in Freeing /\ ~chan[k].freed
        /\ task \in [Thread -> TaskRec] /\ chan \in [Channel -> ChanRec]
        /\ channelList \in Seq(Channel)
    BY <1>1, <1>2, LoneHandler, HandlerFacts
  <1>4. PICK c \in ChanRec : c = chan[k]
    BY <1>3
  <1>5. /\ c.nusers >= 0 /\ c.nusers <= Len(c.members) /\ c.topic # "freed"
        /\ c.nusers \in Int /\ Len(c.members) \in Nat
    <2>1. c.nusers \in Int /\ Len(c.members) \in Nat
      BY DEF ChanRec
    <2>2. c.topic # "freed"
      BY <1>1, <1>4, TopicIsSet
    <2>3. c.nusers >= 0 /\ c.nusers <= Len(c.members)
      BY <1>1, <1>2, <1>3, <1>4, LoneFacts
    <2> QED
      BY <2>1, <2>2, <2>3
  <1>6. PICK i : i = LocateChannel(chan[k].name)
    OBVIOUS
  <1>7. IF chan[k].nusers # 0 THEN Ends(t) /\ UNCHANGED lists /\ Quietly
        ELSE /\ task' = [task EXCEPT ![t].pc = "destroy", ![t].pos = i]
             /\ UNCHANGED lists /\ Quietly
    BY <1>2, <1>3, <1>6, NamesAreValid DEF Empty, Gone
  <1>8. /\ chan' = chan /\ channelList' = channelList /\ listing' = listing /\ misuse' = misuse
        /\ chan' = [chan EXCEPT ![k] = c]
        /\ \A l \in Channel : InList(channelList', l) => InList(channelList, l)
    <2>1. chan' = chan /\ channelList' = channelList /\ listing' = listing /\ misuse' = misuse
      BY <1>7 DEF lists, Quietly
    <2> QED
      BY <1>3, <1>4, <2>1
  <1>9. /\ task[t].pc # "idle" /\ task[t].op \in Freeing /\ task[t].ch = k
        /\ c.reader = chan[k].reader /\ ~c.freed
    BY <1>2, <1>3, <1>4
  <1>10. CASE c.nusers # 0
    <2>1. PICK y \in TaskRec : y = Idle
      BY IdleFits
    <2>2. y.pc = "idle"
      BY <2>1 DEF Idle
    <2>3. Knows(y)'
      BY <2>2, IdleKnows
    <2>4. task' = [task EXCEPT ![t] = y]
      BY <1>4, <1>7, <1>10, <2>1 DEF Ends
    <2>5. c.nusers >= 1 /\ c.members # <<>>
      BY <1>5, <1>10
    <2> QED
      BY <1>5, <1>8, <1>9, <2>2, <2>3, <2>4, <2>5, LoneStep
  <1>11. CASE c.nusers = 0
    <2>1. PICK j \in 1..Len(channelList) : IsFirst(j, x.name) /\ k = channelList[j]
      BY <1>1, <1>2, ItsChannel
    <2>2. chan[k].name = x.name
      BY <2>1 DEF IsFirst
    <2>3. i \in 1..Len(channelList) /\ IsFirst(i, x.name)
      <3>1. i # 0
        BY <1>3, <1>6, <2>1, LocateFacts
      <3>2. IsFirst(i, x.name)
        BY <1>3, <1>6, <2>2, <3>1, LocateFacts
      <3> QED
        BY <3>2 DEF IsFirst
    <2>4. PICK y : y = [x EXCEPT !.pc = "destroy", !.pos = i]
      OBVIOUS
    <2>5. /\ y \in TaskRec /\ y.pc = "destroy" /\ y.pos = i /\ y.op = "REMOVE" /\ y.ch = k
          /\ y.name = x.name
      <3>1. i \in Nat
        BY <2>3
      <3> QED
        BY <1>2, <1>3, <2>4, <3>1 DEF TaskRec, Steps
    <2>6. task' = [task EXCEPT ![t] = y]
      BY <1>2, <1>3, <1>4, <1>7, <1>11, <2>4
    <2>7. Knows(y)'
      <3>1. IsFirst(i, y.name)' /\ IsFirst(j, y.name)'
        BY <1>3, <1>8, <2>1, <2>3, <2>5, IsFirstAgain
      <3>2. Parting(y)'
        BY <1>4, <1>8, <1>11, <2>1, <2>5, <3>1 DEF Parting
      <3>3. Present(y)' /\ Measured(y)'
        BY <1>3, <1>8, <2>5 DEF Present, Measured
      <3> QED
        BY <3>2, <3>3 DEF Knows
    <2>8. y.pc # "append" /\ y.pc \in {"empty", "destroy"} /\ Carries(y, k)
      BY <2>5 DEF Carries
    <2> QED
      BY <1>5, <1>8, <1>9, <2>5, <2>6, <2>7, <2>8, LoneStep
  <1> QED
    BY <1>10, <1>11

LEMMA RemoveOrder ==
  ASSUME ChannelSafe, Order, NEW t \in Thread, Remove(t)
  PROVE  Order'
  <1>1. task[t].pc = "delete"
    BY DEF Remove, At
  <1>2. PICK x \in TaskRec, k \in Channel : x = task[t] /\ k = x.ch
    BY <1>1, LoneHandler
  <1>3. /\ x.pc = "delete" /\ x.op = "REMOVE" /\ x.op \in Freeing /\ ~chan[k].freed /\ Knows(x)
        /\ task \in [Thread -> TaskRec] /\ chan \in [Channel -> ChanRec]
        /\ channelList \in Seq(Channel)
    BY <1>1, <1>2, LoneHandler, HandlerFacts
  <1>4. PICK c \in ChanRec : c = chan[k]
    BY <1>3
  <1>5. /\ c.members \in Seq(Thread) /\ Len(c.members) \in Nat /\ c.nusers \in Int
        /\ x.pos \in 1..Len(c.members)
    <2>1. x.pos \in 1..Len(chan[x.ch].members)
      BY <1>3 DEF Knows, Parting
    <2> QED
      BY <1>2, <1>4, <2>1 DEF ChanRec
  <1>6. /\ c.nusers <= Len(c.members) /\ c.topic # "freed"
        /\ c.nusers >= 1
    <2>1. c.members # <<>>
      BY <1>5
    <2>2. c.topic # "freed"
      BY <1>1, <1>4, TopicIsSet
    <2>3. /\ c.nusers <= Len(c.members)
          /\ c.members # <<>> => c.nusers >= 1
      BY <1>1, <1>2, <1>3, <1>4, LoneFacts
    <2> QED
      BY <2>1, <2>2, <2>3
  <1>7. MembersUnlocked(t)
    BY <1>1, <1>2, <1>3, LoneFacts DEF MembersUnlocked
  <1>8. PICK b \in BOOLEAN : b = FALSE
    OBVIOUS
  <1>9. PICK r : r = Without(c.members, x.pos, b)
    OBVIOUS
  <1>10. r \in Seq(Thread) /\ Len(r) = Len(c.members) - 1
    <2>1. PICK s, i : s = c.members /\ i = x.pos
      OBVIOUS
    <2>2. s \in Seq(Thread) /\ i \in 1..Len(s) /\ i \in DOMAIN s
      BY <1>5, <2>1
    <2>3. r = Cut(s, i)
      BY <1>8, <1>9, <2>1, <2>2 DEF Without, Cut
    <2>4. Cut(s, i) \in Seq(Thread) /\ Len(Cut(s, i)) = Len(s) - 1
      BY <2>2, CutFacts
    <2> QED
      BY <2>1, <2>3, <2>4
  <1>11. /\ chan' = [chan EXCEPT ![k].members = r]
         /\ task' = [task EXCEPT ![t].pc = "leave", ![t].pos = 0]
         /\ channelList' = channelList /\ listing' = listing /\ misuse' = misuse
    <2>1. Without(chan[k].members, x.pos, ~MembersUnlocked(t)) = r
      BY <1>4, <1>7, <1>8, <1>9
    <2>2. ~Gone(t)
      BY <1>2, <1>3 DEF Gone
    <2> QED
      BY <1>2, <2>1, <2>2 DEF Remove, Quietly
  <1>12. PICK z : z = [c EXCEPT !.members = r]
    OBVIOUS
  <1>13. /\ z \in ChanRec /\ z.name = c.name /\ z.members = r /\ z.nusers = c.nusers
         /\ z.freed = c.freed /\ z.topic = c.topic /\ z.reader = c.reader
    BY <1>10, <1>12 DEF ChanRec
  <1>14. PICK y : y = [x EXCEPT !.pc = "leave", !.pos = 0]
    OBVIOUS
  <1>15. y \in TaskRec /\ y.pc = "leave" /\ y.op = "REMOVE" /\ y.ch = k /\ y.name = x.name
    BY <1>2, <1>3, <1>14 DEF TaskRec, Steps
  <1>16. task' = [task EXCEPT ![t] = y] /\ chan' = [chan EXCEPT ![k] = z]
    <2>1. task' = [task EXCEPT ![t] = y]
      BY <1>2, <1>3, <1>11, <1>14
    <2>2. chan' = [chan EXCEPT ![k] = z]
      BY <1>3, <1>4, <1>11, <1>12
    <2> QED
      BY <2>1, <2>2
  <1>17. chan'[k] = z /\ \A l \in Channel : l # k => chan'[l] = chan[l]
    BY <1>3, <1>16
  <1>18. Knows(y)'
    <2>1. PICK i \in 1..Len(channelList) : IsFirst(i, y.name) /\ k = channelList[i]
      BY <1>1, <1>2, <1>15, ItsChannel
    <2>2. \A l \in Channel : chan'[l].name = chan[l].name
      BY <1>4, <1>13, <1>17
    <2>3. IsFirst(i, y.name)'
      BY <1>3, <1>11, <2>1, <2>2, IsFirstAgain
    <2>4. Parting(y)'
      BY <1>6, <1>11, <1>13, <1>15, <1>17, <2>1, <2>3 DEF Parting
    <2>5. Present(y)' /\ Measured(y)'
      BY <1>3, <1>4, <1>13, <1>15, <1>17 DEF Present, Measured
    <2> QED
      BY <2>4, <2>5 DEF Knows
  <1>19. /\ task[t].pc # "idle" /\ task[t].op \in Freeing /\ task[t].ch = k /\ y.pc # "append"
         /\ \A l : InList(channelList', l) <=> InList(channelList, l)
    BY <1>2, <1>3, <1>11, <1>15
  <1>20. /\ z.topic # "freed" /\ z.reader = chan[k].reader /\ ~z.freed /\ z.nusers >= 0
         /\ y.pc \in {"leave", "left"} /\ y.ch = k /\ z.nusers <= Len(z.members) + 1
         /\ z.nusers >= 1 /\ Carries(y, k)
    BY <1>3, <1>4, <1>5, <1>6, <1>10, <1>13, <1>15 DEF Carries
  <1> QED
    BY <1>11, <1>13, <1>15, <1>16, <1>18, <1>19, <1>20, LoneStep

LEMMA DestroyOrder ==
  ASSUME ChannelSafe, Order, NEW t \in Thread, Destroy(t)
  PROVE  Order'
  <1>1. task[t].pc = "destroy"
    BY DEF Destroy, At
  <1>2. PICK x \in TaskRec, k \in Channel : x = task[t] /\ k = x.ch
    BY <1>1, LoneHandler
  <1>3. /\ x.pc = "destroy" /\ x.op = "REMOVE" /\ x.op \in Freeing /\ ~chan[k].freed /\ Knows(x)
        /\ task \in [Thread -> TaskRec] /\ chan \in [Channel -> ChanRec]
        /\ channelList \in Seq(Channel) /\ ListedOnce
    BY <1>1, <1>2, LoneHandler, HandlerFacts DEF ChannelSafe
  <1>4. PICK c \in ChanRec : c = chan[k]
    BY <1>3
  <1>5. PICK j \in 1..Len(channelList) : IsFirst(j, x.name) /\ k = channelList[j]
    BY <1>1, <1>2, ItsChannel
  <1>6. x.pos = j /\ c.nusers = 0
    <2>1. IsFirst(x.pos, x.name) /\ chan[x.ch].nusers = 0
      BY <1>3 DEF Knows, Parting
    <2>2. x.pos = j
      BY <1>3, <1>5, <2>1, OneFirst
    <2> QED
      BY <1>2, <1>4, <2>1, <2>2
  <1>7. c.topic # "freed" /\ listing = Null /\ MembersUnlocked(t)
    <2>1. c.topic # "freed"
      BY <1>1, <1>4, TopicIsSet
    <2>2. listing = Null /\ chan[k].reader = Null
      BY <1>1, <1>2, <1>3, LoneFacts
    <2> QED
      BY <1>2, <2>1, <2>2 DEF MembersUnlocked
  <1>8. PICK y \in TaskRec : y = Idle
    BY IdleFits
  <1>9. PICK z : z = [c EXCEPT !.freed = TRUE, !.members = <<>>]
    OBVIOUS
  <1>10. /\ z \in ChanRec /\ z.name = c.name /\ z.members = <<>> /\ z.nusers = c.nusers
         /\ z.freed /\ z.topic = c.topic /\ z.reader = c.reader
    <2>1. <<>> \in Seq(Thread)
      OBVIOUS
    <2> QED
      BY <1>9, <2>1 DEF ChanRec
  <1>11. /\ channelList' = Unlist(t) /\ Ends(t) /\ listing' = listing /\ misuse' = misuse
         /\ chan' = [chan EXCEPT ![k].freed = TRUE, ![k].members = <<>>]
    BY <1>2, <1>3, <1>4, <1>7 DEF Destroy, Gone
  <1>12. task' = [task EXCEPT ![t] = y] /\ chan' = [chan EXCEPT ![k] = z]
    <2>1. chan' = [chan EXCEPT ![k] = z]
      BY <1>3, <1>4, <1>9, <1>11
    <2> QED
      BY <1>8, <1>11, <2>1 DEF Ends
  <1>13. channelList' = Cut(channelList, j)
    <2>1. j \in DOMAIN channelList /\ listing = Null
      BY <1>3, <1>7
    <2> QED
      BY <1>2, <1>6, <1>11, <2>1 DEF Unlist, Without, Cut
  <1>14. \A l : InList(channelList', l) <=> l # k /\ InList(channelList, l)
    <2>1. PICK s : s = channelList
      OBVIOUS
    <2>2. s \in Seq(Channel) /\ j \in 1..Len(s) /\ Distinct(s) /\ k = s[j]
      BY <1>3, <1>5, <2>1 DEF ListedOnce
    <2>3. \A l : InList(Cut(s, j), l) <=> l # s[j] /\ InList(s, l)
      BY <2>2, CutLists
    <2> QED
      BY <1>13, <2>1, <2>2, <2>3
  <1>15. z.name \in Names
    <2>1. InList(channelList, k)
      BY <1>5 DEF InList
    <2> QED
      BY <1>3, <1>4, <1>10, <2>1 DEF ListedOnce
  <1>16. y.pc = "idle"
    BY <1>8 DEF Idle
  <1>17. Knows(y)'
    BY <1>16, IdleKnows
  <1>18. /\ task[t].pc # "idle" /\ task[t].op \in Freeing /\ task[t].ch = k /\ y.pc # "append"
         /\ \A l \in Channel : InList(channelList', l) => InList(channelList, l)
         /\ ~InList(channelList', k)
    BY <1>2, <1>3, <1>14, <1>16
  <1>19. /\ z.topic # "freed" /\ z.reader = chan[k].reader /\ z.nusers >= 0
         /\ z.nusers <= Len(z.members) /\ z.members = <<>>
    BY <1>4, <1>6, <1>7, <1>10
  <1> QED
    BY <1>10, <1>11, <1>12, <1>15, <1>17, <1>18, <1>19, LoneStep

(* A handler begins: beside others only if none of them takes anything     *)
(* apart.                                                                  *)
LEMMA StartOrder ==
  ASSUME ChannelSafe, Order, NEW t \in Thread, NEW y \in TaskRec,
         task[t].pc = "idle", task' = [task EXCEPT ![t] = y],
         chan' = chan, channelList' = channelList, listing' = listing,
         misuse' = misuse, client' = client,
         y.pc \in {"locate", "iterate"}, InRole(y),
         \A u \in Thread : u # t /\ task[u].pc # "idle" =>
           y.op \notin Freeing /\ task[u].op \notin Freeing
  PROVE  Order'
  <1>0. ChanTypes /\ \A u \in Thread : InRole(task[u])
    BY DEF ChannelSafe, Fits
  <1>1. /\ ~misuse /\ Alone /\ Iterating /\ Valid /\ UsersCounted /\ Peopled
        /\ \A u \in Thread : Knows(task[u])
    BY DEF Order
  <1>2. /\ task'[t] = y /\ \A u \in Thread : u # t => task'[u] = task[u]
        /\ Null \notin Thread /\ channelList \in Seq(Channel)
    BY <1>0, ChannelFacts DEF ChanTypes
  <1>3. Alone'
    <2>1. ASSUME NEW u \in Thread, NEW v \in Thread, u # v, Active(u)', Active(v)'
          PROVE  task'[u].op \notin Freeing
      <3>1. CASE u = t
        BY <1>2, <2>1, <3>1 DEF Active
      <3>2. CASE u # t /\ v = t
        BY <1>2, <2>1, <3>2 DEF Active
      <3>3. CASE u # t /\ v # t
        <4>1. Active(u) /\ Active(v)
          BY <1>2, <2>1, <3>3 DEF Active
        <4> QED
          BY <1>1, <1>2, <2>1, <3>3, <4>1 DEF Alone
      <3> QED
        BY <3>1, <3>2, <3>3
    <2> QED
      BY <2>1 DEF Alone
  <1>4. Iterating'
    <2>1. ASSUME NEW u \in Thread, listing = u
          PROVE  task'[u].pc \in {"each", "names", "naming", "show"} /\ task'[u].name = Null
      BY <1>1, <1>2, <2>1 DEF Iterating
    <2>2. ASSUME NEW k \in Channel, NEW u \in Thread, chan[k].reader = u
          PROVE  task'[u].pc = "naming" /\ task'[u].ch = k
      BY <1>1, <1>2, <2>2 DEF Iterating
    <2> QED
      BY <2>1, <2>2 DEF Iterating
  <1>5. Valid'
    <2>1. ASSUME NEW k \in Channel, chan[k].topic = "freed"
          PROVE  \E u \in Thread : task'[u].pc = "replace" /\ task'[u].ch = k
      BY <1>1, <1>2, <2>1 DEF Valid
    <2> QED
      BY <1>1, <2>1 DEF Valid, InList
  <1>6. \A k : Entering(k)' = Entering(k)
    BY <1>2 DEF Entering
  <1>7. UsersCounted'
    <2>1. \A k : /\ Removing(k, {"leave", "left"}) => Removing(k, {"leave", "left"})'
                 /\ Removing(k, {"empty", "destroy"}) => Removing(k, {"empty", "destroy"})'
      BY <1>2 DEF Removing
    <2> QED
      BY <1>1, <1>6, <2>1 DEF UsersCounted
  <1>8. Peopled'
    <2>1. ASSUME NEW k \in Channel, NEW u \in Thread, Carries(task[u], k)
          PROVE  Carries(task'[u], k)
      BY <1>2, <2>1 DEF Carries
    <2>2. \A k \in Channel : InList(channelList, k) =>
            chan[k].members # <<>> \/ \E u \in Thread : Carries(task'[u], k)
      BY <1>1, <2>1 DEF Peopled
    <2>3. \A k \in Channel, u \in Thread : Carries(task[u], k)' <=> Carries(task'[u], k)
      BY DEF Carries
    <2> QED
      BY <2>2, <2>3 DEF Peopled, InList
  <1>9. Knows(y)
    BY DEF Knows, Present, Measured, Parting, OnChannel
  <1>10. ASSUME NEW u \in Thread PROVE Knows(task[u])'
    <2>1. PICK z : z = task'[u]
      OBVIOUS
    <2>2. Knows(z) /\ InRole(z)
      BY <1>0, <1>1, <1>2, <1>9, <2>1
    <2>3. z.pc \in OnChannel => z.ch \in Channel
      BY <2>2 DEF InRole
    <2>4. \A k \in Channel : Kept(k) /\ Entering(k)' = Entering(k)
      BY <1>6 DEF Kept
    <2>5. Knows(z)'
      BY <1>2, <2>2, <2>3, <2>4, KnowsAgain
    <2> QED
      BY <2>1, <2>5
  <1> QED
    BY <1>1, <1>3, <1>4, <1>5, <1>7, <1>8, <1>10 DEF Order

(* A message arrives.                                                      *)
LEMMA CommandOrder ==
  ASSUME IrcSafe, ChannelSafe, Orderly, NEW t \in Thread, NEW op, NEW name,
         Command(t, op, name),
         \/ op \in Commands /\ name \in Names
         \/ op \in {"NAMES", "LIST"} /\ name = Null
  PROVE  Orderly'
  <1>1. SUFFICES ASSUME ~overlapped' PROVE Order'
    BY DEF Orderly
  <1>2. PICK others : others = {u \in Thread \ {t} : task[u] # Idle}
    OBVIOUS
  <1>3. /\ overlapped' = (overlapped \/ \E u \in others : {op, task[u].op} \cap Freeing # {})
        /\ thr[t].pc = "recv" /\ task[t] = Idle /\ UNCHANGED lists /\ misuse' = misuse
    BY <1>2 DEF Command, Ready
  <1>4. Order /\ \A u \in others : {op, task[u].op} \cap Freeing = {}
    BY <1>1, <1>3 DEF Orderly
  <1>5. /\ chan' = chan /\ channelList' = channelList /\ listing' = listing
        /\ misuse' = misuse
    BY <1>3 DEF lists
  <1>6. PICK c : c = Seek(thr[t].fd)
    OBVIOUS
  <1>7. CASE c = Null /\ op \in Asking
    <2>1. client' = client /\ task' = task
      BY <1>6, <1>7 DEF Command, Crash
    <2> QED
      BY <1>4, <1>5, <2>1, SameOrder
  <1>8. CASE ~(c = Null /\ op \in Asking)
    <2>0. IrcTypes /\ Listed /\ ChanTypes
      BY DEF IrcSafe, ChannelSafe
    <2>1. PICK p : p = IF name = Null THEN "iterate" ELSE "locate"
      OBVIOUS
    <2>2. PICK fd \in Fd : fd = thr[t].fd
      <3>1. thr[t].fd # Null
        BY DEF Command
      <3>2. thr[t] \in ThreadRec
        BY <2>0 DEF IrcTypes
      <3> QED
        BY <3>1, <3>2 DEF ThreadRec
    <2>3. PICK y : y = [Idle EXCEPT !.pc = p, !.op = op, !.name = name, !.fd = fd, !.c = c]
      OBVIOUS
    <2>4. op \in Ops /\ name \in Names \union {Null} /\ p \in {"iterate", "locate"}
      BY <2>1 DEF Ops, Commands
    <2>5. /\ y.pc = p /\ y.op = op /\ y.name = name
      BY <2>3 DEF Idle
    <2>6. c \in Thread \union {Null}
      <3>1. clientList \in Seq(Thread)
        BY <2>0 DEF IrcTypes
      <3> QED
        BY <1>6, <2>0, <2>2, <3>1, SeekFacts DEF Listed, Young
    <2>7. y \in TaskRec
      BY <2>3, <2>4, <2>6, IdleFits DEF TaskRec, Steps
    <2>8. task' = [task EXCEPT ![t] = y] /\ UNCHANGED vars
      BY <1>6, <1>8, <2>1, <2>2, <2>3 DEF Command
    <2>9. client' = client
      BY <2>8 DEF vars
    <2>10. Null \notin Names
      BY <2>0, ChannelFacts
    <2>11. InRole(y)
      BY <2>1, <2>4, <2>5, <2>10 DEF InRole, OnChannel, Steps, Commands
    <2>12. task[t].pc = "idle"
      BY <1>3 DEF Idle
    <2>13. ASSUME NEW u \in Thread, u # t, task[u].pc # "idle"
           PROVE  y.op \notin Freeing /\ task[u].op \notin Freeing
      <3>1. u \in others
        BY <1>2, <2>13 DEF Idle
      <3>2. {op, task[u].op} \cap Freeing = {}
        BY <1>4, <3>1
      <3> QED
        BY <2>5, <3>2
    <2> QED
      BY <1>4, <1>5, <2>4, <2>5, <2>7, <2>8, <2>9, <2>11, <2>12, <2>13, StartOrder
  <1> QED
    BY <1>7, <1>8

(* The connections touch no channel, and no descriptor of a member.        *)
LEMMA ConnectionOrder ==
  ASSUME IrcSafe, ChannelSafe, Order, NEW t \in Thread, Connection(t)
  PROVE  Order'
  <1>1. ChanTypes /\ Started /\ \A u \in Thread : InRole(task[u])
    BY DEF ChannelSafe, Fits
  <1>2. /\ chan' = chan /\ channelList' = channelList /\ listing' = listing /\ task' = task
        /\ misuse' = misuse
    BY DEF Connection, channelVars
  <1>3. \A c \in Thread : thr[c].pc \notin Young => client'[c].fd = client[c].fd
    BY <1>1, ConnectionKeeps DEF Connection, Started
  <1>4. \A k \in Channel : \A i \in 1..Len(chan[k].members) : FdOf(k, i)' = FdOf(k, i)
    <2>1. \A k \in Channel : \A i \in 1..Len(chan[k].members) :
            chan[k].members[i] \in Thread /\ thr[chan[k].members[i]].pc \notin Young
      BY <1>1, ChannelFacts DEF Started
    <2> QED
      BY <1>2, <1>3, <2>1 DEF FdOf
  <1>5. /\ ~misuse /\ Alone /\ Iterating /\ Valid /\ UsersCounted /\ Peopled
        /\ \A u \in Thread : Knows(task[u])
    BY DEF Order
  <1>6. Alone' /\ Valid' /\ Iterating'
    BY <1>2, <1>5 DEF Alone, Active, Valid, InList, Iterating
  <1>7. \A k : Entering(k)' = Entering(k)
    BY <1>2 DEF Entering
  <1>8. UsersCounted' /\ Peopled'
    BY <1>2, <1>5, <1>7 DEF UsersCounted, Removing, Peopled, Carries, InList
  <1>9. ASSUME NEW u \in Thread PROVE Knows(task[u])'
    <2>1. PICK z : z = task[u]
      OBVIOUS
    <2>2. Knows(z) /\ (z.pc \in OnChannel => z.ch \in Channel)
      BY <1>1, <1>5, <2>1 DEF InRole
    <2>3. Present(z)'
      BY <1>2, <2>2 DEF Knows, Present
    <2>4. Measured(z)'
      BY <1>2, <1>7, <2>2 DEF Knows, Measured
    <2>5. Parting(z)'
      <3>1. \A i, name : IsFirst(i, name)' <=> IsFirst(i, name)
        BY <1>2 DEF IsFirst
      <3>2. z.pc \in OnChannel => (HasMember(z)' <=> HasMember(z))
        <4> SUFFICES ASSUME z.pc \in OnChannel PROVE HasMember(z)' <=> HasMember(z)
          OBVIOUS
        <4>1. PICK k \in Channel : k = z.ch
          BY <2>2
        <4>2. \A i \in 1..Len(chan[k].members) : FdOf(k, i)' = FdOf(k, i)
          BY <1>4
        <4> QED
          BY <1>2, <4>1, <4>2 DEF HasMember
      <3> QED
        BY <1>2, <2>2, <3>1, <3>2 DEF Knows, Parting, OnChannel, Steps
    <2>6. Knows(z)'
      BY <2>3, <2>4, <2>5 DEF Knows
    <2> QED
      BY <1>2, <2>1, <2>6
  <1> QED
    BY <1>2, <1>5, <1>6, <1>8, <1>9 DEF Order

(* The steps of a handler do not count as running beside another one (it   *)
(* is when a message arrives that this is seen), but lookups that go wrong *)
(* beside an addition are counted.                                         *)
LEMMA HandleKeeps ==
  ASSUME NEW t \in Thread, Handle(t)
  PROVE  overlapped' = overlapped \/ overlapped' = TRUE
  <1>1. /\ Misuse => overlapped' = overlapped
        /\ Quietly => overlapped' = overlapped
        /\ UNCHANGED history => overlapped' = overlapped
    BY DEF Misuse, Quietly, history
  <1>2. CASE FindLocate(t) \/ FindGet(t) \/ Create(t) \/ Link(t)
    BY <1>1, <1>2 DEF FindLocate, FindGet, Create, Link
  <1>3. CASE Copy(t) \/ Check(t) \/ Show(t) \/ IterateEnd(t)
    BY <1>1, <1>3 DEF Copy, Check, Show, IterateEnd
  <1>4. CASE JoinRead(t) \/ JoinWrite(t) \/ LeaveRead(t) \/ LeaveWrite(t)
    BY <1>1, <1>4 DEF JoinRead, JoinWrite, LeaveRead, LeaveWrite, ReadUsers, WriteUsers
  <1>5. CASE JoinAppend(t) \/ MessageCopy(t) \/ MessageAll(t)
    BY <1>1, <1>5 DEF JoinAppend, MessageCopy, MessageAll
  <1>6. CASE TopicFree(t) \/ TopicReplace(t) \/ Member(t) \/ Remove(t)
    BY <1>1, <1>6 DEF TopicFree, TopicReplace, Member, Remove
  <1>7. CASE Empty(t) \/ Destroy(t)
    BY <1>1, <1>7 DEF Empty, Destroy
  <1>8. CASE NamesStart(t) \/ NamesStop(t) \/ Iterate(t) \/ Each(t)
    BY <1>1, <1>8 DEF NamesStart, NamesStop, Iterate, Each
  <1>9. CASE LocateHalfway(t) \/ GetHalfway(t) \/ Astray(t)
    BY <1>9 DEF LocateHalfway, GetHalfway, Astray
  <1> QED
    BY <1>2, <1>3, <1>4, <1>5, <1>6, <1>7, <1>8, <1>9 DEF Handle

(* The steps of a handler.                                                 *)
LEMMA HandleOrder ==
  ASSUME IrcSafe, ChannelSafe, Order, NEW t \in Thread, Handle(t), overlapped' # TRUE
  PROVE  Order'
  <1>0. ~LocateHalfway(t) /\ ~GetHalfway(t) /\ ~Astray(t)
    BY DEF LocateHalfway, GetHalfway, Astray
  <1>1. CASE FindLocate(t) \/ FindGet(t) \/ Create(t) \/ Link(t) \/ Copy(t) \/ Check(t)
    BY <1>1, FindLocateOrder, FindGetOrder, CreateOrder, LinkOrder, CopyOrder, CheckOrder
  <1>2. CASE JoinRead(t) \/ JoinWrite(t) \/ JoinAppend(t)
    BY <1>2, JoinReadOrder, JoinWriteOrder, JoinAppendOrder
  <1>3. CASE MessageCopy(t) \/ MessageAll(t) \/ Show(t)
    BY <1>3, MessageCopyOrder, MessageAllOrder, ShowOrder
  <1>4. CASE TopicFree(t) \/ TopicReplace(t)
    BY <1>4, TopicFreeOrder, TopicReplaceOrder
  <1>5. CASE Member(t)
    <2>1. IrcTypes
      BY DEF IrcSafe
    <2> QED
      BY <1>5, <2>1, MemberOrder
  <1>6. CASE Remove(t) \/ LeaveRead(t) \/ LeaveWrite(t)
    BY <1>6, RemoveOrder, LeaveReadOrder, LeaveWriteOrder
  <1>7. CASE Empty(t) \/ Destroy(t)
    BY <1>7, EmptyOrder, DestroyOrder
  <1>8. CASE NamesStart(t) \/ NamesStop(t)
    BY <1>8, NamesStartOrder, NamesStopOrder
  <1>9. CASE Iterate(t) \/ Each(t) \/ IterateEnd(t)
    BY <1>9, IterateOrder, EachOrder, IterateEndOrder
  <1> QED
    BY <1>0, <1>1, <1>2, <1>3, <1>4, <1>5, <1>6, <1>7, <1>8, <1>9 DEF Handle

LEMMA NothingOrder ==
  ASSUME ChannelSafe, Orderly, client' = client, UNCHANGED channelVars
  PROVE  Orderly'
  <1>1. /\ chan' = chan /\ channelList' = channelList /\ task' = task
        /\ listing' = listing /\ misuse' = misuse /\ overlapped' = overlapped
    BY DEF channelVars
  <1>2. Order => Order'
    BY <1>1, SameOrder
  <1> QED
    BY <1>1, <1>2 DEF Orderly

LEMMA ChannelNextOrder ==
  ASSUME IrcSafe, ChannelSafe, Orderly, ChannelNext
  PROVE  Orderly'
  <1>1. CASE ~misuse /\ AcceptFails /\ UNCHANGED channelVars
    BY <1>1, NothingOrder DEF AcceptFails
  <1>2. ASSUME NEW t \in Thread, Connection(t) PROVE Orderly'
    <2>1. overlapped' = overlapped
      BY <1>2 DEF Connection, channelVars
    <2>2. Order => Order'
      BY <1>2, ConnectionOrder
    <2> QED
      BY <2>1, <2>2 DEF Orderly
  <1>3. ASSUME NEW t \in Thread, NEW op \in Commands, NEW name \in Names, Command(t, op, name)
        PROVE  Orderly'
    <2>1. op \in Commands /\ name \in Names
      OBVIOUS
    <2> QED
      BY <1>3, <2>1, CommandOrder
  <1>4. ASSUME NEW t \in Thread, NEW op \in {"NAMES", "LIST"}, Command(t, op, Null)
        PROVE  Orderly'
    BY <1>4, CommandOrder
  <1>5. ASSUME NEW t \in Thread, Handle(t) PROVE Orderly'
    <2>1. CASE overlapped' = TRUE
      BY <2>1 DEF Orderly
    <2>2. CASE overlapped' # TRUE
      <3>1. overlapped' = overlapped
        BY <1>5, <2>2, HandleKeeps
      <3>2. Order => Order'
        BY <1>5, <2>2, HandleOrder
      <3> QED
        BY <3>1, <3>2 DEF Orderly
    <2> QED
      BY <2>1, <2>2
  <1> QED
    BY <1>1, <1>2, <1>3, <1>4, <1>5 DEF ChannelNext

(* Channels in good order, and nobody in a handler.                        *)
LEMMA RestingOrder ==
  ASSUME ~misuse, listing = Null, Null \notin Thread, \A t \in Thread : task[t].pc = "idle",
         \A k \in Channel : /\ ~chan[k].freed /\ chan[k].topic # "freed"
                            /\ chan[k].reader = Null
                            /\ chan[k].members \in Seq(Thread)
                            /\ chan[k].nusers = Len(chan[k].members)
                            /\ InList(channelList, k) => chan[k].members # <<>>
  PROVE  Order
  <1>1. Alone /\ Iterating /\ Valid /\ Peopled
    BY DEF Alone, Active, Iterating, Valid, Peopled
  <1>2. ASSUME NEW k \in Channel
        PROVE  /\ chan[k].nusers >= 0
               /\ chan[k].nusers <= Len(chan[k].members) + Cardinality(Entering(k))
               /\ chan[k].members # <<>> => chan[k].nusers >= 1
    <2>1. Entering(k) = {}
      BY DEF Entering
    <2>2. Cardinality(Entering(k)) = 0
      BY <2>1, FS_EmptySet
    <2>3. PICK s \in Seq(Thread) : s = chan[k].members
      OBVIOUS
    <2>4. Len(s) \in Nat /\ (s # <<>> => Len(s) >= 1) /\ chan[k].nusers = Len(s)
      BY <2>3
    <2> QED
      BY <2>2, <2>3, <2>4
  <1>3. UsersCounted
    BY <1>2 DEF UsersCounted
  <1>4. \A t \in Thread : Knows(task[t])
    BY IdleKnows
  <1> QED
    BY <1>1, <1>3, <1>4 DEF Order

LEMMA FreshOrder ==
  ASSUME ChannelInit, channelList = <<>>, chan = [k \in Channel |-> NoChannel]
  PROVE  Order
  <1>1. /\ ~misuse /\ listing = Null /\ \A t \in Thread : task[t].pc = "idle"
    BY DEF ChannelInit, Idle
  <1>2. Null \notin Thread
    BY ChannelInitIsSafe, ChannelFacts DEF ChannelSafe
  <1>3. ASSUME NEW k \in Channel
        PROVE  /\ ~chan[k].freed /\ chan[k].topic # "freed" /\ chan[k].reader = Null
               /\ chan[k].members \in Seq(Thread)
               /\ chan[k].nusers = Len(chan[k].members)
    <2>1. /\ ~NoChannel.freed /\ NoChannel.topic # "freed" /\ NoChannel.reader = Null
          /\ NoChannel.members = <<>> /\ NoChannel.nusers = 0
      BY DEF NoChannel
    <2>2. chan[k] = NoChannel
      OBVIOUS
    <2>3. <<>> \in Seq(Thread) /\ Len(<<>>) = 0
      OBVIOUS
    <2>4. chan[k].members = <<>> /\ chan[k].nusers = 0
      BY <2>1, <2>2
    <2>5. chan[k].members \in Seq(Thread) /\ chan[k].nusers = Len(chan[k].members)
      BY <2>3, <2>4, Zenon
    <2> QED
      BY <2>1, <2>2, <2>5
  <1>4. \A k \in Channel : ~InList(channelList, k)
    BY DEF InList
  <1> QED
    BY <1>1, <1>2, <1>3, <1>4, RestingOrder

LEMMA ChannelInitOrder ==
  ASSUME ChannelInit
  PROVE  Orderly
  <1>1. SUFFICES Order
    BY DEF Orderly
  <1>2. CASE Fresh
    BY <1>2, FreshOrder DEF Fresh
  <1>3. CASE Connected
    <2>1. CASE chan = [k \in Channel |-> NoChannel] /\ channelList = <<>>
      BY <2>1, FreshOrder
    <2>2. CASE ~(chan = [k \in Channel |-> NoChannel] /\ channelList = <<>>)
      <3>1. PICK x \in Names, y \in Names :
              /\ {1, 2} \subseteq Channel
              /\ chan = [k \in Channel |->
                   CASE k = 1 -> [NoChannel EXCEPT !.name = x, !.members = <<1>>, !.nusers = 1]
                     [] k = 2 -> [NoChannel EXCEPT !.name = y, !.members = <<1, 2>>, !.nusers = 2]
                     [] OTHER -> NoChannel]
              /\ channelList = <<1, 2>>
        BY <1>3, <2>2 DEF Connected
      <3>2. {1, 2} \subseteq Thread
        BY <1>3 DEF Connected
      <3>3. PICK p \in Seq(Thread) : p = <<1>> /\ Len(p) = 1 /\ p # <<>>
        <4>1. 1 \in Thread
          BY <3>2
        <4>2. <<1>> \in Seq(Thread)
          BY <4>1
        <4> QED
          BY <4>2
      <3>4. PICK q \in Seq(Thread) : q = <<1, 2>> /\ Len(q) = 2 /\ q # <<>>
        <4>1. 1 \in Thread /\ 2 \in Thread
          BY <3>2
        <4>2. <<1, 2>> \in Seq(Thread)
          BY <4>1
        <4> QED
          BY <4>2
      <3>5. PICK m \in Int, n \in Int : m = 1 /\ n = 2
        OBVIOUS
      <3>6. PICK a : a = [NoChannel EXCEPT !.name = x, !.members = p, !.nusers = m]
        OBVIOUS
      <3>7. PICK b : b = [NoChannel EXCEPT !.name = y, !.members = q, !.nusers = n]
        OBVIOUS
      <3>8. \A k \in Channel : chan[k] = IF k = 1 THEN a ELSE IF k = 2 THEN b ELSE NoChannel
        BY <3>1, <3>3, <3>4, <3>5, <3>6, <3>7
      <3> DEFINE Good(c) == /\ ~c.freed /\ c.topic # "freed" /\ c.reader = Null
                            /\ c.members \in Seq(Thread) /\ c.nusers = Len(c.members)
      <3>9. Good(a) /\ a.members # <<>>
        BY <3>3, <3>5, <3>6 DEF NoChannel
      <3>10. Good(b) /\ b.members # <<>>
        BY <3>4, <3>5, <3>7 DEF NoChannel
      <3>11. Good(NoChannel)
        <4>1. <<>> \in Seq(Thread) /\ Len(<<>>) = 0
          OBVIOUS
        <4> QED
          BY <4>1 DEF NoChannel
      <3>12. \A k \in Channel : InList(channelList, k) => k = 1 \/ k = 2
        <4>1. Len(channelList) = 2 /\ channelList[1] = 1 /\ channelList[2] = 2
          BY <3>1
        <4>2. \A i \in 1..2 : i = 1 \/ i = 2
          OBVIOUS
        <4> QED
          BY <4>1, <4>2 DEF InList
      <3> HIDE DEF Good
      <3>13. ASSUME NEW k \in Channel
             PROVE  Good(chan[k]) /\ (InList(channelList, k) => chan[k].members # <<>>)
        <4>1. CASE k = 1
          BY <3>8, <3>9, <4>1
        <4>2. CASE k # 1 /\ k = 2
          BY <3>8, <3>10, <4>2
        <4>3. CASE k # 1 /\ k # 2
          BY <3>8, <3>11, <3>12, <4>3
        <4> QED
          BY <4>1, <4>2, <4>3
      <3>14. \A k \in Channel : /\ ~chan[k].freed /\ chan[k].topic # "freed"
                                /\ chan[k].reader = Null
                                /\ chan[k].members \in Seq(Thread)
                                /\ chan[k].nusers = Len(chan[k].members)
                                /\ InList(channelList, k) => chan[k].members # <<>>
        BY <3>13 DEF Good
      <3>15. /\ ~misuse /\ listing = Null /\ \A t \in Thread : task[t].pc = "idle"
        BY DEF ChannelInit, Idle
      <3>16. Null \notin Thread
        BY ChannelInitIsSafe, ChannelFacts DEF ChannelSafe
      <3> QED
        BY <3>14, <3>15, <3>16, RestingOrder
    <2> QED
      BY <2>1, <2>2
  <1> QED
    BY <1>2, <1>3 DEF ChannelInit

LEMMA AlwaysOrderly == ChannelSpec => []Orderly
  <1>1. ChannelInit => Orderly
    BY ChannelInitOrder
  <1>2. IrcSafe /\ ChannelSafe /\ Orderly /\ [ChannelNext]_<<vars, channelVars>> => Orderly'
    <2>1. ASSUME IrcSafe, ChannelSafe, Orderly, ChannelNext PROVE Orderly'
      BY <2>1, ChannelNextOrder
    <2>2. ASSUME ChannelSafe, Orderly, UNCHANGED <<vars, channelVars>> PROVE Orderly'
      <3>1. client' = client /\ UNCHANGED channelVars
        BY <2>2 DEF vars
      <3> QED
        BY <2>2, <3>1, NothingOrder
    <2> QED
      BY <2>1, <2>2
  <1> QED
    BY <1>1, <1>2, AlwaysSafe, PTL DEF ChannelSpec

LEMMA OrderlyIsTidy ==
  ASSUME ChannelSafe, Orderly
  PROVE  ChannelInv
  <1>1. ChannelTypeOK /\ ChanTypes
    BY SafeIsOnce DEF ChannelSafe
  <1>2. Tidy
    <2> SUFFICES ASSUME ~overlapped
                 PROVE  /\ ~misuse
                        /\ \A i \in DOMAIN channelList : ~chan[channelList[i]].freed
                        /\ (\A t \in Thread : task[t] = Idle) =>
                              \A i \in DOMAIN channelList : chan[channelList[i]].members # <<>>
      BY DEF Tidy
    <2>1. ~misuse /\ Valid /\ Peopled
      BY DEF Orderly, Order
    <2>2. \A i \in DOMAIN channelList :
            channelList[i] \in Channel /\ InList(channelList, channelList[i])
      BY <1>1, ChannelFacts DEF InList
    <2>3. \A i \in DOMAIN channelList : ~chan[channelList[i]].freed
      BY <2>1, <2>2 DEF Valid
    <2>4. ASSUME \A t \in Thread : task[t] = Idle, NEW i \in DOMAIN channelList
          PROVE  chan[channelList[i]].members # <<>>
      <3>1. \A t \in Thread : \A k : ~Carries(task[t], k)
        BY <2>4 DEF Carries, Idle
      <3> QED
        BY <2>1, <2>2, <3>1 DEF Peopled
    <2> QED
      BY <2>1, <2>3, <2>4
  <1> QED
    BY <1>1, <1>2 DEF ChannelInv

(* As long as no PART and no TOPIC has begun beside another handler nor    *)
(* another handler beside one, and no lookup by findChannel, which takes   *)
(* no lock, has gone wrong beside a list_append of createChannel, no       *)
(* handler uses a channel, a member or a topic that has been freed, the    *)
(* list holds only channels that are there, and a channel that has lost    *)
(* its last member is gone when the handlers have ended (handle_PART,      *)
(* removeUser, destroyChannel).                                            *)
THEOREM ChannelsAreTidy == ChannelSpec => []ChannelInv
  <1>1. ChannelSafe /\ Orderly => ChannelInv
    BY OrderlyIsTidy
  <1> QED
    BY <1>1, AlwaysSafe, AlwaysOrderly, PTL
=============================================================================
