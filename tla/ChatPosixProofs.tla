--------------------------- MODULE ChatPosixProofs ---------------------------
(***************************************************************************)
(* Proofs about ChatPosix, for every set of clients, every size of the     *)
(* queues and every number of lines typed.                                 *)
(*                                                                         *)
(* A send may wait for room for ever, and what is sent later may be        *)
(* received first.  Both leave the order of one client's requests alone:   *)
(* what it has still to send comes behind what it has in the public queue. *)
(* So the place of a client says what is in its out queue (OutInv), and    *)
(* its INIT is its first request and its STOP the last (OrderInv).         *)
(***************************************************************************)
EXTENDS ChatPosix, SequenceTheorems, WellFoundedInduction, TLAPS

RequestTypes == {"INIT", "CONNECT", "LIST", "DISCONNECT", "STOP"}
Types        == {"INIT", "CONNECT", "LIST", "STOP", "OTHER"}
Requests == {r \in [type : RequestTypes, from : Clients, text : Clients \cup {Nobody}] :
                r.type = "CONNECT" => r.text \in Clients}
Texts    == [prio : Int, type : Types, from : Clients \cup {Nobody, Server},
             text : Clients \cup {Nobody, "DISCONNECT"}]
Sent     == [to : {Server}, m : Requests] \cup [to : Clients, m : Texts]
Headers  == [type : Types \cup {"none"}, from : Clients \cup {Nobody, Server}]
Entries  == [id : Clients, active : BOOLEAN]
Places   == Waiting \cup {"start", "menu", "direct", "leaving", "stopping", "gone"}

\* A queue keeps its size and its order.
QueueAt(q) ==
    /\ q \in Seq(Texts) /\ Len(q) <= MAX_QUEUE_SIZE
    /\ \A i, j \in DOMAIN q : i < j => q[i].prio >= q[j].prio

TypeInv ==
    /\ server \in {"up", "stopping", "down"}
    /\ clients \in Seq(Entries)
    /\ told \in Nat
    /\ srvq \in Seq(Requests) /\ Len(srvq) <= MAX_QUEUE_SIZE
    /\ queue \in [Clients -> Seq(Texts)] /\ \A c \in Clients : QueueAt(queue[c])
    /\ out \in [Clients \cup {Server} -> Seq(Sent)]
    /\ pc \in [Clients -> Places]
    /\ peer \in [Clients -> Clients \cup {Nobody}]
    /\ buffer \in [Clients -> Headers]
    /\ \A c \in Clients : buffer[c].type = "none" => buffer[c] = Uninitialized
    /\ missed \in [Clients -> BOOLEAN]
    /\ typed \in 0 .. MaxCommands

\* Which requests are on their way out of a client, by its place.
From(type) ==
    CASE type = "INIT"    -> {"init"}
      [] type = "LIST"    -> {"wait_list"}
      [] type = "CONNECT" -> {"wait_connect"}
      [] type = "STOP"    -> {"stopping"}
      [] OTHER            -> {"leaving", "stopping"}

OutAt(c, place, o) ==
    /\ place \in {"start", "menu", "gone"} => o = <<>>
    /\ place \in Waiting => Len(o) <= 1
    /\ place \in Waiting => \A i \in DOMAIN o : o[i].to = Server
    /\ \A i \in DOMAIN o : o[i].to = Server =>
          /\ o[i].m.from = c /\ place \in From(o[i].m.type)
          /\ o[i].m.type = "STOP" => i = Len(o)
          /\ o[i].m.type = "INIT" => o[i].m.text = Nobody

\* The server sends to clients only, and every CONNECT in its own name.
ServerOutAt(o) ==
    \A i \in DOMAIN o : /\ o[i].to \in Clients
                        /\ o[i].m.type = "CONNECT" => o[i].m.from = Server

OutInv ==
    /\ \A c \in Clients : OutAt(c, pc[c], out[c])
    /\ ServerOutAt(out[Server])

\* The list, as the properties see it.
IsListed(list, c) == \E i \in DOMAIN list : list[i].id = c
IsBusy(list, c) == \E i \in DOMAIN list : list[i].id = c /\ ~list[i].active
Once(list) == \A i, j \in DOMAIN list : list[i].id = list[j].id => i = j
Has(q, c, types) == \E i \in DOMAIN q : q[i].from = c /\ q[i].type \in types

\* A client that has sent nothing yet, or will send nothing more, to the server.
Fresh(c) == pc[c] = "start" \/ (pc[c] = "init" /\ out[c] # <<>>)
Done(c) == pc[c] = "gone" \/ (pc[c] = "stopping" /\ out[c] = <<>>)

OrderInv ==
    /\ Once(clients)
    /\ \A i, j \in DOMAIN srvq :
          i < j /\ srvq[i].from = srvq[j].from => srvq[i].type # "STOP" /\ srvq[j].type # "INIT"
    /\ \A i \in DOMAIN srvq :
          /\ ~Fresh(srvq[i].from)
          /\ srvq[i].type = "STOP" => Done(srvq[i].from)
          /\ srvq[i].type = "INIT" => ~IsListed(clients, srvq[i].from) /\ srvq[i].text = Nobody
          /\ \/ IsListed(clients, srvq[i].from)
             \/ \E j \in 1 .. i : srvq[j].type = "INIT" /\ srvq[j].from = srvq[i].from
    /\ \A c \in Clients :
          /\ Fresh(c) => ~IsListed(clients, c)
          /\ ~Fresh(c) /\ ~Done(c) => IsListed(clients, c) \/ Has(srvq, c, {"INIT"})

\* AnswerIsComing and BusyHasReason, client by client.
Awaits(c) == pc[c] \in Waiting /\ out[c] = <<>>
Coming(c) ==
    \/ queue[c] # <<>>
    \/ Has(srvq, c, {"INIT", "CONNECT", "LIST"})
    \/ Sending(Server, c, {"INIT", "CONNECT", "LIST"})
AnswerInv == \A c \in Clients : Awaits(c) => Coming(c)

Reason(c) ==
    \/ pc[c] = "direct" \/ missed[c]
    \/ Has(queue[c], Server, {"CONNECT"})
    \/ Sending(Server, c, {"CONNECT"})
    \/ Sending(c, Server, {"DISCONNECT"})
    \/ Has(srvq, c, {"DISCONNECT"})
BusyInv == \A c \in Clients : IsBusy(clients, c) /\ Alive(c) => Reason(c)

ServingInv == server = "up" => OrderInv /\ AnswerInv /\ BusyInv

ChatInv == TypeInv /\ OutInv /\ ServingInv
------------------------------------------------------------------------------
(* Queues.                                                                 *)

LEMMA Popped ==
    ASSUME NEW S, NEW q \in Seq(S), q # <<>>
    PROVE  /\ Tail(q) \in Seq(S) /\ Head(q) = q[1] /\ q[1] \in S /\ 1 \in DOMAIN q
           /\ Len(Tail(q)) = Len(q) - 1 /\ Len(q) \in Nat \ {0}
           /\ \A i \in DOMAIN Tail(q) : i \in Nat /\ i + 1 \in DOMAIN q /\ Tail(q)[i] = q[i + 1]
           /\ \A i \in DOMAIN q : i # 1 =>
                 i \in Nat /\ i - 1 \in DOMAIN Tail(q) /\ Tail(q)[i - 1] = q[i]
  OBVIOUS

LEMMA Pushed ==
    ASSUME NEW S, NEW q \in Seq(S), NEW e \in S
    PROVE  /\ Append(q, e) \in Seq(S) /\ Len(Append(q, e)) = Len(q) + 1
           /\ Len(q) \in Nat /\ Len(q) + 1 \in DOMAIN Append(q, e) /\ Append(q, e)[Len(q) + 1] = e
           /\ \A i \in DOMAIN q : /\ i \in Nat /\ i <= Len(q)
                                  /\ i \in DOMAIN Append(q, e) /\ Append(q, e)[i] = q[i]
           /\ \A i \in DOMAIN Append(q, e) : i \in DOMAIN q \/ i = Len(q) + 1
  OBVIOUS

LEMMA HasPopped ==
    ASSUME NEW S, NEW q \in Seq(S), q # <<>>
    PROVE  \A c, types : /\ Has(Tail(q), c, types) => Has(q, c, types)
                         /\ Has(q, c, types) /\ (q[1].from # c \/ q[1].type \notin types)
                               => Has(Tail(q), c, types)
<1> SUFFICES ASSUME NEW c, NEW types
             PROVE  /\ Has(Tail(q), c, types) => Has(q, c, types)
                    /\ Has(q, c, types) /\ (q[1].from # c \/ q[1].type \notin types)
                          => Has(Tail(q), c, types)
  OBVIOUS
<1>1. ASSUME Has(Tail(q), c, types) PROVE Has(q, c, types)
  <2>1. PICK i \in DOMAIN Tail(q) : Tail(q)[i].from = c /\ Tail(q)[i].type \in types
    BY <1>1 DEF Has
  <2>2. i + 1 \in DOMAIN q /\ Tail(q)[i] = q[i + 1]
    BY <2>1, Popped
  <2> QED
    BY <2>1, <2>2, Zenon DEF Has
<1>2. ASSUME Has(q, c, types), q[1].from # c \/ q[1].type \notin types
      PROVE  Has(Tail(q), c, types)
  <2>1. PICK i \in DOMAIN q : q[i].from = c /\ q[i].type \in types
    BY <1>2 DEF Has
  <2>2. i - 1 \in DOMAIN Tail(q) /\ Tail(q)[i - 1] = q[i]
    BY <1>2, <2>1, Popped
  <2> QED
    BY <2>1, <2>2, Zenon DEF Has
<1> QED
  BY <1>1, <1>2

LEMMA HasPushed ==
    ASSUME NEW S, NEW q \in Seq(S), NEW r \in S
    PROVE  \A c, types : Has(Append(q, r), c, types)
                            <=> Has(q, c, types) \/ (r.from = c /\ r.type \in types)
<1> SUFFICES ASSUME NEW c, NEW types
             PROVE  Has(Append(q, r), c, types)
                      <=> Has(q, c, types) \/ (r.from = c /\ r.type \in types)
  OBVIOUS
<1> QED
  BY Pushed DEF Has

InsertedAt(q, n, m) == SubSeq(q, 1, n) \o <<m>> \o SubSeq(q, n + 1, Len(q))

LEMMA Inserted ==
    ASSUME NEW q \in Seq(Texts), NEW m \in Texts, NEW n \in 0 .. Len(q)
    PROVE  /\ InsertedAt(q, n, m) \in Seq(Texts) /\ Len(InsertedAt(q, n, m)) = Len(q) + 1
           /\ \A i \in 1 .. n : InsertedAt(q, n, m)[i] = q[i]
           /\ InsertedAt(q, n, m)[n + 1] = m
           /\ \A i \in n + 1 .. Len(q) : InsertedAt(q, n, m)[i + 1] = q[i]
<1> DEFINE l == Len(q)
           front == SubSeq(q, 1, n)
           back == SubSeq(q, n + 1, l)
           left == front \o <<m>>
<1>1. l \in Nat /\ n \in 0 .. l /\ \A i \in 1 .. l : q[i] \in Texts
  OBVIOUS
<1>2. /\ front \in Seq(Texts) /\ Len(front) = n
      /\ \A i \in 1 .. n : front[i] = q[i]
  <2>1. \A i \in 1 .. n : q[i] \in Texts /\ 1 + i - 1 = i
    BY <1>1
  <2>2. 1 \in Int /\ n \in Int /\ n - 1 + 1 = n
    BY <1>1
  <2>3. /\ SubSeq(q, 1, n) \in Seq(Texts)
        /\ Len(SubSeq(q, 1, n)) = IF 1 <= n THEN n - 1 + 1 ELSE 0
        /\ \A i \in 1 .. n - 1 + 1 : SubSeq(q, 1, n)[i] = q[1 + i - 1]
    BY <2>1, <2>2, SubSeqProperties
  <2> QED
    BY <1>1, <2>1, <2>2, <2>3
<1>3. /\ back \in Seq(Texts) /\ Len(back) = l - n
      /\ \A i \in 1 .. l - n : back[i] = q[n + i]
  <2>1. (\A i \in n + 1 .. l : q[i] \in Texts) /\ \A i \in 1 .. l - n : n + 1 + i - 1 = n + i
    BY <1>1
  <2>2. n + 1 \in Int /\ l \in Int /\ l - (n + 1) + 1 = l - n
    BY <1>1
  <2>3. /\ SubSeq(q, n + 1, l) \in Seq(Texts)
        /\ Len(SubSeq(q, n + 1, l)) = IF n + 1 <= l THEN l - (n + 1) + 1 ELSE 0
        /\ \A i \in 1 .. l - (n + 1) + 1 : SubSeq(q, n + 1, l)[i] = q[n + 1 + i - 1]
    BY <2>1, <2>2, SubSeqProperties
  <2> HIDE DEF l
  <2> QED
    BY <1>1, <2>1, <2>2, <2>3
<1> HIDE DEF front, back
<1>4. /\ left \in Seq(Texts) /\ Len(left) = n + 1 /\ left[n + 1] = m
      /\ \A i \in 1 .. n : left[i] = q[i]
  <2>1. left = Append(front, m)
    BY <1>2
  <2> QED
    BY <1>1, <1>2, <2>1
<1> HIDE DEF left
<1>5. /\ left \o back \in Seq(Texts) /\ Len(left \o back) = l + 1
      /\ \A i \in 1 .. l + 1 :
            (left \o back)[i] = IF i <= n + 1 THEN left[i] ELSE back[i - (n + 1)]
  <2>1. /\ left \o back \in Seq(Texts) /\ Len(left \o back) = Len(left) + Len(back)
        /\ \A i \in 1 .. Len(left) + Len(back) :
              (left \o back)[i] = IF i <= Len(left) THEN left[i] ELSE back[i - Len(left)]
    BY <1>3, <1>4, ConcatProperties
  <2>2. Len(left) + Len(back) = l + 1
    BY <1>1, <1>3, <1>4
  <2> HIDE DEF l
  <2> QED
    BY <1>4, <2>1, <2>2
<1>6. \A i \in n + 1 .. l : (left \o back)[i + 1] = q[i]
  <2> HIDE DEF l
  <2> TAKE i \in n + 1 .. l
  <2>1. i + 1 \in 1 .. l + 1 /\ ~(i + 1 <= n + 1) /\ i + 1 - (n + 1) = i - n
    BY <1>1
  <2>2. i - n \in 1 .. l - n /\ n + (i - n) = i
    BY <1>1
  <2>3. (left \o back)[i + 1] = back[i - n]
    BY <1>5, <2>1
  <2> QED
    BY <1>3, <2>2, <2>3
<1>7. (\A i \in 1 .. n : (left \o back)[i] = q[i]) /\ (left \o back)[n + 1] = m
  <2> HIDE DEF l
  <2> QED
    BY <1>1, <1>4, <1>5
<1> QED
  BY <1>5, <1>6, <1>7, Zenon DEF left, front, back, InsertedAt

LEMMA Priorities ==
    ASSUME NEW q \in Seq(Texts)
    PROVE  /\ Len(q) \in Nat /\ DOMAIN q = 1 .. Len(q)
           /\ \A i \in 1 .. Len(q) : q[i].prio \in Int
<1>1. Len(q) \in Nat /\ DOMAIN q = 1 .. Len(q) /\ \A i \in 1 .. Len(q) : q[i] \in Texts
  OBVIOUS
<1>2. \A m \in Texts : m.prio \in Int
  BY DEF Texts
<1> QED
  BY <1>1, <1>2

\* A sorted queue has one place where a message belongs.
LEMMA PlaceExists ==
    ASSUME NEW q, QueueAt(q), NEW p \in Int
    PROVE  \E k \in 0 .. Len(q) : /\ \A i \in 1 .. k : q[i].prio >= p
                                  /\ \A i \in k + 1 .. Len(q) : q[i].prio < p
<1> DEFINE l == Len(q)
           Lower == {k \in 1 .. l + 1 : \A i \in k .. l : q[i].prio < p}
<1>1. l \in Nat /\ DOMAIN q = 1 .. l /\ \A i \in 1 .. l : q[i].prio \in Int
  BY Priorities DEF QueueAt
<1>2. l + 1 \in Lower /\ Lower \subseteq Nat
  BY <1>1
<1>3. PICK t \in Lower : \A k \in Lower : ~(k < t)
  <2>1. PICK t \in Lower : \A k \in Lower : <<k, t>> \notin OpToRel(<, Nat)
    <3> HIDE DEF Lower
    <3> QED
      BY <1>2, WFMin, NatLessThanWellFounded, Zenon
  <2>2. \A k \in Lower : ~(k < t)
    <3> TAKE k \in Lower
    <3>1. k \in Nat /\ t \in Nat
      BY <1>2
    <3>2. SUFFICES ASSUME k < t PROVE <<k, t>> \in OpToRel(<, Nat)
      BY <2>1, Zenon
    <3> QED
      BY <3>1, <3>2 DEF OpToRel
  <2> QED
    BY <2>2
<1>4. t \in 1 .. l + 1 /\ \A i \in t .. l : q[i].prio < p
  BY <1>3
<1>5. \A i \in 1 .. t - 1 : q[i].prio >= p
  <2> SUFFICES ASSUME NEW i \in 1 .. t - 1, q[i].prio < p PROVE FALSE
    BY <1>1, <1>4
  <2>1. i \in 1 .. l /\ i < t
    BY <1>1, <1>4
  <2>2. \A j \in i .. l : q[j].prio < p
    <3> TAKE j \in i .. l
    <3>1. j \in 1 .. l /\ (i = j \/ i < j)
      BY <1>1, <2>1
    <3>2. q[i].prio >= q[j].prio
      BY <1>1, <2>1, <3>1 DEF QueueAt
    <3> QED
      BY <1>1, <2>1, <3>1, <3>2
  <2>3. i \in Lower
    BY <1>1, <2>1, <2>2
  <2> QED
    BY <1>3, <2>1, <2>3
<1>6. t - 1 \in 0 .. l /\ t - 1 + 1 = t
  BY <1>1, <1>4
<1> HIDE DEF l
<1> QED
  BY <1>4, <1>5, <1>6 DEF l

\* A send to a client's queue keeps the order and loses nothing.
LEMMA Enqueued ==
    ASSUME NEW q, QueueAt(q), Len(q) < MAX_QUEUE_SIZE, NEW m \in Texts
    PROVE  /\ QueueAt(Enqueue(q, m)) /\ Enqueue(q, m) # <<>>
           /\ \A c, types : Has(q, c, types) \/ (m.from = c /\ m.type \in types)
                               => Has(Enqueue(q, m), c, types)
<1> DEFINE n == CHOOSE k \in 0 .. Len(q) :
                  /\ \A i \in 1 .. k : q[i].prio >= m.prio
                  /\ \A i \in k + 1 .. Len(q) : q[i].prio < m.prio
           r == InsertedAt(q, n, m)
<1>1. q \in Seq(Texts) /\ m.prio \in Int
  BY DEF QueueAt, Texts
<1>2. /\ n \in 0 .. Len(q)
      /\ \A i \in 1 .. n : q[i].prio >= m.prio
      /\ \A i \in n + 1 .. Len(q) : q[i].prio < m.prio
  BY <1>1, PlaceExists
<1>3. Enqueue(q, m) = r
  BY DEF Enqueue, InsertedAt
<1> HIDE DEF n
<1> HIDE DEF r
<1>4. /\ r \in Seq(Texts) /\ Len(r) = Len(q) + 1
      /\ \A i \in 1 .. n : r[i] = q[i]
      /\ r[n + 1] = m
      /\ \A i \in n + 1 .. Len(q) : r[i + 1] = q[i]
  <2>1. n \in 0 .. Len(q)
    BY <1>2
  <2> QED
    BY <1>1, <2>1, Inserted DEF r
<1>5. /\ Len(q) \in Nat /\ n \in Nat /\ DOMAIN q = 1 .. Len(q)
      /\ DOMAIN r = 1 .. Len(q) + 1 /\ \A i \in DOMAIN q : q[i].prio \in Int
  BY <1>1, <1>2, <1>4, Priorities
<1>6. \A j \in DOMAIN r : \/ j \in 1 .. n /\ r[j] = q[j]
                          \/ j = n + 1 /\ r[j] = m
                          \/ j - 1 \in n + 1 .. Len(q) /\ r[j] = q[j - 1]
  <2> TAKE j \in DOMAIN r
  <2>1. j \in 1 .. n \/ j = n + 1 \/ (j - 1 \in n + 1 .. Len(q) /\ j - 1 + 1 = j)
    BY <1>2, <1>5
  <2> QED
    BY <1>4, <2>1
<1>7. QueueAt(r)
  <2>1. Len(r) <= MAX_QUEUE_SIZE
    BY <1>4, <1>5, ChatPosixAssumption
  <2>2. \A i, j \in DOMAIN r : i < j => r[i].prio >= r[j].prio
    <3> SUFFICES ASSUME NEW i \in DOMAIN r, NEW j \in DOMAIN r, i < j
                 PROVE  r[i].prio >= r[j].prio
      OBVIOUS
    <3>1. \A k, k2 \in 1 .. Len(q) : k < k2 => q[k].prio >= q[k2].prio
      BY <1>5 DEF QueueAt
    <3>2. CASE i \in 1 .. n /\ r[i] = q[i]
      <4>1. i \in 1 .. Len(q)
        BY <1>2, <1>5, <3>2
      <4>2. CASE j \in 1 .. n /\ r[j] = q[j]
        <5>1. j \in 1 .. Len(q)
          BY <1>2, <1>5, <4>2
        <5> QED
          BY <3>1, <3>2, <4>1, <4>2, <5>1
      <4>3. CASE j = n + 1 /\ r[j] = m
        BY <1>2, <3>2, <4>3
      <4>4. CASE j - 1 \in n + 1 .. Len(q) /\ r[j] = q[j - 1]
        <5>1. j - 1 \in 1 .. Len(q) /\ i < j - 1
          BY <1>2, <1>5, <3>2, <4>4
        <5> QED
          BY <3>1, <3>2, <4>1, <4>4, <5>1
      <4> QED
        BY <1>6, <4>2, <4>3, <4>4
    <3>3. CASE i = n + 1 /\ r[i] = m
      <4>1. j - 1 \in n + 1 .. Len(q) /\ r[j] = q[j - 1]
        BY <1>5, <1>6, <3>3
      <4>2. q[j - 1].prio < m.prio /\ j - 1 \in DOMAIN q
        BY <1>2, <1>5, <4>1
      <4> QED
        BY <1>1, <1>5, <3>3, <4>1, <4>2
    <3>4. CASE i - 1 \in n + 1 .. Len(q) /\ r[i] = q[i - 1]
      <4>1. j - 1 \in n + 1 .. Len(q) /\ r[j] = q[j - 1]
        BY <1>5, <1>6, <3>4
      <4>2. i - 1 \in 1 .. Len(q) /\ j - 1 \in 1 .. Len(q) /\ i - 1 < j - 1
        BY <1>2, <1>5, <3>4, <4>1
      <4> QED
        BY <3>1, <3>4, <4>1, <4>2
    <3> QED
      BY <1>6, <3>2, <3>3, <3>4
  <2> QED
    BY <1>4, <2>1, <2>2 DEF QueueAt
<1>8. ASSUME NEW c, NEW types, Has(q, c, types) \/ (m.from = c /\ m.type \in types)
      PROVE  Has(r, c, types)
  <2>1. CASE Has(q, c, types)
    <3>1. PICK i \in DOMAIN q : q[i].from = c /\ q[i].type \in types
      BY <2>1 DEF Has
    <3>2. CASE i \in 1 .. n
      <4>1. i \in DOMAIN r /\ r[i] = q[i]
        BY <1>2, <1>4, <1>5, <3>2
      <4> QED
        BY <3>1, <4>1 DEF Has
    <3>3. CASE i \in n + 1 .. Len(q)
      <4>1. i + 1 \in DOMAIN r /\ r[i + 1] = q[i]
        BY <1>2, <1>4, <1>5, <3>3
      <4> QED
        BY <3>1, <4>1 DEF Has
    <3> QED
      BY <1>2, <1>5, <3>2, <3>3
  <2>2. CASE m.from = c /\ m.type \in types
    <3>1. n + 1 \in DOMAIN r
      BY <1>2, <1>5
    <3> QED
      BY <1>4, <2>2, <3>1 DEF Has
  <2> QED
    BY <1>8, <2>1, <2>2
<1>9. r # <<>>
  BY <1>4, <1>5
<1> QED
  BY <1>3, <1>7, <1>8, <1>9
------------------------------------------------------------------------------
(* The server's list.                                                      *)

LEMMA EntryOf ==
    ASSUME TypeInv, Once(clients), NEW c
    PROVE  /\ Entry(c) # 0 <=> IsListed(clients, c)
           /\ IsListed(clients, c) => Entry(c) \in DOMAIN clients /\ clients[Entry(c)].id = c
<1>1. CASE ~IsListed(clients, c)
  BY <1>1 DEF IsListed, Entry
<1>2. CASE IsListed(clients, c)
  <2>1. PICK i \in DOMAIN clients : clients[i].id = c
    BY <1>2 DEF IsListed
  <2>2. DOMAIN clients = 1 .. Len(clients) /\ Len(clients) \in Nat
    BY DEF TypeInv
  <2>3. \A j \in 1 .. i - 1 : j \in DOMAIN clients /\ j # i
    BY <2>1, <2>2
  <2>4. \A j \in 1 .. i - 1 : clients[j].id # c
    BY <2>1, <2>3 DEF Once
  <2>5. Entry(c) \in DOMAIN clients /\ clients[Entry(c)].id = c
    BY <2>1, <2>4, Zenon DEF Entry
  <2>6. Entry(c) # 0
    BY <2>2, <2>5
  <2> QED
    BY <1>2, <2>5, <2>6
<1> QED
  BY <1>1, <1>2

LEMMA SetActiveList ==
    ASSUME TypeInv, Once(clients), NEW list \in Seq(Entries),
           DOMAIN list = DOMAIN clients, \A i \in DOMAIN clients : list[i].id = clients[i].id,
           NEW c, NEW active \in BOOLEAN
    PROVE  LET r == SetActive(list, c, active)
           IN /\ r \in Seq(Entries) /\ DOMAIN r = DOMAIN clients
              /\ \A i \in DOMAIN clients : /\ r[i].id = clients[i].id
                                           /\ clients[i].id = c => r[i].active = active
                                           /\ clients[i].id # c => r[i].active = list[i].active
<1> DEFINE r == SetActive(list, c, active)
<1>1. CASE Entry(c) = 0
  <2>1. r = list /\ ~IsListed(clients, c)
    BY <1>1, EntryOf DEF SetActive
  <2>2. \A i \in DOMAIN clients : clients[i].id # c
    BY <2>1 DEF IsListed
  <2> QED
    BY <2>1, <2>2
<1>2. CASE Entry(c) # 0
  <2> DEFINE e == Entry(c)
  <2>1. e \in DOMAIN clients /\ clients[e].id = c
    BY <1>2, EntryOf
  <2>2. \A i \in DOMAIN clients : clients[i].id = c => i = e
    BY <2>1 DEF Once
  <2>3. r = [list EXCEPT ![e].active = active]
    BY <1>2 DEF SetActive
  <2> HIDE DEF e, r
  <2>4. list[e] \in Entries
    BY <2>1
  <2>5. \A f \in Entries : /\ [f EXCEPT !.active = active] \in Entries
                           /\ [f EXCEPT !.active = active].id = f.id
                           /\ [f EXCEPT !.active = active].active = active
    BY DEF Entries
  <2>6. /\ DOMAIN r = DOMAIN list /\ r \in Seq(Entries)
        /\ r[e] = [list[e] EXCEPT !.active = active]
        /\ \A i \in DOMAIN list : i # e => r[i] = list[i]
    <3> DEFINE f == [list[e] EXCEPT !.active = active]
    <3>1. f \in Entries /\ r = [list EXCEPT ![e] = f]
      BY <2>3, <2>4, <2>5
    <3> HIDE DEF f
    <3> QED
      BY <2>1, <3>1 DEF f
  <2>7. \A i \in DOMAIN clients : i # e => clients[i].id # c /\ r[i] = list[i]
    BY <2>2, <2>6
  <2>8. r[e].id = clients[e].id /\ r[e].active = active
    BY <2>1, <2>4, <2>5, <2>6
  <2>9. \A i \in DOMAIN clients : /\ r[i].id = clients[i].id
                                  /\ clients[i].id = c => r[i].active = active
                                  /\ clients[i].id # c => r[i].active = list[i].active
    BY <2>1, <2>7, <2>8
  <2> QED
    BY <2>6, <2>9, Zenon DEF r
<1> QED
  BY <1>1, <1>2

LEMMA SetActiveFacts ==
    ASSUME TypeInv, Once(clients), NEW c \in Clients, NEW active \in BOOLEAN
    PROVE  LET r == SetActive(clients, c, active)
           IN /\ r \in Seq(Entries) /\ Once(r)
              /\ \A d : /\ IsListed(r, d) <=> IsListed(clients, d)
                        /\ d # c => (IsBusy(r, d) <=> IsBusy(clients, d))
                        /\ IsBusy(r, c) => ~active
<1> DEFINE r == SetActive(clients, c, active)
<1>1. /\ r \in Seq(Entries) /\ DOMAIN r = DOMAIN clients
      /\ \A i \in DOMAIN clients : /\ r[i].id = clients[i].id
                                   /\ clients[i].id = c => r[i].active = active
                                   /\ clients[i].id # c => r[i].active = clients[i].active
  <2>1. clients \in Seq(Entries) /\ \A i \in DOMAIN clients : clients[i].id = clients[i].id
    BY DEF TypeInv
  <2> HIDE DEF r
  <2>2. r = SetActive(clients, c, active)
    BY DEF r
  <2> QED
    BY <2>1, <2>2, SetActiveList
<1> HIDE DEF r
<1>2. Once(r)
  BY <1>1 DEF Once
<1>3. \A d : IsListed(r, d) <=> IsListed(clients, d)
  BY <1>1, Zenon DEF IsListed
<1>4. \A d : d # c => (IsBusy(r, d) <=> IsBusy(clients, d))
  BY <1>1, Zenon DEF IsBusy
<1>5. IsBusy(r, c) => ~active
  BY <1>1, Zenon DEF IsBusy
<1> QED
  BY <1>1, <1>2, <1>3, <1>4, <1>5, Zenon DEF r

\* handle_connect marks two clients busy.
LEMMA SetTwoBusy ==
    ASSUME TypeInv, Once(clients), NEW b \in Clients, NEW a \in Clients,
           NEW active \in BOOLEAN
    PROVE  LET r == SetActive(SetActive(clients, b, active), a, active)
           IN /\ r \in Seq(Entries) /\ Once(r)
              /\ \A d : /\ IsListed(r, d) <=> IsListed(clients, d)
                        /\ d # a /\ d # b => (IsBusy(r, d) <=> IsBusy(clients, d))
<1> DEFINE s == SetActive(clients, b, active)
           r == SetActive(s, a, active)
<1>1. /\ s \in Seq(Entries) /\ DOMAIN s = DOMAIN clients
      /\ \A i \in DOMAIN clients : /\ s[i].id = clients[i].id
                                   /\ clients[i].id # b => s[i].active = clients[i].active
  <2>1. clients \in Seq(Entries) /\ \A i \in DOMAIN clients : clients[i].id = clients[i].id
    BY DEF TypeInv
  <2> HIDE DEF s
  <2>2. s = SetActive(clients, b, active)
    BY DEF s
  <2> QED
    BY <2>1, <2>2, SetActiveList
<1> HIDE DEF s
<1>2. /\ r \in Seq(Entries) /\ DOMAIN r = DOMAIN clients
      /\ \A i \in DOMAIN clients : /\ r[i].id = clients[i].id
                                   /\ clients[i].id # a => r[i].active = s[i].active
  BY <1>1, SetActiveList
<1> HIDE DEF r
<1>3. Once(r)
  BY <1>2 DEF Once
<1>4. \A d : IsListed(r, d) <=> IsListed(clients, d)
  BY <1>2, Zenon DEF IsListed
<1>5. \A d : d # a /\ d # b => (IsBusy(r, d) <=> IsBusy(clients, d))
  BY <1>1, <1>2, Zenon DEF IsBusy
<1> QED
  BY <1>2, <1>3, <1>4, <1>5, Zenon DEF r, s

LEMMA AppendedEntry ==
    ASSUME TypeInv, Once(clients), NEW c \in Clients, ~IsListed(clients, c)
    PROVE  LET r == Append(clients, [id |-> c, active |-> TRUE])
           IN /\ r \in Seq(Entries) /\ Once(r)
              /\ \A d : /\ IsListed(r, d) <=> IsListed(clients, d) \/ d = c
                        /\ IsBusy(r, d) <=> IsBusy(clients, d)
<1> DEFINE e == [id |-> c, active |-> TRUE]
           r == Append(clients, e)
<1>1. e \in Entries /\ e.id = c /\ e.active
  BY DEF Entries
<1> HIDE DEF e
<1>2. /\ r \in Seq(Entries) /\ Len(clients) + 1 \in DOMAIN r /\ r[Len(clients) + 1] = e
      /\ \A i \in DOMAIN clients : i \in DOMAIN r /\ r[i] = clients[i]
      /\ \A i \in DOMAIN r : i \in DOMAIN clients \/ i = Len(clients) + 1
  BY <1>1, Pushed DEF TypeInv
<1> HIDE DEF r
<1>3. Once(r)
  BY <1>1, <1>2, Zenon DEF Once, IsListed
<1>4. \A d : IsListed(r, d) <=> IsListed(clients, d) \/ d = c
  BY <1>1, <1>2, Zenon DEF IsListed
<1>5. \A d : IsBusy(r, d) <=> IsBusy(clients, d)
  BY <1>1, <1>2, Zenon DEF IsBusy
<1> QED
  BY <1>2, <1>3, <1>4, <1>5, Zenon DEF r, e

LEMMA RemovedAt ==
    ASSUME NEW S, NEW q \in Seq(S), NEW e \in 1 .. Len(q)
    PROVE  LET r == SubSeq(q, 1, e - 1) \o SubSeq(q, e + 1, Len(q))
           IN /\ r \in Seq(S) /\ DOMAIN r = 1 .. Len(q) - 1
              /\ \A i \in 1 .. Len(q) - 1 : /\ i < e => r[i] = q[i]
                                            /\ i >= e => r[i] = q[i + 1]
<1> DEFINE n == Len(q)
           front == SubSeq(q, 1, e - 1)
           back == SubSeq(q, e + 1, n)
<1>1. n \in Nat /\ e \in 1 .. n /\ \A i \in 1 .. n : q[i] \in S
  OBVIOUS
<1>2. /\ front \in Seq(S) /\ Len(front) = e - 1
      /\ \A i \in 1 .. e - 1 : front[i] = q[i]
  <2>1. \A i \in 1 .. e - 1 : q[i] \in S /\ 1 + i - 1 = i
    BY <1>1
  <2>2. 1 \in Int /\ e - 1 \in Int /\ e - 1 - 1 + 1 = e - 1
    BY <1>1
  <2>3. /\ SubSeq(q, 1, e - 1) \in Seq(S)
        /\ Len(SubSeq(q, 1, e - 1)) = IF 1 <= e - 1 THEN e - 1 - 1 + 1 ELSE 0
        /\ \A i \in 1 .. e - 1 - 1 + 1 : SubSeq(q, 1, e - 1)[i] = q[1 + i - 1]
    BY <2>1, <2>2, SubSeqProperties
  <2> QED
    BY <1>1, <2>1, <2>2, <2>3
<1>3. /\ back \in Seq(S) /\ Len(back) = n - e
      /\ \A i \in 1 .. n - e : back[i] = q[e + i]
  <2>1. (\A i \in e + 1 .. n : q[i] \in S) /\ \A i \in 1 .. n - e : e + 1 + i - 1 = e + i
    BY <1>1
  <2>2. e + 1 \in Int /\ n \in Int /\ n - (e + 1) + 1 = n - e
    BY <1>1
  <2>3. /\ SubSeq(q, e + 1, n) \in Seq(S)
        /\ Len(SubSeq(q, e + 1, n)) = IF e + 1 <= n THEN n - (e + 1) + 1 ELSE 0
        /\ \A i \in 1 .. n - (e + 1) + 1 : SubSeq(q, e + 1, n)[i] = q[e + 1 + i - 1]
    BY <2>1, <2>2, SubSeqProperties
  <2> HIDE DEF n
  <2> QED
    BY <1>1, <2>1, <2>2, <2>3
<1> HIDE DEF front, back
<1>4. /\ front \o back \in Seq(S) /\ Len(front \o back) = n - 1
      /\ \A i \in 1 .. n - 1 :
            (front \o back)[i] = IF i <= e - 1 THEN front[i] ELSE back[i - (e - 1)]
  <2>1. /\ front \o back \in Seq(S) /\ Len(front \o back) = Len(front) + Len(back)
        /\ \A i \in 1 .. Len(front) + Len(back) :
              (front \o back)[i] = IF i <= Len(front) THEN front[i] ELSE back[i - Len(front)]
    BY <1>2, <1>3, ConcatProperties
  <2>2. Len(front) + Len(back) = n - 1
    BY <1>1, <1>2, <1>3
  <2> HIDE DEF n
  <2> QED
    BY <1>2, <2>1, <2>2
<1>5. \A i \in 1 .. n - 1 : /\ i < e => (front \o back)[i] = q[i]
                            /\ i >= e => (front \o back)[i] = q[i + 1]
  <2> HIDE DEF n
  <2> SUFFICES ASSUME NEW i \in 1 .. n - 1
               PROVE  /\ i < e => (front \o back)[i] = q[i]
                      /\ i >= e => (front \o back)[i] = q[i + 1]
    OBVIOUS
  <2>1. ASSUME i < e PROVE (front \o back)[i] = q[i]
    <3>1. i \in 1 .. e - 1 /\ i <= e - 1
      BY <1>1, <2>1
    <3> QED
      BY <1>2, <1>4, <3>1
  <2>2. ASSUME i >= e PROVE (front \o back)[i] = q[i + 1]
    <3>1. ~(i <= e - 1) /\ i - (e - 1) \in 1 .. n - e /\ e + (i - (e - 1)) = i + 1
      BY <1>1, <2>2
    <3> QED
      BY <1>3, <1>4, <3>1
  <2> QED
    BY <2>1, <2>2
<1>6. DOMAIN (front \o back) = 1 .. n - 1
  BY <1>4
<1> QED
  BY <1>4, <1>5, <1>6, Zenon DEF front, back

\* removeclient: the entries behind the one removed move up.
Removed(c) ==
    LET i == Entry(c)
    IN IF i = 0 THEN clients
       ELSE SubSeq(clients, 1, i - 1) \o SubSeq(clients, i + 1, Len(clients))

LEMMA RemovedEntry ==
    ASSUME TypeInv, Once(clients), NEW c \in Clients
    PROVE  /\ Removed(c) \in Seq(Entries) /\ Once(Removed(c))
           /\ \A d : /\ IsListed(Removed(c), d) <=> IsListed(clients, d) /\ d # c
                     /\ IsBusy(Removed(c), d) <=> IsBusy(clients, d) /\ d # c
<1> DEFINE r == Removed(c)
<1> HIDE DEF r
<1>1. CASE Entry(c) = 0
  <2>1. r = clients /\ \A i \in DOMAIN clients : clients[i].id # c
    BY <1>1, EntryOf DEF IsListed, Removed, r
  <2> QED
    BY <2>1 DEF TypeInv, IsListed, IsBusy, r
<1>2. CASE Entry(c) # 0
  <2> DEFINE e == Entry(c)
             n == Len(clients)
  <2>1. e \in DOMAIN clients /\ clients[e].id = c
    BY <1>2, EntryOf
  <2>2. n \in Nat /\ DOMAIN clients = 1 .. n /\ e \in 1 .. n
    BY <2>1 DEF TypeInv
  <2>3. r = SubSeq(clients, 1, e - 1) \o SubSeq(clients, e + 1, n)
    BY <1>2 DEF Removed, r
  <2>4. /\ r \in Seq(Entries) /\ DOMAIN r = 1 .. n - 1
        /\ \A i \in 1 .. n - 1 : /\ i < e => r[i] = clients[i]
                                 /\ i >= e => r[i] = clients[i + 1]
    <3>1. clients \in Seq(Entries) /\ e \in 1 .. Len(clients)
      BY <2>2 DEF TypeInv
    <3> HIDE DEF e
    <3> QED
      BY <2>3, <3>1, RemovedAt
  <2> HIDE DEF e, n
  <2>5. \A k \in 1 .. n : clients[k].id = c => k = e
    BY <2>1, <2>2 DEF Once
  <2>i. e \in Int /\ \A k \in 1 .. n : k \in Int
    BY <2>2
  <2>6. \A k \in 1 .. n : k # e => \E i \in 1 .. n - 1 : r[i] = clients[k]
    <3> SUFFICES ASSUME NEW k \in 1 .. n, k # e PROVE \E i \in 1 .. n - 1 : r[i] = clients[k]
      OBVIOUS
    <3>1. CASE k < e
      <4>1. k \in 1 .. n - 1
        BY <2>2, <3>1
      <4>2. r[k] = clients[k]
        BY <2>4, <3>1, <4>1
      <4> QED
        BY <4>1, <4>2
    <3>2. CASE k > e
      <4>1. k - 1 \in 1 .. n - 1 /\ k - 1 >= e /\ k - 1 + 1 = k
        BY <2>2, <3>2
      <4>2. r[k - 1] = clients[k]
        BY <2>4, <4>1
      <4> QED
        BY <4>1, <4>2
    <3>3. k < e \/ k > e
      BY <2>i
    <3> QED
      BY <3>1, <3>2, <3>3
  <2>7. \A i \in 1 .. n - 1 : \E k \in 1 .. n : k # e /\ r[i] = clients[k]
    <3> SUFFICES ASSUME NEW i \in 1 .. n - 1 PROVE \E k \in 1 .. n : k # e /\ r[i] = clients[k]
      OBVIOUS
    <3>1. CASE i < e
      <4>1. i \in 1 .. n /\ i # e
        BY <2>2, <3>1
      <4>2. r[i] = clients[i]
        BY <2>4, <3>1
      <4> QED
        BY <4>1, <4>2
    <3>2. CASE i >= e
      <4>1. i + 1 \in 1 .. n /\ i + 1 # e
        BY <2>2, <3>2
      <4>2. r[i] = clients[i + 1]
        BY <2>4, <3>2
      <4> QED
        BY <4>1, <4>2
    <3>3. i < e \/ i >= e
      BY <2>2
    <3> QED
      BY <3>1, <3>2, <3>3
  <2>8. Once(r)
    <3> SUFFICES ASSUME NEW i \in 1 .. n - 1, NEW j \in 1 .. n - 1, r[i].id = r[j].id
                 PROVE  i = j
      BY <2>4 DEF Once
    <3>1. /\ i + 1 \in 1 .. n /\ j + 1 \in 1 .. n /\ i \in 1 .. n /\ j \in 1 .. n
          /\ i \in Int /\ j \in Int /\ e \in Int
      BY <2>2
    <3>2. \A k, l \in 1 .. n : clients[k].id = clients[l].id => k = l
      BY <2>2 DEF Once
    <3> DEFINE Old(k) == IF k < e THEN k ELSE k + 1
    <3>3. \A k \in 1 .. n - 1 : r[k] = clients[Old(k)] /\ Old(k) \in 1 .. n
      <4> SUFFICES ASSUME NEW k \in 1 .. n - 1 PROVE r[k] = clients[Old(k)] /\ Old(k) \in 1 .. n
        OBVIOUS
      <4>1. k + 1 \in 1 .. n /\ k \in 1 .. n /\ (k < e \/ k >= e) /\ (k < e <=> ~(k >= e))
        BY <2>2
      <4>2. CASE k < e
        BY <2>4, <4>1, <4>2
      <4>3. CASE k >= e
        <5>1. r[k] = clients[k + 1] /\ ~(k < e)
          BY <2>4, <4>1, <4>3
        <5> QED
          BY <4>1, <5>1
      <4> QED
        BY <4>1, <4>2, <4>3
    <3>4. Old(i) = Old(j)
      <4>1. r[i] = clients[Old(i)] /\ Old(i) \in 1 .. n /\ r[j] = clients[Old(j)] /\ Old(j) \in 1 .. n
        BY <3>3
      <4> HIDE DEF Old
      <4> QED
        BY <3>2, <4>1
    <3> QED
      BY <3>1, <3>4
  <2>9. ASSUME NEW d
        PROVE  /\ IsListed(r, d) <=> IsListed(clients, d) /\ d # c
               /\ IsBusy(r, d) <=> IsBusy(clients, d) /\ d # c
    <3>1. ASSUME NEW i \in 1 .. n - 1, r[i].id = d
          PROVE  d # c /\ \E k \in 1 .. n : clients[k] = r[i]
      BY <2>5, <2>7, <3>1
    <3>2. ASSUME NEW k \in 1 .. n, clients[k].id = d, d # c
          PROVE  \E i \in 1 .. n - 1 : r[i] = clients[k]
      BY <2>1, <2>6, <3>2
    <3>3. IsListed(r, d) => IsListed(clients, d) /\ d # c
      BY <2>2, <2>4, <3>1 DEF IsListed
    <3>4. IsListed(clients, d) /\ d # c => IsListed(r, d)
      BY <2>2, <2>4, <3>2 DEF IsListed
    <3>5. IsBusy(r, d) => IsBusy(clients, d) /\ d # c
      <4>1. ASSUME NEW i \in 1 .. n - 1, r[i].id = d, ~r[i].active
            PROVE  \E k \in 1 .. n : clients[k].id = d /\ ~clients[k].active
        <5>1. PICK k \in 1 .. n : clients[k] = r[i]
          BY <3>1, <4>1
        <5> QED
          BY <4>1, <5>1, Zenon
      <4>2. ASSUME NEW i \in 1 .. n - 1, r[i].id = d PROVE d # c
        BY <3>1, <4>2
      <4> QED
        BY <2>2, <2>4, <4>1, <4>2, Zenon DEF IsBusy
    <3>6. IsBusy(clients, d) /\ d # c => IsBusy(r, d)
      <4>1. ASSUME NEW k \in 1 .. n, clients[k].id = d, ~clients[k].active, d # c
            PROVE  \E i \in 1 .. n - 1 : r[i].id = d /\ ~r[i].active
        <5>1. PICK i \in 1 .. n - 1 : r[i] = clients[k]
          BY <3>2, <4>1
        <5> QED
          BY <4>1, <5>1, Zenon
      <4> QED
        BY <2>2, <2>4, <4>1, Zenon DEF IsBusy
    <3> QED
      BY <3>3, <3>4, <3>5, <3>6
  <2> QED
    BY <2>4, <2>8, <2>9, Zenon DEF r
<1> QED
  BY <1>1, <1>2
------------------------------------------------------------------------------
(* The steps of a client.                                                  *)

LEMMA RequestIs ==
    ASSUME NEW c \in Clients, NEW type \in RequestTypes, NEW id \in Clients \cup {Nobody},
           type = "CONNECT" => id \in Clients
    PROVE  /\ ToServer(type, c, id) \in Sent
           /\ ToServer(type, c, id).to = Server
           /\ ToServer(type, c, id).m.from = c
           /\ ToServer(type, c, id).m.type = type
           /\ ToServer(type, c, id).m.text = id
  BY DEF ToServer, Send, Request, Sent, Requests

LEMMA FromServer ==
    ASSUME NEW c \in Clients, NEW prio \in Int, NEW type \in Types,
           NEW text \in Clients \cup {Nobody}
    PROVE  /\ Send(c, Message(prio, type, Server, text)) \in Sent
           /\ Send(c, Message(prio, type, Server, text)).to = c
           /\ Send(c, Message(prio, type, Server, text)).m.type = type
           /\ Send(c, Message(prio, type, Server, text)).m.from = Server
  BY DEF Message, Send, Sent, Texts

\* What the rest of the system sees of a step of client c.
Others(c) ==
    /\ UNCHANGED <<server, clients, srvq>>
    /\ out'[Server] = out[Server]
    /\ \A d \in Clients \ {c} : /\ pc'[d] = pc[d] /\ out'[d] = out[d]
                                /\ queue'[d] = queue[d] /\ missed'[d] = missed[d]

\* A step that changes nothing but what client c owns.
OnlyOwn(c) ==
    /\ UNCHANGED <<server, clients, told, srvq>> /\ typed' \in 0 .. MaxCommands
    /\ pc' = [pc EXCEPT ![c] = pc'[c]] /\ out' = [out EXCEPT ![c] = out'[c]]
    /\ queue' = [queue EXCEPT ![c] = queue'[c]] /\ peer' = [peer EXCEPT ![c] = peer'[c]]
    /\ buffer' = [buffer EXCEPT ![c] = buffer'[c]] /\ missed' = [missed EXCEPT ![c] = missed'[c]]

OwnTyped(c) ==
    /\ pc'[c] \in Places /\ out'[c] \in Seq(Sent) /\ OutAt(c, pc'[c], out'[c])
    /\ QueueAt(queue'[c]) /\ peer'[c] \in Clients \cup {Nobody} /\ missed'[c] \in BOOLEAN
    /\ buffer'[c] \in Headers /\ (buffer'[c].type = "none" => buffer'[c] = Uninitialized)

LEMMA OwnTypes ==
    ASSUME TypeInv, OutInv, NEW c \in Clients, OnlyOwn(c), OwnTyped(c)
    PROVE  TypeInv' /\ OutInv' /\ Others(c)
<1>1. Others(c)
  BY ChatPosixAssumption DEF TypeInv, OnlyOwn, Others
<1>2. /\ pc' \in [Clients -> Places] /\ out' \in [Clients \cup {Server} -> Seq(Sent)]
      /\ peer' \in [Clients -> Clients \cup {Nobody}]
      /\ buffer' \in [Clients -> Headers] /\ missed' \in [Clients -> BOOLEAN]
  BY DEF TypeInv, OnlyOwn, OwnTyped
<1>3. queue' \in [Clients -> Seq(Texts)]
  BY DEF TypeInv, OnlyOwn, OwnTyped, QueueAt
<1>4. \A d \in Clients : QueueAt(queue'[d])
  BY <1>1 DEF TypeInv, OwnTyped, Others
<1>5. \A d \in Clients : buffer'[d].type = "none" => buffer'[d] = Uninitialized
  <2>1. \A d \in Clients \ {c} : buffer'[d] = buffer[d]
    BY DEF TypeInv, OnlyOwn
  <2> QED
    BY <2>1 DEF TypeInv, OwnTyped
<1>6. TypeInv'
  BY <1>2, <1>3, <1>4, <1>5 DEF TypeInv, OnlyOwn
<1>7. \A d \in Clients : OutAt(d, pc'[d], out'[d])
  BY <1>1 DEF OutInv, OwnTyped, Others
<1>8. OutInv'
  BY <1>1, <1>7 DEF OutInv, OutAt, ServerOutAt, Others
<1> QED
  BY <1>1, <1>6, <1>8

\* Such a step leaves the list and the public queue alone, so it must not lose
\* the client's reason to be busy, nor begin a wait.
LEMMA OwnServes ==
    ASSUME TypeInv, ServingInv, NEW c \in Clients, Others(c), ~(Awaits(c))',
           (Fresh(c))' => Fresh(c), Done(c) => (Done(c))',
           Fresh(c) => (Fresh(c))' \/ (Done(c))',
           (Alive(c))' => Fresh(c) \/ (Alive(c) /\ (Reason(c) => (Reason(c))'))
    PROVE  ServingInv'
<1> SUFFICES ASSUME server = "up" PROVE (OrderInv /\ AnswerInv /\ BusyInv)'
  BY DEF ServingInv, Others
<1>1. OrderInv /\ AnswerInv /\ BusyInv
  BY DEF ServingInv
<1>2. clients' = clients /\ srvq' = srvq
  BY DEF Others
<1>3. \A d \in Clients \ {c} : /\ (Fresh(d))' <=> Fresh(d)
                               /\ (Done(d))' <=> Done(d)
                               /\ (Awaits(d))' <=> Awaits(d)
                               /\ (Coming(d))' <=> Coming(d)
                               /\ (Alive(d))' <=> Alive(d)
                               /\ (Reason(d))' <=> Reason(d)
  BY <1>2 DEF Others, Fresh, Done, Awaits, Coming, Alive, Reason, Sending, Has
<1>4. \A i \in DOMAIN srvq : srvq[i].from \in Clients
  <2>1. \A i \in DOMAIN srvq : srvq[i] \in Requests
    BY DEF TypeInv
  <2> QED
    BY <2>1 DEF Requests
<1>5. OrderInv'
  <2>1. \A d \in Clients : (Fresh(d))' => Fresh(d)
    BY <1>3
  <2>2. \A d \in Clients : Done(d) => (Done(d))'
    BY <1>3
  <2>3. \A d \in Clients : Fresh(d) => (Fresh(d))' \/ (Done(d))'
    BY <1>3
  <2>4. ASSUME NEW i \in DOMAIN srvq, NEW d \in Clients, srvq[i].from = d
        PROVE  ~(Fresh(d))' /\ (srvq[i].type = "STOP" => (Done(d))')
    <3>1. ~Fresh(d) /\ (srvq[i].type = "STOP" => Done(d))
      BY <1>1, <2>4 DEF OrderInv
    <3> QED
      BY <2>1, <2>2, <3>1
  <2>5. \A d \in Clients : /\ (Fresh(d))' => ~IsListed(clients, d)
                           /\ ~(Fresh(d))' /\ ~(Done(d))' =>
                                 IsListed(clients, d) \/ Has(srvq, d, {"INIT"})
    BY <1>1, <2>1, <2>2, <2>3 DEF OrderInv
  <2> HIDE DEF Fresh, Done
  <2> QED
    BY <1>1, <1>2, <1>4, <2>4, <2>5 DEF OrderInv
<1>6. AnswerInv'
  BY <1>1, <1>3 DEF AnswerInv
<1>7. BusyInv'
  <2> SUFFICES ASSUME NEW d \in Clients, IsBusy(clients, d), (Alive(d))' PROVE (Reason(d))'
    BY <1>2 DEF BusyInv
  <2>1. CASE d # c
    BY <1>1, <1>3, <2>1 DEF BusyInv
  <2>2. CASE d = c
    <3>1. ~Fresh(c)
      <4>1. IsListed(clients, c)
        BY <2>2 DEF IsBusy, IsListed
      <4> QED
        BY <1>1, <4>1 DEF OrderInv
    <3> QED
      BY <1>1, <2>2, <3>1 DEF BusyInv
  <2> QED
    BY <2>1, <2>2
<1> QED
  BY <1>5, <1>6, <1>7

LEMMA Same ==
    ASSUME TypeInv, NEW c \in Clients
    PROVE  /\ pc[c] \in Places /\ pc = [pc EXCEPT ![c] = pc[c]]
           /\ out[c] \in Seq(Sent) /\ out = [out EXCEPT ![c] = out[c]]
           /\ QueueAt(queue[c]) /\ queue[c] \in Seq(Texts) /\ queue = [queue EXCEPT ![c] = queue[c]]
           /\ peer[c] \in Clients \cup {Nobody} /\ peer = [peer EXCEPT ![c] = peer[c]]
           /\ buffer[c] \in Headers /\ (buffer[c].type = "none" => buffer[c] = Uninitialized)
           /\ buffer = [buffer EXCEPT ![c] = buffer[c]]
           /\ missed[c] \in BOOLEAN /\ missed = [missed EXCEPT ![c] = missed[c]]
           /\ Uninitialized \in Headers /\ typed \in 0 .. MaxCommands
  BY DEF TypeInv, Headers, Uninitialized

LEMMA QueuePopped ==
    ASSUME NEW q, QueueAt(q), q # <<>>
    PROVE  /\ QueueAt(Tail(q)) /\ Head(q) = q[1] /\ q[1] \in Texts
           /\ \A c, types : Has(q, c, types) /\ (q[1].from # c \/ q[1].type \notin types)
                               => Has(Tail(q), c, types)
<1>1. q \in Seq(Texts) /\ Len(q) <= MAX_QUEUE_SIZE
  BY DEF QueueAt
<1>2. /\ Tail(q) \in Seq(Texts) /\ Head(q) = q[1] /\ q[1] \in Texts
      /\ Len(Tail(q)) = Len(q) - 1 /\ Len(q) \in Nat
      /\ \A i \in DOMAIN Tail(q) : i \in Nat /\ i + 1 \in DOMAIN q /\ Tail(q)[i] = q[i + 1]
  BY <1>1, Popped
<1>3. Len(Tail(q)) <= MAX_QUEUE_SIZE
  BY <1>1, <1>2, ChatPosixAssumption
<1>4. \A i, j \in DOMAIN Tail(q) : i < j => Tail(q)[i].prio >= Tail(q)[j].prio
  <2> SUFFICES ASSUME NEW i \in DOMAIN Tail(q), NEW j \in DOMAIN Tail(q), i < j
               PROVE  Tail(q)[i].prio >= Tail(q)[j].prio
    OBVIOUS
  <2>1. i + 1 \in DOMAIN q /\ j + 1 \in DOMAIN q /\ i + 1 < j + 1
    BY <1>2
  <2>2. q[i + 1].prio >= q[j + 1].prio
    BY <2>1 DEF QueueAt
  <2> QED
    BY <1>2, <2>2
<1> QED
  BY <1>1, <1>2, <1>3, <1>4, HasPopped DEF QueueAt

\* exit, at whatever place.
LEMMA ExitKeeps ==
    ASSUME ChatInv, NEW c \in Clients, ClientExits(c),
           UNCHANGED <<server, clients, told, srvq, queue>>, typed' \in 0 .. MaxCommands
    PROVE  ChatInv'
<1>1. TypeInv /\ OutInv /\ ServingInv
  BY DEF ChatInv
<1>2. /\ pc'[c] = "gone" /\ out'[c] = <<>> /\ queue'[c] = queue[c] /\ peer'[c] = Nobody
      /\ buffer'[c] = Uninitialized /\ missed'[c] = FALSE /\ OnlyOwn(c)
  BY <1>1, Same DEF ClientExits, Goes, Sends, TypeInv, OnlyOwn
<1>3. OwnTyped(c)
  <2>1. <<>> \in Seq(Sent) /\ OutAt(c, "gone", <<>>) /\ "gone" \in Places
    BY DEF OutAt, Places, Waiting
  <2>2. QueueAt(queue[c]) /\ Uninitialized \in Headers
    BY <1>1, Same
  <2> QED
    BY <1>2, <2>1, <2>2 DEF OwnTyped
<1>4. TypeInv' /\ OutInv' /\ Others(c)
  BY <1>1, <1>2, <1>3, OwnTypes
<1>5. ServingInv'
  BY <1>1, <1>2, <1>4, OwnServes DEF Fresh, Done, Awaits, Alive, Waiting
<1> QED
  BY <1>4, <1>5 DEF ChatInv

LEMMA StartKeeps ==
    ASSUME ChatInv, NEW c \in Clients, Start(c) PROVE ChatInv'
<1> DEFINE o == <<ToServer("INIT", c, Nobody)>>
<1>1. TypeInv /\ OutInv /\ ServingInv
  BY DEF ChatInv
<1>2. /\ pc[c] = "start" /\ pc'[c] = "init" /\ out'[c] = o /\ OnlyOwn(c)
      /\ UNCHANGED <<queue, peer, buffer, missed>>
  BY <1>1, Same DEF Start, Goes, Sends, TypeInv, OnlyOwn, serverVars
<1>3. OutAt(c, "init", o) /\ o \in Seq(Sent) /\ o # <<>>
  BY RequestIs DEF OutAt, Waiting, From, RequestTypes
<1> HIDE DEF o
<1>4. OwnTyped(c)
  BY <1>1, <1>2, <1>3, Same DEF OwnTyped, Places, Waiting
<1>5. TypeInv' /\ OutInv' /\ Others(c)
  BY <1>1, <1>2, <1>4, OwnTypes
<1>6. ServingInv'
  BY <1>1, <1>2, <1>3, <1>5, OwnServes DEF Fresh, Done, Awaits, Alive, Waiting
<1> QED
  BY <1>5, <1>6 DEF ChatInv

LEMMA TakesAnswerKeeps ==
    ASSUME ChatInv, NEW c \in Clients, TakesAnswer(c) PROVE ChatInv'
<1> DEFINE m == queue[c][1]
<1>1. TypeInv /\ OutInv /\ ServingInv
  BY DEF ChatInv
<1>2. /\ pc[c] \in {"init", "wait_list"} /\ out[c] = <<>> /\ queue[c] # <<>>
      /\ QueueAt(Tail(queue[c])) /\ Head(queue[c]) = m
      /\ \A types : Has(queue[c], Server, types) /\ (m.from # Server \/ m.type \notin types)
                       => Has(Tail(queue[c]), Server, types)
  BY <1>1, QueuePopped, Same DEF TakesAnswer, At, Receive
<1>3. /\ pc'[c] = "menu" /\ queue'[c] = Tail(queue[c])
      /\ missed'[c] = (missed[c] \/ (m.type = "CONNECT" /\ m.from = Server))
      /\ UNCHANGED <<out, peer, buffer>> /\ OnlyOwn(c)
  BY <1>1, <1>2, Same DEF TakesAnswer, Receive, Answered, Goes, TypeInv, OnlyOwn, serverVars
<1>4. OwnTyped(c)
  <2>1. missed'[c] \in BOOLEAN
    BY <1>3, Zenon
  <2> QED
    BY <1>1, <1>2, <1>3, <2>1, Same DEF OwnTyped, OutAt, Places, Waiting
<1>5. TypeInv' /\ OutInv' /\ Others(c)
  BY <1>1, <1>3, <1>4, OwnTypes
<1>6. Reason(c) => (Reason(c))'
  <2>1. CASE m.type = "CONNECT" /\ m.from = Server
    BY <1>3, <2>1, Zenon DEF Reason
  <2>2. CASE m.from # Server \/ m.type \notin {"CONNECT"}
    <3>1. Has(queue[c], Server, {"CONNECT"}) => Has(queue'[c], Server, {"CONNECT"})
      BY <1>2, <1>3, <2>2
    <3>2. missed[c] => missed'[c]
      BY <1>3, Zenon
    <3>3. srvq' = srvq /\ out' = out /\ pc[c] # "direct"
      BY <1>2, <1>3, <1>5 DEF Others
    <3> QED
      BY <3>1, <3>2, <3>3 DEF Reason, Sending
  <2> QED
    BY <2>1, <2>2
<1>7. ServingInv'
  BY <1>1, <1>2, <1>3, <1>5, <1>6, OwnServes DEF Fresh, Done, Awaits, Alive, Waiting
<1> QED
  BY <1>5, <1>7 DEF ChatInv

LEMMA LeavesKeeps ==
    ASSUME ChatInv, NEW c \in Clients, Leaves(c) PROVE ChatInv'
<1>1. TypeInv /\ OutInv /\ ServingInv
  BY DEF ChatInv
<1>2. /\ pc[c] = "leaving" /\ out[c] = <<>> /\ pc'[c] = "menu"
      /\ UNCHANGED <<out, queue, peer, buffer, missed>> /\ OnlyOwn(c)
  BY <1>1, Same DEF Leaves, At, Goes, TypeInv, OnlyOwn, serverVars
<1>3. OwnTyped(c)
  BY <1>1, <1>2, Same DEF OwnTyped, OutAt, Places, Waiting
<1>4. TypeInv' /\ OutInv' /\ Others(c)
  BY <1>1, <1>2, <1>3, OwnTypes
<1>5. Reason(c) => (Reason(c))'
  BY <1>2, <1>4 DEF Reason, Others, Sending
<1>6. ServingInv'
  BY <1>1, <1>2, <1>4, <1>5, OwnServes DEF Fresh, Done, Awaits, Alive, Waiting
<1> QED
  BY <1>4, <1>6 DEF ChatInv

\* A command of the menu: a request goes out and the client waits.
LEMMA AskKeeps ==
    ASSUME ChatInv, NEW c \in Clients, pc[c] = "menu", out[c] = <<>>,
           NEW type \in {"CONNECT", "LIST"}, NEW place, place \in From(type),
           NEW id \in Clients \cup {Nobody}, type = "CONNECT" => id \in Clients,
           Goes(c, place), Sends(c, <<ToServer(type, c, id)>>), Typed,
           UNCHANGED <<serverVars, srvq, queue, peer, buffer, missed>>
    PROVE  ChatInv'
<1> DEFINE o == <<ToServer(type, c, id)>>
<1>1. TypeInv /\ OutInv /\ ServingInv
  BY DEF ChatInv
<1>2. place \in {"wait_list", "wait_connect"}
  BY DEF From
<1>3. /\ pc'[c] = place /\ out'[c] = o /\ OnlyOwn(c)
      /\ UNCHANGED <<queue, peer, buffer, missed>>
  <2>1. typed' \in 0 .. MaxCommands
    BY <1>1, ChatPosixAssumption DEF Typed, TypeInv
  <2> QED
    BY <1>1, <2>1, Same DEF Goes, Sends, TypeInv, OnlyOwn, serverVars
<1>4. OutAt(c, place, o) /\ o \in Seq(Sent) /\ o # <<>>
  <2>1. /\ ToServer(type, c, id) \in Sent /\ ToServer(type, c, id).to = Server
        /\ ToServer(type, c, id).m.from = c /\ ToServer(type, c, id).m.type = type
        /\ type \notin {"STOP", "INIT"}
    BY RequestIs DEF RequestTypes
  <2>2. place \in Waiting
    BY <1>2 DEF Waiting
  <2> QED
    BY <1>2, <2>1, <2>2 DEF OutAt
<1> HIDE DEF o
<1>5. OwnTyped(c)
  BY <1>1, <1>2, <1>3, <1>4, Same DEF OwnTyped, Places, Waiting
<1>6. TypeInv' /\ OutInv' /\ Others(c)
  BY <1>1, <1>3, <1>5, OwnTypes
<1>7. Reason(c) => (Reason(c))'
  <2>1. ~Sending(c, Server, {"DISCONNECT"})
    BY DEF Sending
  <2> QED
    BY <1>3, <1>6, <2>1 DEF Reason, Others, Sending
<1>8. ServingInv'
  BY <1>1, <1>2, <1>3, <1>4, <1>6, <1>7, OwnServes DEF Fresh, Done, Awaits, Alive, Waiting
<1> QED
  BY <1>6, <1>8 DEF ChatInv

LEMMA TypeConnectKeeps ==
    ASSUME ChatInv, NEW c \in Clients, NEW d \in Clients, TypeConnect(c, d) PROVE ChatInv'
<1>1. "wait_connect" \in From("CONNECT")
  BY DEF From
<1> QED
  BY <1>1, AskKeeps DEF TypeConnect, At

LEMMA TypeListKeeps ==
    ASSUME ChatInv, NEW c \in Clients, TypeList(c) PROVE ChatInv'
<1>1. "wait_list" \in From("LIST") /\ Nobody \in Clients \cup {Nobody}
  BY DEF From
<1> QED
  BY <1>1, AskKeeps DEF TypeList, At

\* stop: DISCONNECT, then STOP.
LEMMA StopKeeps ==
    ASSUME ChatInv, NEW c \in Clients, pc[c] = "menu", out[c] = <<>>, Stop(c),
           NEW q, QueueAt(q), queue' = [queue EXCEPT ![c] = q],
           UNCHANGED <<server, clients, told, srvq>>, typed' \in 0 .. MaxCommands
    PROVE  ChatInv'
<1> DEFINE o == <<ToServer("DISCONNECT", c, Nobody), ToServer("STOP", c, Nobody)>>
<1>1. TypeInv /\ OutInv /\ ServingInv
  BY DEF ChatInv
<1>2. /\ pc'[c] = "stopping" /\ out'[c] = o /\ queue'[c] = q /\ OnlyOwn(c)
      /\ UNCHANGED <<peer, buffer, missed>>
  BY <1>1, Same DEF Stop, Goes, Sends, TypeInv, OnlyOwn
<1>3. /\ OutAt(c, "stopping", o) /\ o \in Seq(Sent) /\ o # <<>>
      /\ \E i \in DOMAIN o : o[i].to = Server /\ o[i].m.type \in {"DISCONNECT"}
  <2>1. \A type \in {"DISCONNECT", "STOP"} :
           /\ ToServer(type, c, Nobody) \in Sent /\ ToServer(type, c, Nobody).to = Server
           /\ ToServer(type, c, Nobody).m.from = c /\ ToServer(type, c, Nobody).m.type = type
    BY RequestIs DEF RequestTypes
  <2>2. Len(o) = 2 /\ DOMAIN o = 1 .. 2 /\ o # <<>> /\ o[1] = ToServer("DISCONNECT", c, Nobody)
        /\ o[2] = ToServer("STOP", c, Nobody)
    OBVIOUS
  <2>3. o \in Seq(Sent)
    BY <2>1
  <2>4. \A type \in {"DISCONNECT", "STOP"} : "stopping" \in From(type)
    BY DEF From
  <2> HIDE DEF o
  <2>5. OutAt(c, "stopping", o)
    <3> SUFFICES ASSUME NEW i \in 1 .. 2
                 PROVE  /\ o[i].m.from = c /\ "stopping" \in From(o[i].m.type)
                        /\ o[i].m.type = "STOP" => i = 2
                        /\ o[i].m.type # "INIT"
      BY <2>2 DEF OutAt, Waiting
    <3> QED
      BY <2>1, <2>2, <2>4
  <2>6. 1 \in DOMAIN o /\ o[1].to = Server /\ o[1].m.type \in {"DISCONNECT"}
    BY <2>1, <2>2
  <2> QED
    BY <2>2, <2>3, <2>5, <2>6
<1> HIDE DEF o
<1>4. OwnTyped(c)
  BY <1>1, <1>2, <1>3, Same DEF OwnTyped, Places
<1>5. TypeInv' /\ OutInv' /\ Others(c)
  BY <1>1, <1>2, <1>4, OwnTypes
<1>6. (Reason(c))'
  <2>1. (Sending(c, Server, {"DISCONNECT"}))'
    BY <1>2, <1>3 DEF Sending
  <2> QED
    BY <2>1 DEF Reason
<1>7. ServingInv'
  BY <1>1, <1>2, <1>3, <1>5, <1>6, OwnServes DEF Fresh, Done, Awaits, Alive, Waiting
<1> QED
  BY <1>5, <1>7 DEF ChatInv

LEMMA TypeStopKeeps ==
    ASSUME ChatInv, NEW c \in Clients, TypeStop(c) PROVE ChatInv'
<1>1. TypeInv
  BY DEF ChatInv
<1>2. /\ QueueAt(queue[c]) /\ queue' = [queue EXCEPT ![c] = queue[c]]
      /\ typed' \in 0 .. MaxCommands
  BY <1>1, Same, ChatPosixAssumption DEF TypeStop, Typed
<1> QED
  BY <1>2, StopKeeps DEF TypeStop, At, serverVars

LEMMA StopsKeeps ==
    ASSUME ChatInv, NEW c \in Clients, Stops(c) PROVE ChatInv'
<1>1. typed \in 0 .. MaxCommands
  BY DEF ChatInv, TypeInv
<1> QED
  BY <1>1, ExitKeeps DEF Stops, serverVars

LEMMA InterruptKeeps ==
    ASSUME ChatInv, NEW c \in Clients, Interrupt(c) PROVE ChatInv'
<1>1. typed \in 0 .. MaxCommands
  BY DEF ChatInv, TypeInv
<1> QED
  BY <1>1, ExitKeeps DEF Interrupt, serverVars

\* direct_connection begins: whatever reason there was, it is now the session.
LEMMA EnterDirectKeeps ==
    ASSUME ChatInv, NEW c \in Clients, pc[c] \in {"menu", "wait_connect"}, out[c] = <<>>,
           queue[c] # <<>>, NEW text, EnterDirect(c, text),
           queue' = [queue EXCEPT ![c] = Tail(queue[c])],
           UNCHANGED <<server, clients, told, srvq, out, typed>>
    PROVE  ChatInv'
<1>1. TypeInv /\ OutInv /\ ServingInv
  BY DEF ChatInv
<1>2. /\ pc'[c] = "direct" /\ queue'[c] = Tail(queue[c]) /\ missed'[c] = FALSE
      /\ buffer'[c] = Uninitialized /\ peer'[c] \in Clients \cup {Nobody}
      /\ OnlyOwn(c)
  BY <1>1, Same DEF EnterDirect, Goes, TypeInv, OnlyOwn
<1>3. OwnTyped(c)
  <2>1. <<>> \in Seq(Sent) /\ OutAt(c, "direct", <<>>) /\ "direct" \in Places
    BY DEF OutAt, Places, Waiting
  <2>2. QueueAt(Tail(queue[c])) /\ Uninitialized \in Headers
    BY <1>1, Same, QueuePopped
  <2> QED
    BY <1>2, <2>1, <2>2 DEF OwnTyped
<1>4. TypeInv' /\ OutInv' /\ Others(c)
  BY <1>1, <1>2, <1>3, OwnTypes
<1>5. (Reason(c))'
  BY <1>2 DEF Reason
<1>6. ServingInv'
  BY <1>1, <1>2, <1>4, <1>5, OwnServes DEF Fresh, Done, Awaits, Alive, Waiting
<1> QED
  BY <1>4, <1>6 DEF ChatInv

LEMMA MenuReceivesKeeps ==
    ASSUME ChatInv, NEW c \in Clients, MenuReceives(c) PROVE ChatInv'
<1> DEFINE m == Head(queue[c])
<1>1. TypeInv /\ OutInv /\ ServingInv
  BY DEF ChatInv
<1>2. /\ pc[c] = "menu" /\ out[c] = <<>> /\ queue[c] # <<>> /\ QueueAt(Tail(queue[c]))
      /\ queue' = [queue EXCEPT ![c] = Tail(queue[c])]
      /\ UNCHANGED <<server, clients, told, srvq, typed>> /\ typed \in 0 .. MaxCommands
  BY <1>1, QueuePopped, Same DEF MenuReceives, At, Receive, serverVars
<1>3. CASE m.type = "CONNECT" /\ EnterDirect(c, m.text) /\ UNCHANGED out
  BY <1>2, <1>3, EnterDirectKeeps
<1>4. CASE m.type = "STOP" /\ Stop(c)
  BY <1>2, <1>4, StopKeeps
<1>5. CASE m.type \notin {"CONNECT", "STOP"} /\ UNCHANGED <<out, clientVars>>
  <2>1. UNCHANGED <<out, pc, peer, buffer, missed>> /\ queue'[c] = Tail(queue[c]) /\ OnlyOwn(c)
    BY <1>1, <1>2, <1>5, Same DEF clientVars, TypeInv, OnlyOwn
  <2>2. OwnTyped(c)
    BY <1>1, <1>2, <2>1, Same DEF OwnTyped, OutInv
  <2>3. TypeInv' /\ OutInv' /\ Others(c)
    BY <1>1, <2>1, <2>2, OwnTypes
  <2>4. Reason(c) => (Reason(c))'
    <3>1. Has(queue[c], Server, {"CONNECT"}) => Has(queue'[c], Server, {"CONNECT"})
      <4>1. m = queue[c][1] /\ m.type \notin {"CONNECT"}
        BY <1>1, <1>2, <1>5, QueuePopped, Same
      <4> QED
        BY <1>1, <1>2, <2>1, <4>1, QueuePopped, Same
    <3> QED
      BY <2>1, <2>3, <3>1 DEF Reason, Others, Sending
  <2>5. ServingInv'
    BY <1>1, <1>2, <2>1, <2>3, <2>4, OwnServes DEF Fresh, Done, Awaits, Alive, Waiting
  <2> QED
    BY <2>3, <2>5 DEF ChatInv
<1> QED
  BY <1>3, <1>4, <1>5 DEF MenuReceives

LEMMA ConnectAnsweredKeeps ==
    ASSUME ChatInv, NEW c \in Clients, ConnectAnswered(c) PROVE ChatInv'
<1> DEFINE m == Head(queue[c])
<1>1. TypeInv /\ OutInv /\ ServingInv
  BY DEF ChatInv
<1>2. /\ pc[c] = "wait_connect" /\ out[c] = <<>> /\ queue[c] # <<>> /\ QueueAt(Tail(queue[c]))
      /\ queue' = [queue EXCEPT ![c] = Tail(queue[c])]
      /\ UNCHANGED <<server, clients, told, srvq, out, typed>> /\ typed \in 0 .. MaxCommands
  BY <1>1, QueuePopped, Same DEF ConnectAnswered, At, Receive, serverVars
<1>3. CASE m.from # c
  BY <1>2, <1>3, EnterDirectKeeps DEF ConnectAnswered
<1>4. CASE m.from = c
  <2>1. /\ pc'[c] = "menu" /\ UNCHANGED <<out, peer, buffer, missed>>
        /\ queue'[c] = Tail(queue[c]) /\ OnlyOwn(c)
    BY <1>1, <1>2, <1>4, Same DEF ConnectAnswered, Goes, TypeInv, OnlyOwn
  <2>2. OwnTyped(c)
    BY <1>1, <1>2, <2>1, Same DEF OwnTyped, OutAt, Places, Waiting
  <2>3. TypeInv' /\ OutInv' /\ Others(c)
    BY <1>1, <2>1, <2>2, OwnTypes
  <2>4. Reason(c) => (Reason(c))'
    <3>1. Has(queue[c], Server, {"CONNECT"}) => Has(queue'[c], Server, {"CONNECT"})
      <4>1. m = queue[c][1] /\ m.from # Server
        BY <1>1, <1>2, <1>4, QueuePopped, Same, ChatPosixAssumption
      <4> QED
        BY <1>1, <1>2, <2>1, <4>1, QueuePopped, Same
    <3> QED
      BY <1>2, <2>1, <2>3, <3>1 DEF Reason, Others, Sending
  <2>5. ServingInv'
    BY <1>1, <1>2, <2>1, <2>3, <2>4, OwnServes DEF Fresh, Done, Awaits, Alive, Waiting
  <2> QED
    BY <2>3, <2>5 DEF ChatInv
<1> QED
  BY <1>3, <1>4

\* direct_connection ends: DISCONNECT to the server is the last thing sent.
LEMMA EndsSessionKeeps ==
    ASSUME ChatInv, NEW c \in Clients, pc[c] = "direct", out[c] = <<>>,
           NEW o \in Seq(Sent), OutAt(c, "leaving", o), EndsSession(c, o),
           \E i \in DOMAIN o : o[i].to = Server /\ o[i].m.type \in {"DISCONNECT"},
           NEW q, QueueAt(q), queue' = [queue EXCEPT ![c] = q],
           UNCHANGED <<server, clients, told, srvq>>, typed' \in 0 .. MaxCommands
    PROVE  ChatInv'
<1>1. TypeInv /\ OutInv /\ ServingInv
  BY DEF ChatInv
<1>2. /\ pc'[c] = "leaving" /\ out'[c] = o /\ queue'[c] = q /\ peer'[c] = Nobody
      /\ buffer'[c] = Uninitialized /\ missed' = missed /\ OnlyOwn(c)
  BY <1>1, Same DEF EndsSession, Goes, Sends, TypeInv, OnlyOwn
<1>3. OwnTyped(c)
  <2>1. "leaving" \in Places /\ Uninitialized \in Headers /\ missed[c] \in BOOLEAN
    BY <1>1, Same DEF Places
  <2> QED
    BY <1>2, <2>1 DEF OwnTyped
<1>4. TypeInv' /\ OutInv' /\ Others(c)
  BY <1>1, <1>2, <1>3, OwnTypes
<1>5. (Reason(c))'
  <2>1. (Sending(c, Server, {"DISCONNECT"}))'
    BY <1>2 DEF Sending
  <2> QED
    BY <2>1 DEF Reason
<1>6. ServingInv'
  BY <1>1, <1>2, <1>4, <1>5, OwnServes DEF Fresh, Done, Awaits, Alive, Waiting
<1> QED
  BY <1>4, <1>6 DEF ChatInv

LEMMA DirectReceivesKeeps ==
    ASSUME ChatInv, NEW c \in Clients, DirectReceives(c) PROVE ChatInv'
<1> DEFINE m == Head(queue[c])
           d == ToServer("DISCONNECT", c, Nobody)
<1>1. TypeInv /\ OutInv /\ ServingInv
  BY DEF ChatInv
<1>2. /\ pc[c] = "direct" /\ out[c] = <<>> /\ queue[c] # <<>> /\ QueueAt(Tail(queue[c]))
      /\ queue' = [queue EXCEPT ![c] = Tail(queue[c])] /\ m \in Texts
      /\ UNCHANGED <<server, clients, told, srvq, typed>> /\ typed \in 0 .. MaxCommands
  BY <1>1, QueuePopped, Same DEF DirectReceives, At, Receive, serverVars
<1>3. CASE m.text = "DISCONNECT"
  <2>1. EndsSession(c, <<d>>)
    BY <1>3 DEF DirectReceives
  <2>2. d \in Sent /\ d.to = Server /\ d.m.from = c /\ d.m.type = "DISCONNECT"
    BY RequestIs DEF RequestTypes
  <2>3. OutAt(c, "leaving", <<d>>) /\ <<d>> \in Seq(Sent)
    BY <2>2 DEF OutAt, Waiting, From
  <2>4. \E i \in DOMAIN <<d>> : <<d>>[i].to = Server /\ <<d>>[i].m.type \in {"DISCONNECT"}
    BY <2>2
  <2> HIDE DEF d
  <2> QED
    BY <1>2, <2>1, <2>3, <2>4, EndsSessionKeeps
<1>4. CASE m.text # "DISCONNECT"
  <2>1. /\ UNCHANGED <<out, pc, peer, missed>> /\ queue'[c] = Tail(queue[c])
        /\ buffer'[c] = [type |-> m.type, from |-> m.from] /\ OnlyOwn(c)
    BY <1>1, <1>2, <1>4, Same DEF DirectReceives, TypeInv, OnlyOwn
  <2>2. buffer'[c] \in Headers /\ buffer'[c].type # "none"
    BY <1>2, <2>1 DEF Headers, Texts, Types
  <2>3. OwnTyped(c)
    BY <1>1, <1>2, <2>1, <2>2, Same DEF OwnTyped, OutInv
  <2>4. TypeInv' /\ OutInv' /\ Others(c)
    BY <1>1, <2>1, <2>3, OwnTypes
  <2>5. (Reason(c))'
    BY <1>2, <2>1 DEF Reason
  <2>6. ServingInv'
    BY <1>1, <1>2, <2>1, <2>4, <2>5, OwnServes DEF Fresh, Done, Awaits, Alive, Waiting
  <2> QED
    BY <2>4, <2>6 DEF ChatInv
<1> QED
  BY <1>3, <1>4

LEMMA TypeLineKeeps ==
    ASSUME ChatInv, NEW c \in Clients, NEW text \in {Nobody, "DISCONNECT"}, TypeLine(c, text)
    PROVE  ChatInv'
<1> DEFINE d == ToServer("DISCONNECT", c, Nobody)
<1>1. TypeInv /\ OutInv /\ ServingInv
  BY DEF ChatInv
<1>2. /\ pc[c] = "direct" /\ out[c] = <<>> /\ typed' \in 0 .. MaxCommands
      /\ UNCHANGED <<server, clients, told, srvq, queue>>
      /\ QueueAt(queue[c]) /\ queue = [queue EXCEPT ![c] = queue[c]]
  BY <1>1, Same, ChatPosixAssumption DEF TypeLine, At, Typed, serverVars
<1>3. CASE peer[c] = Nobody
  BY <1>2, <1>3, ExitKeeps DEF TypeLine
<1>4. CASE peer[c] # Nobody
  <2> DEFINE line(h) == Send(peer[c], Message(0, h.type, h.from, text))
  <2>1. PICK h \in Header(c) :
           IF text = "DISCONNECT" THEN EndsSession(c, <<line(h), d>>)
           ELSE /\ Sends(c, <<line(h)>>)
                /\ buffer' = [buffer EXCEPT ![c] = h]
                /\ UNCHANGED <<pc, peer, missed>>
    BY <1>4 DEF TypeLine
  <2>2. peer[c] \in Clients
    BY <1>1, <1>4, Same
  <2>3. h \in Headers /\ h.type \in Types /\ h.from \in Clients \cup {Nobody, Server}
    <3>1. CASE buffer[c] = Uninitialized
      BY <1>1, <3>1, Same DEF Header, Headers, Types
    <3>2. CASE buffer[c] # Uninitialized
      <4>1. h = buffer[c] /\ h \in Headers /\ h.type # "none"
        BY <1>1, <3>2, Same DEF Header
      <4> QED
        BY <4>1 DEF Headers
    <3> QED
      BY <3>1, <3>2
  <2> DEFINE l == line(h)
  <2>4. l \in Sent /\ l.to # Server
    <3>1. 0 \in Int /\ text \in Clients \cup {Nobody, "DISCONNECT"}
      OBVIOUS
    <3>2. \A t \in Types, f \in Clients \cup {Nobody, Server} :
             /\ Send(peer[c], Message(0, t, f, text)) \in Sent
             /\ Send(peer[c], Message(0, t, f, text)).to # Server
      <4> TAKE t \in Types, f \in Clients \cup {Nobody, Server}
      <4> DEFINE e == peer[c]
      <4>1. e \in Clients
        BY <2>2
      <4> HIDE DEF e
      <4>2. /\ Send(e, Message(0, t, f, text)) \in Sent
            /\ Send(e, Message(0, t, f, text)).to # Server
        BY <3>1, <4>1, ChatPosixAssumption DEF Message, Send, Sent, Texts
      <4> QED
        BY <4>2, Zenon DEF e
    <3> QED
      BY <2>3, <3>2
  <2>5. d \in Sent /\ d.to = Server /\ d.m.from = c /\ d.m.type = "DISCONNECT"
    BY RequestIs DEF RequestTypes
  <2>6. CASE text = "DISCONNECT"
    <3> DEFINE o == <<l, d>>
    <3>1. EndsSession(c, o)
      BY <2>1, <2>6
    <3> HIDE DEF l, d
    <3>2. o \in Seq(Sent) /\ DOMAIN o = 1 .. 2 /\ o[1] = l /\ o[2] = d
      BY <2>4, <2>5
    <3> HIDE DEF o
    <3>3. OutAt(c, "leaving", o) /\ \E i \in DOMAIN o : o[i].to = Server /\ o[i].m.type \in {"DISCONNECT"}
      BY <2>4, <2>5, <3>2 DEF OutAt, Waiting, From
    <3> QED
      BY <1>2, <3>1, <3>2, <3>3, EndsSessionKeeps
  <2>7. CASE text # "DISCONNECT"
    <3>1. /\ out' = [out EXCEPT ![c] = <<l>>] /\ buffer' = [buffer EXCEPT ![c] = h]
          /\ UNCHANGED <<pc, peer, missed>>
      BY <2>1, <2>7 DEF Sends
    <3> HIDE DEF l
    <3>2. out'[c] = <<l>> /\ buffer'[c] = h /\ OnlyOwn(c)
      BY <1>1, <1>2, <3>1, Same DEF TypeInv, OnlyOwn
    <3>3. OutAt(c, "direct", <<l>>) /\ <<l>> \in Seq(Sent)
      BY <2>4 DEF OutAt, Waiting
    <3>4. OwnTyped(c)
      <4>1. h.type # "none"
        BY <2>3 DEF Types
      <4> QED
        BY <1>1, <1>2, <2>3, <3>1, <3>2, <3>3, <4>1, Same DEF OwnTyped
    <3>5. TypeInv' /\ OutInv' /\ Others(c)
      BY <1>1, <3>2, <3>4, OwnTypes
    <3>6. (Reason(c))'
      BY <1>2, <3>1 DEF Reason
    <3>7. ServingInv'
      BY <1>1, <1>2, <3>1, <3>5, <3>6, OwnServes DEF Fresh, Done, Awaits, Alive, Waiting
    <3> QED
      BY <3>5, <3>7 DEF ChatInv
  <2> QED
    BY <2>6, <2>7
<1> QED
  BY <1>3, <1>4
------------------------------------------------------------------------------
(* mq_send.                                                                *)

LEMMA OutTail ==
    ASSUME NEW c, NEW place, NEW o \in Seq(Sent), o # <<>>, OutAt(c, place, o)
    PROVE  OutAt(c, place, Tail(o))
<1>1. /\ Len(Tail(o)) = Len(o) - 1 /\ Len(o) \in Nat \ {0}
      /\ \A i \in DOMAIN Tail(o) : i \in Nat /\ i + 1 \in DOMAIN o /\ Tail(o)[i] = o[i + 1]
  BY Popped
<1>2. place \notin {"start", "menu", "gone"}
  BY DEF OutAt
<1>3. place \in Waiting => Len(Tail(o)) <= 1
  BY <1>1 DEF OutAt
<1>4. place \in Waiting => \A i \in DOMAIN Tail(o) : Tail(o)[i].to = Server
  BY <1>1 DEF OutAt
<1>5. ASSUME NEW i \in DOMAIN Tail(o), Tail(o)[i].to = Server
      PROVE  /\ Tail(o)[i].m.from = c /\ place \in From(Tail(o)[i].m.type)
             /\ Tail(o)[i].m.type = "STOP" => i = Len(Tail(o))
             /\ Tail(o)[i].m.type = "INIT" => Tail(o)[i].m.text = Nobody
  <2>1. i \in Nat /\ i + 1 \in DOMAIN o /\ Tail(o)[i] = o[i + 1]
    BY <1>1
  <2>2. /\ o[i + 1].m.from = c /\ place \in From(o[i + 1].m.type)
        /\ o[i + 1].m.type = "STOP" => i + 1 = Len(o)
        /\ o[i + 1].m.type = "INIT" => o[i + 1].m.text = Nobody
    BY <1>5, <2>1 DEF OutAt
  <2>3. i + 1 = Len(o) => i = Len(Tail(o))
    <3> DEFINE l == Len(o)
               n == Len(Tail(o))
    <3>1. n = l - 1 /\ l \in Nat /\ i \in Nat
      BY <1>1, <2>1
    <3> HIDE DEF l, n
    <3>2. i + 1 = l => i = n
      BY <3>1
    <3> QED
      BY <3>2, Zenon DEF l, n
  <2> QED
    BY <2>1, <2>2, <2>3, Zenon
<1> QED
  BY <1>2, <1>3, <1>4, <1>5 DEF OutAt

\* What a process has sent is no longer in its out queue; the rest is.
LEMMA SendingTail ==
    ASSUME NEW p, out[p] \in Seq(Sent), out[p] # <<>>, out'[p] = Tail(out[p]),
           NEW to, NEW types, Sending(p, to, types)
    PROVE  (Head(out[p]).to = to /\ Head(out[p]).m.type \in types) \/ (Sending(p, to, types))'
<1>1. PICK i \in DOMAIN out[p] : out[p][i].to = to /\ out[p][i].m.type \in types
  BY DEF Sending
<1>2. /\ Head(out[p]) = out[p][1]
      /\ i # 1 => i - 1 \in DOMAIN Tail(out[p]) /\ Tail(out[p])[i - 1] = out[p][i]
  BY <1>1, Popped
<1>3. CASE i = 1
  BY <1>1, <1>2, <1>3
<1>4. CASE i # 1
  BY <1>1, <1>2, <1>4 DEF Sending
<1> QED
  BY <1>3, <1>4

\* A request of client c enters the public queue.
LEMMA SendToServerOrder ==
    ASSUME TypeInv, OutInv, OrderInv, NEW c \in Clients, out[c] # <<>>,
           NEW s, s = Head(out[c]), s.to = Server, s.m \in Requests,
           srvq' = Append(srvq, s.m), out' = [out EXCEPT ![c] = Tail(out[c])],
           UNCHANGED <<clients, pc>>
    PROVE  OrderInv'
<1> DEFINE r == s.m
<1>1. /\ r \in Requests /\ r.from = c /\ pc[c] \in From(r.type)
      /\ r.type = "STOP" => Len(out[c]) = 1
      /\ r.type = "INIT" => r.text = Nobody
      /\ pc[c] \in Waiting => Len(out[c]) <= 1
      /\ pc[c] \notin {"start", "menu", "gone"}
  <2>1. out[c] \in Seq(Sent)
    BY DEF TypeInv
  <2>2. s = out[c][1] /\ 1 \in DOMAIN out[c]
    BY <2>1, Popped
  <2>3. OutAt(c, pc[c], out[c])
    BY DEF OutInv
  <2>4. /\ out[c][1].m.from = c /\ pc[c] \in From(out[c][1].m.type)
        /\ out[c][1].m.type = "STOP" => 1 = Len(out[c])
        /\ out[c][1].m.type = "INIT" => out[c][1].m.text = Nobody
    BY <2>2, <2>3, Zenon DEF OutAt
  <2>5. /\ pc[c] \in Waiting => Len(out[c]) <= 1
        /\ pc[c] \notin {"start", "menu", "gone"}
    BY <2>3 DEF OutAt
  <2> QED
    BY <2>2, <2>4, <2>5
<1>2. Len(out[c]) <= 1 => Tail(out[c]) = <<>>
  <2>1. out[c] \in Seq(Sent)
    BY DEF TypeInv
  <2>2. Tail(out[c]) \in Seq(Sent) /\ Len(Tail(out[c])) = Len(out[c]) - 1 /\ Len(out[c]) \in Nat \ {0}
    BY <2>1, Popped
  <2> QED
    BY <2>2
<1>3. out'[c] = Tail(out[c]) /\ \A d \in Clients \ {c} : out'[d] = out[d]
  BY DEF TypeInv
<1>4. /\ ~Done(c) /\ (Fresh(c) <=> r.type = "INIT") /\ ~(Fresh(c))'
      /\ r.type = "STOP" => (Done(c))'
      /\ r.type = "INIT" => ~(Done(c))'
  <2>1. r.type \in RequestTypes
    BY <1>1 DEF Requests
  <2>2. r.type = "INIT" <=> pc[c] = "init"
    BY <1>1, <2>1 DEF From, RequestTypes
  <2>3. r.type = "STOP" => pc[c] = "stopping" /\ Tail(out[c]) = <<>>
    <3>1. r.type = "STOP" => pc[c] \in From("STOP") /\ Len(out[c]) = 1
      BY <1>1, Zenon
    <3>2. From("STOP") = {"stopping"}
      BY DEF From
    <3>3. Len(out[c]) = 1 => Tail(out[c]) = <<>>
      <4> DEFINE l == Len(out[c])
      <4>1. l = 1 => l <= 1
        OBVIOUS
      <4> QED
        BY <1>2, <4>1, Zenon
    <3>4. pc[c] \in {"stopping"} => pc[c] = "stopping"
      OBVIOUS
    <3> QED
      BY <3>1, <3>2, <3>3, <3>4, Zenon
  <2>4. pc[c] = "init" => Tail(out[c]) = <<>>
    BY <1>1, <1>2 DEF Waiting
  <2> HIDE DEF r
  <2> QED
    BY <1>1, <1>3, <2>2, <2>3, <2>4 DEF Fresh, Done
<1>5. \A d \in Clients \ {c} : ((Fresh(d))' <=> Fresh(d)) /\ ((Done(d))' <=> Done(d))
  BY <1>3 DEF Fresh, Done
<1> HIDE DEF r
<1>6. srvq \in Seq(Requests) /\ srvq' = Append(srvq, r)
  BY DEF TypeInv, r
<1>7. /\ Len(srvq) \in Nat /\ Len(srvq) + 1 \in DOMAIN srvq' /\ srvq'[Len(srvq) + 1] = r
      /\ \A i \in DOMAIN srvq : /\ i \in Nat /\ i <= Len(srvq)
                                /\ i \in DOMAIN srvq' /\ srvq'[i] = srvq[i]
      /\ \A i \in DOMAIN srvq' : i \in DOMAIN srvq \/ i = Len(srvq) + 1
  BY <1>1, <1>6, Pushed
<1>8. \A d, types : Has(srvq', d, types) <=> Has(srvq, d, types) \/ (r.from = d /\ r.type \in types)
  BY <1>1, <1>6, HasPushed
<1> DEFINE n == Len(srvq) + 1
<1>9. /\ \A i \in DOMAIN srvq : srvq[i] \in Requests /\ srvq[i].from \in Clients
      /\ n \in DOMAIN srvq' /\ srvq'[n] = r
      /\ \A i \in DOMAIN srvq : i < n /\ i # n
  <2>1. \A i \in DOMAIN srvq : srvq[i] \in Requests
    BY <1>6
  <2> QED
    BY <1>7, <2>1 DEF Requests
<1> HIDE DEF n, Fresh, Done
<1>10. Fresh(c) => \A i \in DOMAIN srvq : srvq[i].from # c
  BY DEF OrderInv
<1>11. \A i, j \in DOMAIN srvq' :
          i < j /\ srvq'[i].from = srvq'[j].from => srvq'[i].type # "STOP" /\ srvq'[j].type # "INIT"
  <2> SUFFICES ASSUME NEW i \in DOMAIN srvq', NEW j \in DOMAIN srvq', i < j,
                      srvq'[i].from = srvq'[j].from
               PROVE  srvq'[i].type # "STOP" /\ srvq'[j].type # "INIT"
    OBVIOUS
  <2>1. CASE i \in DOMAIN srvq /\ j \in DOMAIN srvq
    BY <1>7, <2>1 DEF OrderInv
  <2>2. CASE i \in DOMAIN srvq /\ j = n
    <3>1. srvq'[i] = srvq[i] /\ srvq[i].from = c /\ srvq'[j] = r
      BY <1>1, <1>7, <1>9, <2>2
    <3>2. srvq[i].type = "STOP" => Done(c)
      BY <2>2, <3>1 DEF OrderInv
    <3> QED
      BY <1>4, <1>10, <2>2, <3>1, <3>2
  <2>3. i # n
    BY <1>7 DEF n
  <2> QED
    BY <1>7, <2>1, <2>2, <2>3 DEF n
<1>12. ASSUME NEW i \in DOMAIN srvq', NEW d \in Clients, srvq'[i].from = d
       PROVE  /\ ~(Fresh(d))'
              /\ srvq'[i].type = "STOP" => (Done(d))'
              /\ srvq'[i].type = "INIT" => ~IsListed(clients, d) /\ srvq'[i].text = Nobody
              /\ \/ IsListed(clients, d)
                 \/ \E j \in 1 .. i : srvq'[j].type = "INIT" /\ srvq'[j].from = d
  <2>1. CASE i \in DOMAIN srvq
    <3>1. srvq'[i] = srvq[i] /\ srvq[i].from = d
      BY <1>7, <1>12, <2>1
    <3>2. /\ ~Fresh(d)
          /\ srvq[i].type = "STOP" => Done(d)
          /\ srvq[i].type = "INIT" => ~IsListed(clients, d) /\ srvq[i].text = Nobody
          /\ \/ IsListed(clients, d)
             \/ \E j \in 1 .. i : srvq[j].type = "INIT" /\ srvq[j].from = d
      BY <2>1, <3>1 DEF OrderInv
    <3>3. ~(Fresh(d))' /\ (Done(d) => (Done(d))')
      BY <1>4, <1>5, <3>2
    <3>4. \A j \in 1 .. i : j \in DOMAIN srvq
      BY <1>6, <2>1
    <3>5. \A j \in 1 .. i : srvq'[j] = srvq[j]
      BY <1>7, <3>4
    <3> QED
      BY <3>1, <3>2, <3>3, <3>5
  <2>2. CASE i = n
    <3>1. srvq'[i] = r /\ d = c /\ i \in 1 .. i
      BY <1>1, <1>7, <1>9, <1>12, <2>2 DEF n
    <3>2. CASE r.type = "INIT"
      <4>1. ~IsListed(clients, c)
        BY <1>4, <3>2 DEF OrderInv
      <4> QED
        BY <1>1, <1>4, <3>1, <3>2, <4>1
    <3>3. CASE r.type # "INIT"
      <4>1. IsListed(clients, c) \/ Has(srvq, c, {"INIT"})
        BY <1>4, <3>3 DEF OrderInv
      <4>2. ASSUME Has(srvq, c, {"INIT"})
            PROVE  \E j \in 1 .. i : srvq'[j].type = "INIT" /\ srvq'[j].from = c
        <5>1. PICK j \in DOMAIN srvq : srvq[j].type = "INIT" /\ srvq[j].from = c
          BY <4>2 DEF Has
        <5>2. srvq'[j] = srvq[j] /\ j \in 1 .. i
          BY <1>6, <1>7, <2>2, <5>1 DEF n
        <5> QED
          BY <5>1, <5>2
      <4> QED
        BY <1>4, <3>1, <3>3, <4>1, <4>2
    <3> QED
      BY <3>2, <3>3
  <2> QED
    BY <1>7, <2>1, <2>2 DEF n
<1>13. ASSUME NEW d \in Clients
       PROVE  /\ (Fresh(d))' => ~IsListed(clients, d)
              /\ ~(Fresh(d))' /\ ~(Done(d))' => IsListed(clients, d) \/ Has(srvq', d, {"INIT"})
  <2>1. CASE d # c
    BY <1>5, <1>8, <2>1 DEF OrderInv
  <2>2. CASE d = c
    BY <1>1, <1>4, <1>8, <2>2 DEF OrderInv
  <2> QED
    BY <2>1, <2>2
<1>14. \A i \in DOMAIN srvq' : srvq'[i].from \in Clients
  BY <1>1, <1>7, <1>9 DEF n
<1> QED
  BY <1>11, <1>12, <1>13, <1>14 DEF OrderInv

LEMMA SentIs ==
    ASSUME TypeInv, NEW p \in Clients \cup {Server}, out[p] # <<>>
    PROVE  /\ out[p] \in Seq(Sent) /\ Tail(out[p]) \in Seq(Sent)
           /\ Head(out[p]) = out[p][1] /\ 1 \in DOMAIN out[p]
           /\ Head(out[p]).to = Server => Head(out[p]).m \in Requests
           /\ Head(out[p]).to # Server => Head(out[p]).to \in Clients /\ Head(out[p]).m \in Texts
<1>1. out[p] \in Seq(Sent)
  BY DEF TypeInv
<1>2. /\ Tail(out[p]) \in Seq(Sent) /\ Head(out[p]) = out[p][1] /\ 1 \in DOMAIN out[p]
      /\ out[p][1] \in Sent
  BY <1>1, Popped
<1>3. \A s \in Sent : /\ s.to = Server => s.m \in Requests
                      /\ s.to # Server => s.to \in Clients /\ s.m \in Texts
  BY ChatPosixAssumption DEF Sent
<1> QED
  BY <1>1, <1>2, <1>3

\* OutInv is about suffixes: it does not mind what has been sent.
LEMMA SendOut ==
    ASSUME TypeInv, OutInv, NEW p \in Clients \cup {Server}, out[p] # <<>>,
           out' = [out EXCEPT ![p] = Tail(out[p])], pc' = pc
    PROVE  /\ OutInv' /\ out' \in [Clients \cup {Server} -> Seq(Sent)]
           /\ out'[p] = Tail(out[p])
           /\ \A d \in (Clients \cup {Server}) \ {p} : out'[d] = out[d]
<1>1. /\ out' \in [Clients \cup {Server} -> Seq(Sent)] /\ out'[p] = Tail(out[p])
      /\ \A d \in (Clients \cup {Server}) \ {p} : out'[d] = out[d]
  BY SentIs DEF TypeInv
<1>2. ASSUME NEW d \in Clients PROVE OutAt(d, pc[d], out'[d])
  <2>1. OutAt(d, pc[d], out[d])
    BY DEF OutInv
  <2>2. CASE d = p
    BY <1>1, <2>1, <2>2, OutTail, SentIs
  <2>3. CASE d # p
    BY <1>1, <2>1, <2>3
  <2> QED
    BY <2>2, <2>3
<1>3. ServerOutAt(out'[Server])
  <2>1. ServerOutAt(out[Server])
    BY DEF OutInv
  <2>2. CASE p = Server
    <3>1. out[p] \in Seq(Sent)
      BY SentIs
    <3>2. \A i \in DOMAIN Tail(out[p]) : i + 1 \in DOMAIN out[p] /\ Tail(out[p])[i] = out[p][i + 1]
      BY <3>1, Popped
    <3> QED
      BY <1>1, <2>1, <2>2, <3>2 DEF ServerOutAt
  <2>3. CASE p # Server
    BY <1>1, <2>1, <2>3
  <2> QED
    BY <2>2, <2>3
<1>4. OutInv'
  BY <1>2, <1>3 DEF OutInv, OutAt, ServerOutAt
<1> QED
  BY <1>1, <1>4

LEMMA SendToServerKeeps ==
    ASSUME ChatInv, NEW c \in Clients, out[c] # <<>>,
           NEW s, s = Head(out[c]), s.to = Server, Len(srvq) < MAX_QUEUE_SIZE,
           srvq' = Append(srvq, s.m), out' = [out EXCEPT ![c] = Tail(out[c])],
           UNCHANGED <<serverVars, queue, clientVars, typed>>
    PROVE  ChatInv'
<1>1. TypeInv /\ OutInv /\ ServingInv
  BY DEF ChatInv
<1>2. UNCHANGED <<server, clients, told, queue, pc, peer, buffer, missed, typed>>
  BY DEF serverVars, clientVars
<1>3. s.m \in Requests /\ s = out[c][1] /\ 1 \in DOMAIN out[c] /\ srvq \in Seq(Requests)
  BY <1>1, SentIs DEF TypeInv
<1>4. /\ OutInv' /\ out' \in [Clients \cup {Server} -> Seq(Sent)] /\ out'[c] = Tail(out[c])
      /\ \A d \in (Clients \cup {Server}) \ {c} : out'[d] = out[d]
  BY <1>1, <1>2, SendOut
<1>5. TypeInv'
  <2>1. srvq' \in Seq(Requests) /\ Len(srvq') = Len(srvq) + 1 /\ Len(srvq) \in Nat
    BY <1>3, Pushed
  <2>2. Len(srvq') <= MAX_QUEUE_SIZE
    BY <2>1, ChatPosixAssumption
  <2> QED
    BY <1>1, <1>2, <1>4, <2>1, <2>2 DEF TypeInv, QueueAt
<1>6. \A d, types : Has(srvq', d, types)
                       <=> Has(srvq, d, types) \/ (s.m.from = d /\ s.m.type \in types)
  BY <1>3, HasPushed
<1>7. /\ OutAt(c, pc[c], out[c]) /\ s.m.from = c /\ pc[c] \in From(s.m.type)
      /\ s.m.type \in RequestTypes
  BY <1>1, <1>3 DEF OutInv, OutAt, Requests
<1>8. Server # c
  BY ChatPosixAssumption
<1>9. ASSUME AnswerInv PROVE AnswerInv'
  <2> SUFFICES ASSUME NEW d \in Clients, (Awaits(d))' PROVE (Coming(d))'
    BY DEF AnswerInv
  <2>1. CASE d # c
    <3>1. Awaits(d)
      BY <1>2, <1>4, <2>1 DEF Awaits
    <3>2. Coming(d)
      BY <1>9, <3>1 DEF AnswerInv
    <3> QED
      BY <1>2, <1>4, <1>6, <1>8, <3>2 DEF Coming, Sending
  <2>2. CASE d = c
    <3>1. s.m.type \in {"INIT", "CONNECT", "LIST"}
      BY <1>2, <1>7, <2>2 DEF Awaits, Waiting, From, RequestTypes
    <3> QED
      BY <1>6, <1>7, <2>2, <3>1 DEF Coming
  <2> QED
    BY <2>1, <2>2
<1>10. ASSUME BusyInv PROVE BusyInv'
  <2> SUFFICES ASSUME NEW d \in Clients, IsBusy(clients, d), Alive(d) PROVE (Reason(d))'
    BY <1>2 DEF BusyInv, Alive
  <2>1. Reason(d)
    BY <1>10 DEF BusyInv
  <2>2. Sending(Server, d, {"CONNECT"}) => (Sending(Server, d, {"CONNECT"}))'
    BY <1>4, <1>8 DEF Sending
  <2>3. Sending(d, Server, {"DISCONNECT"}) =>
           Has(srvq', d, {"DISCONNECT"}) \/ (Sending(d, Server, {"DISCONNECT"}))'
    <3>1. CASE d # c
      BY <1>4, <3>1 DEF Sending
    <3>2. CASE d = c
      <4>1. ASSUME Sending(c, Server, {"DISCONNECT"})
            PROVE  s.m.type \in {"DISCONNECT"} \/ (Sending(c, Server, {"DISCONNECT"}))'
        BY <1>1, <1>4, <4>1, SendingTail, SentIs
      <4> QED
        BY <1>6, <1>7, <3>2, <4>1
    <3> QED
      BY <3>1, <3>2
  <2>4. Has(srvq, d, {"DISCONNECT"}) => Has(srvq', d, {"DISCONNECT"})
    BY <1>6
  <2> QED
    BY <1>2, <2>1, <2>2, <2>3, <2>4 DEF Reason
<1>11. ServingInv'
  <2>1. OrderInv => OrderInv'
    BY <1>1, <1>2, <1>3, SendToServerOrder
  <2> QED
    BY <1>1, <1>2, <1>9, <1>10, <2>1 DEF ServingInv
<1> QED
  BY <1>4, <1>5, <1>11 DEF ChatInv

LEMMA SendToClientKeeps ==
    ASSUME ChatInv, NEW p \in Clients \cup {Server}, out[p] # <<>>,
           NEW s, s = Head(out[p]), s.to # Server, Len(queue[s.to]) < MAX_QUEUE_SIZE,
           queue' = [queue EXCEPT ![s.to] = Enqueue(queue[s.to], s.m)],
           out' = [out EXCEPT ![p] = Tail(out[p])],
           UNCHANGED <<serverVars, srvq, clientVars, typed>>
    PROVE  ChatInv'
<1> DEFINE e == s.to
<1>1. TypeInv /\ OutInv /\ ServingInv
  BY DEF ChatInv
<1>2. UNCHANGED <<server, clients, told, srvq, pc, peer, buffer, missed, typed>>
  BY DEF serverVars, clientVars
<1>3. s.m \in Texts /\ e \in Clients /\ s = out[p][1] /\ 1 \in DOMAIN out[p] /\ out[p] \in Seq(Sent)
  BY <1>1, SentIs
<1>4. /\ OutInv' /\ out' \in [Clients \cup {Server} -> Seq(Sent)] /\ out'[p] = Tail(out[p])
      /\ \A d \in (Clients \cup {Server}) \ {p} : out'[d] = out[d]
  BY <1>1, <1>2, SendOut
<1>5. /\ QueueAt(Enqueue(queue[e], s.m)) /\ Enqueue(queue[e], s.m) # <<>>
      /\ \A c, types : Has(queue[e], c, types) \/ (s.m.from = c /\ s.m.type \in types)
                          => Has(Enqueue(queue[e], s.m), c, types)
  BY <1>1, <1>3, Enqueued DEF TypeInv
<1> HIDE DEF e
<1>6. /\ queue' \in [Clients -> Seq(Texts)] /\ queue'[e] = Enqueue(queue[e], s.m)
      /\ \A d \in Clients \ {e} : queue'[d] = queue[d]
  BY <1>1, <1>3, <1>5 DEF TypeInv, QueueAt, e
<1>7. TypeInv'
  <2>1. \A d \in Clients : QueueAt(queue'[d])
    BY <1>1, <1>3, <1>5, <1>6 DEF TypeInv
  <2> QED
    BY <1>1, <1>2, <1>4, <1>6, <2>1 DEF TypeInv
<1>8. \A d \in Clients : d = p => /\ pc[d] \notin Waiting /\ pc[d] \notin {"start", "menu", "gone"}
                                  /\ out[d] # <<>>
  <2> SUFFICES ASSUME NEW d \in Clients, d = p
               PROVE  pc[d] \notin Waiting /\ pc[d] \notin {"start", "menu", "gone"}
    OBVIOUS
  <2>1. OutAt(d, pc[d], out[d]) /\ out[d][1].to # Server /\ 1 \in DOMAIN out[d]
    BY <1>1, <1>3 DEF OutInv
  <2> QED
    BY <2>1 DEF OutAt
<1>9. ASSUME OrderInv PROVE OrderInv'
  <2>1. \A d \in Clients : ((Fresh(d))' <=> Fresh(d)) /\ (Done(d) => (Done(d))')
    BY <1>2, <1>4, <1>8, ChatPosixAssumption DEF Fresh, Done, Waiting
  <2>2. \A i \in DOMAIN srvq : srvq[i].from \in Clients
    <3>1. \A i \in DOMAIN srvq : srvq[i] \in Requests
      BY <1>1 DEF TypeInv
    <3> QED
      BY <3>1 DEF Requests
  <2>3. ASSUME NEW i \in DOMAIN srvq, NEW d \in Clients, srvq[i].from = d
        PROVE  ~(Fresh(d))' /\ (srvq[i].type = "STOP" => (Done(d))')
    <3>1. ~Fresh(d) /\ (srvq[i].type = "STOP" => Done(d))
      BY <1>9, <2>3 DEF OrderInv
    <3> QED
      BY <2>1, <3>1
  <2>4. \A d \in Clients : /\ (Fresh(d))' => ~IsListed(clients, d)
                           /\ ~(Fresh(d))' /\ ~(Done(d))' =>
                                 IsListed(clients, d) \/ Has(srvq, d, {"INIT"})
    BY <1>9, <2>1 DEF OrderInv
  <2> HIDE DEF Fresh, Done
  <2> QED
    BY <1>2, <1>9, <2>2, <2>3, <2>4 DEF OrderInv
<1>10. ASSUME NEW d \in Clients, NEW types, Sending(Server, d, types)
       PROVE  \/ (Sending(Server, d, types))'
              \/ p = Server /\ d = e /\ s.m.type \in types
  <2>1. CASE p = Server
    BY <1>3, <1>4, <1>10, <2>1, SendingTail DEF e
  <2>2. CASE p # Server
    BY <1>4, <1>10, <2>2 DEF Sending
  <2> QED
    BY <2>1, <2>2
<1>11. ASSUME AnswerInv PROVE AnswerInv'
  <2> SUFFICES ASSUME NEW d \in Clients, (Awaits(d))' PROVE (Coming(d))'
    BY DEF AnswerInv
  <2>1. Awaits(d)
    BY <1>2, <1>4, <1>8 DEF Awaits
  <2>2. Coming(d)
    BY <1>11, <2>1 DEF AnswerInv
  <2>3. CASE d = e
    BY <1>5, <1>6, <2>3 DEF Coming
  <2>4. CASE d # e
    <3>1. queue'[d] = queue[d]
      BY <1>6, <2>4
    <3>2. Sending(Server, d, {"INIT", "CONNECT", "LIST"}) => (Sending(Server, d, {"INIT", "CONNECT", "LIST"}))'
      BY <1>10, <2>4
    <3> QED
      BY <1>2, <2>2, <3>1, <3>2 DEF Coming
  <2> QED
    BY <2>3, <2>4
<1>12. ASSUME BusyInv PROVE BusyInv'
  <2> SUFFICES ASSUME NEW d \in Clients, IsBusy(clients, d), Alive(d) PROVE (Reason(d))'
    BY <1>2 DEF BusyInv, Alive
  <2>1. Reason(d)
    BY <1>12 DEF BusyInv
  <2>2. Has(queue[d], Server, {"CONNECT"}) => Has(queue'[d], Server, {"CONNECT"})
    BY <1>5, <1>6
  <2>3. Sending(Server, d, {"CONNECT"}) =>
           Has(queue'[d], Server, {"CONNECT"}) \/ (Sending(Server, d, {"CONNECT"}))'
    <3>1. CASE p = Server /\ d = e /\ s.m.type \in {"CONNECT"}
      <4>1. s.m.from = Server
        BY <1>1, <1>3, <3>1 DEF OutInv, ServerOutAt
      <4> QED
        BY <1>5, <1>6, <3>1, <4>1
    <3> QED
      BY <1>10, <3>1
  <2>4. Sending(d, Server, {"DISCONNECT"}) => (Sending(d, Server, {"DISCONNECT"}))'
    <3>1. CASE d = p
      BY <1>3, <1>4, <3>1, SendingTail
    <3>2. CASE d # p
      BY <1>4, <3>2 DEF Sending
    <3> QED
      BY <3>1, <3>2
  <2> QED
    BY <1>2, <2>1, <2>2, <2>3, <2>4 DEF Reason
<1>13. ServingInv'
  BY <1>1, <1>2, <1>9, <1>11, <1>12 DEF ServingInv
<1> QED
  BY <1>4, <1>7, <1>13 DEF ChatInv

LEMMA MqSendKeeps ==
    ASSUME ChatInv, NEW p \in Clients \cup {Server}, MqSend(p) PROVE ChatInv'
<1> DEFINE s == Head(out[p])
<1>1. TypeInv /\ OutInv
  BY DEF ChatInv
<1>2. out[p] # <<>> /\ out' = [out EXCEPT ![p] = Tail(out[p])]
  BY DEF MqSend
<1>3. CASE s.to = Server
  <2>1. p \in Clients
    <3>1. p = Server => s.to \in Clients
      BY <1>1, <1>2, SentIs DEF OutInv, ServerOutAt
    <3> QED
      BY <1>3, <3>1, ChatPosixAssumption
  <2> QED
    BY <1>2, <1>3, <2>1, SendToServerKeeps DEF MqSend
<1>4. CASE s.to # Server
  BY <1>2, <1>4, SendToClientKeeps DEF MqSend
<1> QED
  BY <1>3, <1>4
------------------------------------------------------------------------------
(* The server.                                                             *)

\* What the server has received, of what is in the public queue.
LEMMA Received ==
    ASSUME TypeInv, srvq # <<>>
    PROVE  /\ srvq \in Seq(Requests) /\ Tail(srvq) \in Seq(Requests)
           /\ Len(Tail(srvq)) <= MAX_QUEUE_SIZE
           /\ Head(srvq) = srvq[1] /\ 1 \in DOMAIN srvq
           /\ srvq[1] \in Requests /\ srvq[1].from \in Clients /\ srvq[1].type \in RequestTypes
           /\ srvq[1].type = "CONNECT" => srvq[1].text \in Clients
<1>1. srvq \in Seq(Requests) /\ Len(srvq) <= MAX_QUEUE_SIZE
  BY DEF TypeInv
<1>2. /\ Tail(srvq) \in Seq(Requests) /\ Head(srvq) = srvq[1] /\ 1 \in DOMAIN srvq
      /\ srvq[1] \in Requests /\ Len(Tail(srvq)) = Len(srvq) - 1 /\ Len(srvq) \in Nat
  BY <1>1, Popped
<1>3. Len(Tail(srvq)) <= MAX_QUEUE_SIZE
  BY <1>1, <1>2, ChatPosixAssumption
<1>4. \A r \in Requests : /\ r.from \in Clients /\ r.type \in RequestTypes
                          /\ r.type = "CONNECT" => r.text \in Clients
  BY DEF Requests
<1> QED
  BY <1>1, <1>2, <1>3, <1>4

LEMMA ServerTypes ==
    ASSUME TypeInv, OutInv, server' \in {"up", "stopping", "down"}, clients' \in Seq(Entries),
           told' \in Nat, srvq' \in Seq(Requests), Len(srvq') <= MAX_QUEUE_SIZE,
           NEW o \in Seq(Sent), ServerOutAt(o), out' = [out EXCEPT ![Server] = o],
           UNCHANGED <<queue, clientVars, typed>>
    PROVE  TypeInv' /\ OutInv' /\ out'[Server] = o /\ \A d \in Clients : out'[d] = out[d]
<1>1. UNCHANGED <<queue, pc, peer, buffer, missed, typed>>
  BY DEF clientVars
<1>2. /\ out' \in [Clients \cup {Server} -> Seq(Sent)] /\ out'[Server] = o
      /\ \A d \in Clients : out'[d] = out[d]
  BY ChatPosixAssumption DEF TypeInv
<1>3. TypeInv'
  BY <1>1, <1>2 DEF TypeInv, QueueAt
<1>4. OutInv'
  BY <1>1, <1>2 DEF OutInv, OutAt, ServerOutAt
<1> QED
  BY <1>2, <1>3, <1>4

\* The list that an INIT or a STOP makes goes with the requests that remain.
LEMMA PoppedOrder ==
    ASSUME TypeInv, OrderInv, srvq # <<>>, NEW r, r = srvq[1], srvq' = Tail(srvq),
           pc' = pc, \A d \in Clients : out'[d] = out[d], Once(clients'),
           \A d \in Clients : IsListed(clients', d) <=>
              (IsListed(clients, d) \/ (r.type = "INIT" /\ r.from = d))
                 /\ ~(r.type = "STOP" /\ r.from = d)
    PROVE  OrderInv'
<1>1. /\ srvq \in Seq(Requests) /\ 1 \in DOMAIN srvq /\ Len(srvq) \in Nat
      /\ DOMAIN srvq = 1 .. Len(srvq)
  BY Received DEF TypeInv
<1>2. /\ \A i \in DOMAIN srvq' : i \in Nat /\ i + 1 \in DOMAIN srvq /\ srvq'[i] = srvq[i + 1]
      /\ \A i \in DOMAIN srvq : i # 1 =>
            i \in Nat /\ i - 1 \in DOMAIN srvq' /\ srvq'[i - 1] = srvq[i]
      /\ srvq' \in Seq(Requests)
  BY <1>1, Popped
<1>3. \A d \in Clients : ((Fresh(d))' <=> Fresh(d)) /\ ((Done(d))' <=> Done(d))
  BY DEF Fresh, Done
<1>4. \A i \in DOMAIN srvq : srvq[i].from \in Clients
  <2>1. \A i \in DOMAIN srvq : srvq[i] \in Requests
    BY <1>1
  <2> QED
    BY <2>1 DEF Requests
<1>5. \A d, types : Has(srvq, d, types) /\ (r.from # d \/ r.type \notin types) => Has(srvq', d, types)
  BY <1>1, HasPopped
<1> HIDE DEF Fresh, Done
<1>6. ASSUME NEW i \in DOMAIN srvq', NEW j \in DOMAIN srvq', i < j, srvq'[i].from = srvq'[j].from
      PROVE  srvq'[i].type # "STOP" /\ srvq'[j].type # "INIT"
  <2>1. i + 1 \in DOMAIN srvq /\ j + 1 \in DOMAIN srvq /\ i + 1 < j + 1
    BY <1>2, <1>6
  <2>2. srvq[i + 1].type # "STOP" /\ srvq[j + 1].type # "INIT"
    BY <1>2, <1>6, <2>1 DEF OrderInv
  <2> QED
    BY <1>2, <2>2
<1>7. ASSUME NEW i \in DOMAIN srvq', NEW d \in Clients, srvq'[i].from = d
      PROVE  /\ ~(Fresh(d))'
             /\ srvq'[i].type = "STOP" => (Done(d))'
             /\ srvq'[i].type = "INIT" => ~IsListed(clients', d) /\ srvq'[i].text = Nobody
             /\ \/ IsListed(clients', d)
                \/ \E j \in 1 .. i : srvq'[j].type = "INIT" /\ srvq'[j].from = d
  <2> DEFINE k == i + 1
  <2>1. k \in DOMAIN srvq /\ srvq'[i] = srvq[k] /\ 1 < k /\ i \in Nat
    <3>1. i \in Nat /\ k \in DOMAIN srvq /\ srvq'[i] = srvq[k] /\ i \in 1 .. Len(srvq')
      BY <1>2
    <3> QED
      BY <3>1
  <2> HIDE DEF k
  <2>2. /\ ~Fresh(d)
        /\ srvq[k].type = "STOP" => Done(d)
        /\ srvq[k].type = "INIT" => ~IsListed(clients, d) /\ srvq[k].text = Nobody
        /\ \/ IsListed(clients, d)
           \/ \E j \in 1 .. k : srvq[j].type = "INIT" /\ srvq[j].from = d
    BY <1>7, <2>1 DEF OrderInv
  <2>3. r.from = d => r.type # "STOP" /\ srvq[k].type # "INIT"
    BY <1>1, <1>7, <2>1 DEF OrderInv
  <2>4. srvq[k].type = "INIT" => ~IsListed(clients', d)
    BY <2>2, <2>3
  <2>5. \/ IsListed(clients', d)
        \/ \E j \in 1 .. i : srvq'[j].type = "INIT" /\ srvq'[j].from = d
    <3>1. CASE IsListed(clients, d)
      BY <2>3, <3>1
    <3>2. ASSUME NEW j \in 1 .. k, srvq[j].type = "INIT", srvq[j].from = d
          PROVE  \/ IsListed(clients', d)
                 \/ \E l \in 1 .. i : srvq'[l].type = "INIT" /\ srvq'[l].from = d
      <4>1. CASE j = 1
        BY <3>2, <4>1
      <4>2. CASE j # 1
        <5>1. j \in DOMAIN srvq /\ j - 1 \in 1 .. i
          BY <1>1, <2>1, <4>2 DEF k
        <5>2. srvq'[j - 1] = srvq[j]
          BY <1>2, <4>2, <5>1
        <5> QED
          BY <3>2, <5>1, <5>2
      <4> QED
        BY <4>1, <4>2
    <3> QED
      BY <2>2, <3>1, <3>2
  <2> QED
    BY <1>3, <2>1, <2>2, <2>4, <2>5
<1>8. ASSUME NEW d \in Clients
      PROVE  /\ (Fresh(d))' => ~IsListed(clients', d)
             /\ ~(Fresh(d))' /\ ~(Done(d))' => IsListed(clients', d) \/ Has(srvq', d, {"INIT"})
  <2>1. /\ Fresh(d) => ~IsListed(clients, d)
        /\ ~Fresh(d) /\ ~Done(d) => IsListed(clients, d) \/ Has(srvq, d, {"INIT"})
    BY DEF OrderInv
  <2>2. r.from = d => ~Fresh(d) /\ (r.type = "STOP" => Done(d))
    BY <1>1 DEF OrderInv
  <2>3. Has(srvq, d, {"INIT"}) => Has(srvq', d, {"INIT"}) \/ (r.from = d /\ r.type = "INIT")
    BY <1>5
  <2> QED
    BY <1>3, <2>1, <2>2, <2>3
<1>9. \A i \in DOMAIN srvq' : srvq'[i].from \in Clients
  BY <1>2, <1>4
<1> QED
  BY <1>6, <1>7, <1>8, <1>9 DEF OrderInv

\* A handler answers the request it has taken, and gives a reason to every client
\* it makes busy.
LEMMA HandlerServes ==
    ASSUME TypeInv, OrderInv, AnswerInv, BusyInv, srvq # <<>>, NEW r, r = srvq[1],
           srvq' = Tail(srvq), out[Server] = <<>>, Once(clients'),
           UNCHANGED <<pc, queue, missed>>, \A d \in Clients : out'[d] = out[d],
           \A d \in Clients : IsListed(clients', d) <=>
              (IsListed(clients, d) \/ (r.type = "INIT" /\ r.from = d))
                 /\ ~(r.type = "STOP" /\ r.from = d),
           r.type \in {"INIT", "CONNECT", "LIST"} =>
              (Sending(Server, r.from, {"INIT", "CONNECT", "LIST"}))',
           \A d \in Clients : IsBusy(clients', d) /\ Alive(d) =>
              \/ IsBusy(clients, d) /\ ~(r.from = d /\ r.type = "DISCONNECT")
              \/ (Sending(Server, d, {"CONNECT"}))'
    PROVE  ServingInv'
<1>1. OrderInv'
  BY PoppedOrder
<1>2. \A d, types : Has(srvq, d, types) /\ (r.from # d \/ r.type \notin types) => Has(srvq', d, types)
  BY Received, HasPopped
<1>3. \A d, types : ~Sending(Server, d, types)
  BY DEF Sending
<1>4. AnswerInv'
  <2> SUFFICES ASSUME NEW d \in Clients, (Awaits(d))' PROVE (Coming(d))'
    BY DEF AnswerInv
  <2>1. Coming(d)
    BY DEF AnswerInv, Awaits
  <2>2. Has(srvq, d, {"INIT", "CONNECT", "LIST"}) =>
           \/ Has(srvq', d, {"INIT", "CONNECT", "LIST"})
           \/ (Sending(Server, d, {"INIT", "CONNECT", "LIST"}))'
    BY <1>2
  <2> QED
    BY <1>3, <2>1, <2>2 DEF Coming
<1>5. BusyInv'
  <2> SUFFICES ASSUME NEW d \in Clients, IsBusy(clients', d), Alive(d) PROVE (Reason(d))'
    BY DEF BusyInv, Alive
  <2>1. CASE (Sending(Server, d, {"CONNECT"}))'
    BY <2>1 DEF Reason
  <2>2. CASE IsBusy(clients, d) /\ ~(r.from = d /\ r.type = "DISCONNECT")
    <3>1. Reason(d)
      BY <2>2 DEF BusyInv
    <3>2. Has(srvq, d, {"DISCONNECT"}) => Has(srvq', d, {"DISCONNECT"})
      BY <1>2, <2>2
    <3>3. (Sending(d, Server, {"DISCONNECT"}))' <=> Sending(d, Server, {"DISCONNECT"})
      BY DEF Sending
    <3> QED
      BY <1>3, <3>1, <3>2, <3>3 DEF Reason
  <2> QED
    BY <2>1, <2>2
<1> QED
  BY <1>1, <1>4, <1>5 DEF ServingInv

\* Where every handler starts.
LEMMA HandlerStarts ==
    ASSUME ChatInv, NEW type, Receives(type)
    PROVE  /\ TypeInv /\ OutInv /\ OrderInv /\ AnswerInv /\ BusyInv /\ server = "up"
           /\ srvq # <<>> /\ srvq' = Tail(srvq) /\ Head(srvq) = srvq[1]
           /\ srvq[1].type = type /\ srvq[1].from \in Clients /\ 1 \in DOMAIN srvq
           /\ type = "CONNECT" => srvq[1].text \in Clients
           /\ srvq' \in Seq(Requests) /\ Len(srvq') <= MAX_QUEUE_SIZE /\ told \in Nat
           /\ clients \in Seq(Entries) /\ Once(clients)
           /\ out[Server] = <<>> /\ out = [out EXCEPT ![Server] = <<>>]
           /\ <<>> \in Seq(Sent) /\ ServerOutAt(<<>>)
<1>1. TypeInv /\ OutInv /\ ServingInv
  BY DEF ChatInv
<1>2. server = "up" /\ out[Server] = <<>> /\ srvq # <<>> /\ srvq' = Tail(srvq) /\ Head(srvq).type = type
  BY DEF Receives
<1>3. OrderInv /\ AnswerInv /\ BusyInv
  BY <1>1, <1>2 DEF ServingInv
<1>4. Once(clients)
  BY <1>3 DEF OrderInv
<1>5. out = [out EXCEPT ![Server] = <<>>] /\ told \in Nat /\ clients \in Seq(Entries)
  BY <1>1, <1>2 DEF TypeInv
<1>6. <<>> \in Seq(Sent) /\ ServerOutAt(<<>>)
  BY DEF ServerOutAt
<1> QED
  BY <1>1, <1>2, <1>3, <1>4, <1>5, <1>6, Received

\* A server that is not up has no list to keep right.
LEMMA NotServing ==
    ASSUME TypeInv', OutInv', server' # "up"
    PROVE  ChatInv'
  BY DEF ChatInv, ServingInv

LEMMA HandleInitKeeps ==
    ASSUME ChatInv, HandleInit PROVE ChatInv'
<1> SUFFICES ASSUME NEW c, c = srvq[1].from PROVE ChatInv'
  OBVIOUS
<1> DEFINE s == Send(c, Message(INIT, "INIT", Server, Nobody))
           r == Append(clients, [id |-> c, active |-> TRUE])
<1>1. Receives("INIT")
  BY DEF HandleInit
<1>2. /\ TypeInv /\ OutInv /\ OrderInv /\ AnswerInv /\ BusyInv /\ server = "up"
      /\ srvq # <<>> /\ srvq' = Tail(srvq) /\ Head(srvq) = srvq[1]
      /\ srvq[1].type = "INIT" /\ c \in Clients /\ 1 \in DOMAIN srvq
      /\ srvq' \in Seq(Requests) /\ Len(srvq') <= MAX_QUEUE_SIZE /\ told \in Nat
      /\ clients \in Seq(Entries) /\ Once(clients)
      /\ out[Server] = <<>> /\ out = [out EXCEPT ![Server] = <<>>]
      /\ <<>> \in Seq(Sent) /\ ServerOutAt(<<>>)
  BY <1>1, HandlerStarts
<1>3. UNCHANGED <<told, queue, clientVars, typed>> /\ UNCHANGED <<pc, queue, missed>>
  BY DEF HandleInit, clientVars
<1>4. ~IsListed(clients, c)
  BY <1>2 DEF OrderInv
<1>5. /\ r \in Seq(Entries) /\ Once(r)
      /\ \A d : /\ IsListed(r, d) <=> IsListed(clients, d) \/ d = c
                /\ IsBusy(r, d) <=> IsBusy(clients, d)
  BY <1>2, <1>4, AppendedEntry
<1>6. s \in Sent /\ s.to = c /\ s.m.type = "INIT"
  <2>1. INIT \in Int /\ "INIT" \in Types
    BY DEF INIT, Types
  <2> QED
    BY <1>2, <2>1, FromServer
<1>7. CASE Alive(c)
  <2>1. /\ clients' = r /\ server' = server
        /\ out' = [out EXCEPT ![Server] = <<s>>]
    BY <1>2, <1>7 DEF HandleInit, OpenAndSend, Sends
  <2> HIDE DEF s, r
  <2>2. <<s>> \in Seq(Sent) /\ ServerOutAt(<<s>>)
    BY <1>2, <1>6 DEF ServerOutAt
  <2>3. TypeInv' /\ OutInv' /\ out'[Server] = <<s>> /\ \A d \in Clients : out'[d] = out[d]
    <3> DEFINE o == <<s>>
    <3> HIDE DEF o
    <3>1. o \in Seq(Sent) /\ ServerOutAt(o) /\ out' = [out EXCEPT ![Server] = o]
      BY <2>1, <2>2 DEF o
    <3>2. TypeInv' /\ OutInv' /\ out'[Server] = o /\ \A d \in Clients : out'[d] = out[d]
      BY <1>2, <1>3, <1>5, <2>1, <3>1, ServerTypes
    <3> QED
      BY <3>2 DEF o
  <2>4. (Sending(Server, c, {"INIT", "CONNECT", "LIST"}))'
    BY <1>6, <2>3 DEF Sending
  <2>5. ServingInv'
    BY <1>2, <1>3, <1>5, <2>1, <2>3, <2>4, HandlerServes
  <2> QED
    BY <2>3, <2>5 DEF ChatInv
<1>8. CASE ~Alive(c)
  <2>1. clients' = clients /\ server' = "down" /\ out' = out
    BY <1>2, <1>8 DEF HandleInit, OpenAndSend
  <2>2. TypeInv' /\ OutInv'
    BY <1>2, <1>3, <2>1, ServerTypes
  <2> QED
    BY <2>1, <2>2, NotServing
<1> QED
  BY <1>7, <1>8

LEMMA HandleConnectKeeps ==
    ASSUME ChatInv, HandleConnect PROVE ChatInv'
<1> SUFFICES ASSUME NEW a, NEW b, a = srvq[1].from, b = srvq[1].text PROVE ChatInv'
  OBVIOUS
<1> DEFINE s == Send(b, Message(CONNECT, "CONNECT", Server, a))
           t == Send(a, Message(CONNECT, "CONNECT", Server, b))
           r == SetActive(SetActive(clients, a, FALSE), b, FALSE)
<1>1. Receives("CONNECT")
  BY DEF HandleConnect
<1>2. /\ TypeInv /\ OutInv /\ OrderInv /\ AnswerInv /\ BusyInv /\ server = "up"
      /\ srvq # <<>> /\ srvq' = Tail(srvq) /\ Head(srvq) = srvq[1]
      /\ srvq[1].type = "CONNECT" /\ a \in Clients /\ b \in Clients
      /\ srvq' \in Seq(Requests) /\ Len(srvq') <= MAX_QUEUE_SIZE /\ told \in Nat
      /\ Once(clients) /\ out[Server] = <<>> /\ out = [out EXCEPT ![Server] = <<>>]
      /\ <<>> \in Seq(Sent) /\ ServerOutAt(<<>>)
  BY <1>1, HandlerStarts
<1>3. UNCHANGED <<told, queue, clientVars, typed>> /\ UNCHANGED <<pc, queue, missed>>
  BY DEF HandleConnect, clientVars
<1>4. /\ r \in Seq(Entries) /\ Once(r)
      /\ \A d : /\ IsListed(r, d) <=> IsListed(clients, d)
                /\ d # a /\ d # b => (IsBusy(r, d) <=> IsBusy(clients, d))
  BY <1>2, SetTwoBusy
<1>5. clients' = r
  BY <1>2 DEF HandleConnect
<1>6. /\ s \in Sent /\ s.to = b /\ s.m.type = "CONNECT" /\ s.m.from = Server
      /\ t \in Sent /\ t.to = a /\ t.m.type = "CONNECT" /\ t.m.from = Server
  <2>1. CONNECT \in Int /\ "CONNECT" \in Types
    BY DEF CONNECT, Types
  <2> QED
    BY <1>2, <2>1, FromServer
<1>7. CASE Alive(a) /\ Alive(b)
  <2>1. server' = server /\ out' = [out EXCEPT ![Server] = <<s, t>>]
    BY <1>2, <1>7 DEF HandleConnect, OpenAndSend, Sends
  <2> HIDE DEF s, t, r
  <2>2. <<s, t>> \in Seq(Sent) /\ ServerOutAt(<<s, t>>)
    <3>1. \A i \in DOMAIN <<s, t>> : <<s, t>>[i] = s \/ <<s, t>>[i] = t
      OBVIOUS
    <3>2. ServerOutAt(<<s, t>>)
      BY <1>2, <1>6, <3>1, Zenon DEF ServerOutAt
    <3> QED
      BY <1>6, <3>2
  <2>3. /\ TypeInv' /\ OutInv' /\ out'[Server] = <<s, t>>
        /\ \A d \in Clients : out'[d] = out[d]
    <3> DEFINE o == <<s, t>>
    <3> HIDE DEF o
    <3>1. o \in Seq(Sent) /\ ServerOutAt(o) /\ out' = [out EXCEPT ![Server] = o]
      BY <2>1, <2>2 DEF o
    <3>2. TypeInv' /\ OutInv' /\ out'[Server] = o /\ \A d \in Clients : out'[d] = out[d]
      BY <1>2, <1>3, <1>4, <1>5, <2>1, <3>1, ServerTypes
    <3> QED
      BY <3>2 DEF o
  <2>4. \A types : "CONNECT" \in types => (Sending(Server, a, types))' /\ (Sending(Server, b, types))'
    <3>1. 1 \in DOMAIN <<s, t>> /\ 2 \in DOMAIN <<s, t>> /\ <<s, t>>[1] = s /\ <<s, t>>[2] = t
      OBVIOUS
    <3> QED
      BY <1>6, <2>3, <3>1 DEF Sending
  <2>5. \A d \in Clients : IsBusy(clients', d) => IsBusy(clients, d) \/ (Sending(Server, d, {"CONNECT"}))'
    BY <1>4, <1>5, <2>4
  <2>6. ServingInv'
    BY <1>2, <1>3, <1>4, <1>5, <2>3, <2>4, <2>5, HandlerServes
  <2> QED
    BY <2>3, <2>6 DEF ChatInv
<1>8. CASE ~(Alive(a) /\ Alive(b))
  <2>1. server' = "down" /\ out' = out
    BY <1>2, <1>8 DEF HandleConnect, OpenAndSend
  <2> HIDE DEF r
  <2>2. TypeInv' /\ OutInv'
    BY <1>2, <1>3, <1>4, <1>5, <2>1, ServerTypes
  <2> QED
    BY <2>1, <2>2, NotServing
<1> QED
  BY <1>7, <1>8

LEMMA HandleListKeeps ==
    ASSUME ChatInv, HandleList PROVE ChatInv'
<1> SUFFICES ASSUME NEW c, c = srvq[1].from PROVE ChatInv'
  OBVIOUS
<1> DEFINE s == Send(c, Message(LIST, "LIST", c, Nobody))
<1>1. Receives("LIST")
  BY DEF HandleList
<1>2. /\ TypeInv /\ OutInv /\ OrderInv /\ AnswerInv /\ BusyInv /\ server = "up"
      /\ srvq # <<>> /\ srvq' = Tail(srvq) /\ Head(srvq) = srvq[1]
      /\ srvq[1].type = "LIST" /\ c \in Clients
      /\ srvq' \in Seq(Requests) /\ Len(srvq') <= MAX_QUEUE_SIZE /\ told \in Nat
      /\ clients \in Seq(Entries) /\ Once(clients)
      /\ out[Server] = <<>> /\ out = [out EXCEPT ![Server] = <<>>]
      /\ <<>> \in Seq(Sent) /\ ServerOutAt(<<>>)
  BY <1>1, HandlerStarts
<1>3. UNCHANGED <<told, queue, clientVars, typed>> /\ UNCHANGED <<pc, queue, missed>> /\ clients' = clients
  BY DEF HandleList, clientVars
<1>4. s \in Sent /\ s.to = c /\ s.m.type = "LIST"
  <2>1. LIST \in Int /\ "LIST" \in Types
    BY DEF LIST, Types
  <2>2. c \in Clients
    BY <1>2
  <2> QED
    BY <2>1, <2>2 DEF Message, Send, Sent, Texts
<1>5. CASE Alive(c)
  <2>1. server' = server /\ out' = [out EXCEPT ![Server] = <<s>>]
    BY <1>2, <1>5 DEF HandleList, OpenAndSend, Sends
  <2> HIDE DEF s
  <2>2. <<s>> \in Seq(Sent) /\ ServerOutAt(<<s>>)
    BY <1>2, <1>4 DEF ServerOutAt
  <2>3. TypeInv' /\ OutInv' /\ out'[Server] = <<s>> /\ \A d \in Clients : out'[d] = out[d]
    <3> DEFINE o == <<s>>
    <3> HIDE DEF o
    <3>1. o \in Seq(Sent) /\ ServerOutAt(o) /\ out' = [out EXCEPT ![Server] = o]
      BY <2>1, <2>2 DEF o
    <3>2. TypeInv' /\ OutInv' /\ out'[Server] = o /\ \A d \in Clients : out'[d] = out[d]
      BY <1>2, <1>3, <2>1, <3>1, ServerTypes
    <3> QED
      BY <3>2 DEF o
  <2>4. (Sending(Server, c, {"INIT", "CONNECT", "LIST"}))'
    BY <1>4, <2>3 DEF Sending
  <2>5. ServingInv'
    BY <1>2, <1>3, <2>3, <2>4, HandlerServes
  <2> QED
    BY <2>3, <2>5 DEF ChatInv
<1>6. CASE ~Alive(c)
  <2>1. server' = "down" /\ out' = out
    BY <1>2, <1>6 DEF HandleList, OpenAndSend
  <2>2. TypeInv' /\ OutInv'
    BY <1>2, <1>3, <2>1, ServerTypes
  <2> QED
    BY <2>1, <2>2, NotServing
<1> QED
  BY <1>5, <1>6

LEMMA HandleDisconnectKeeps ==
    ASSUME ChatInv, HandleDisconnect PROVE ChatInv'
<1> SUFFICES ASSUME NEW c, c = srvq[1].from PROVE ChatInv'
  OBVIOUS
<1> DEFINE r == SetActive(clients, c, TRUE)
<1>1. Receives("DISCONNECT")
  BY DEF HandleDisconnect
<1>2. /\ TypeInv /\ OutInv /\ OrderInv /\ AnswerInv /\ BusyInv /\ server = "up"
      /\ srvq # <<>> /\ srvq' = Tail(srvq) /\ Head(srvq) = srvq[1]
      /\ srvq[1].type = "DISCONNECT" /\ c \in Clients
      /\ srvq' \in Seq(Requests) /\ Len(srvq') <= MAX_QUEUE_SIZE /\ told \in Nat
      /\ Once(clients) /\ out[Server] = <<>> /\ out = [out EXCEPT ![Server] = <<>>]
      /\ <<>> \in Seq(Sent) /\ ServerOutAt(<<>>)
  BY <1>1, HandlerStarts
<1>3. /\ UNCHANGED <<told, queue, clientVars, typed>> /\ UNCHANGED <<pc, queue, missed>>
      /\ server' = server /\ out' = out /\ clients' = r
  BY <1>2 DEF HandleDisconnect, clientVars
<1>4. /\ r \in Seq(Entries) /\ Once(r)
      /\ \A d : /\ IsListed(r, d) <=> IsListed(clients, d)
                /\ d # c => (IsBusy(r, d) <=> IsBusy(clients, d))
                /\ ~IsBusy(r, c)
  BY <1>2, SetActiveFacts
<1> HIDE DEF r
<1>5. TypeInv' /\ OutInv'
  BY <1>2, <1>3, <1>4, ServerTypes
<1>6. \A d \in Clients : IsBusy(clients', d) => IsBusy(clients, d) /\ c # d
  BY <1>3, <1>4
<1>7. ServingInv'
  BY <1>2, <1>3, <1>4, <1>6, HandlerServes
<1> QED
  BY <1>5, <1>7 DEF ChatInv

LEMMA HandleStopKeeps ==
    ASSUME ChatInv, HandleStop PROVE ChatInv'
<1> SUFFICES ASSUME NEW c, c = srvq[1].from PROVE ChatInv'
  OBVIOUS
<1>1. Receives("STOP")
  BY DEF HandleStop
<1>2. /\ TypeInv /\ OutInv /\ OrderInv /\ AnswerInv /\ BusyInv /\ server = "up"
      /\ srvq # <<>> /\ srvq' = Tail(srvq) /\ Head(srvq) = srvq[1]
      /\ srvq[1].type = "STOP" /\ c \in Clients
      /\ srvq' \in Seq(Requests) /\ Len(srvq') <= MAX_QUEUE_SIZE /\ told \in Nat
      /\ Once(clients) /\ out[Server] = <<>> /\ out = [out EXCEPT ![Server] = <<>>]
      /\ <<>> \in Seq(Sent) /\ ServerOutAt(<<>>)
  BY <1>1, HandlerStarts
<1>3. /\ UNCHANGED <<told, queue, clientVars, typed>> /\ UNCHANGED <<pc, queue, missed>>
      /\ server' = server /\ out' = out
  BY DEF HandleStop, clientVars
<1>4. clients' = Removed(c)
  BY <1>2 DEF HandleStop, Removed
<1>5. /\ Removed(c) \in Seq(Entries) /\ Once(Removed(c))
      /\ \A d : /\ IsListed(Removed(c), d) <=> IsListed(clients, d) /\ d # c
                /\ IsBusy(Removed(c), d) <=> IsBusy(clients, d) /\ d # c
  BY <1>2, RemovedEntry
<1>6. TypeInv' /\ OutInv'
  BY <1>2, <1>3, <1>4, <1>5, ServerTypes
<1>7. ServingInv'
  BY <1>2, <1>3, <1>4, <1>5, HandlerServes
<1> QED
  BY <1>6, <1>7 DEF ChatInv

LEMMA InterruptServerKeeps ==
    ASSUME ChatInv, InterruptServer PROVE ChatInv'
<1>1. TypeInv /\ OutInv
  BY DEF ChatInv
<1>2. /\ server' = "stopping" /\ out' = [out EXCEPT ![Server] = <<>>]
      /\ UNCHANGED <<clients, told, srvq>> /\ UNCHANGED <<queue, clientVars, typed>>
  BY DEF InterruptServer, Sends
<1>3. /\ <<>> \in Seq(Sent) /\ ServerOutAt(<<>>) /\ clients \in Seq(Entries) /\ told \in Nat
      /\ srvq \in Seq(Requests) /\ Len(srvq) <= MAX_QUEUE_SIZE
  BY <1>1 DEF ServerOutAt, TypeInv
<1>4. TypeInv' /\ OutInv'
  BY <1>1, <1>2, <1>3, ServerTypes
<1> QED
  BY <1>2, <1>4, NotServing

LEMMA TellStopKeeps ==
    ASSUME ChatInv, TellStop PROVE ChatInv'
<1> DEFINE c == clients[told + 1].id
           s == Send(c, Message(STOP, "STOP", Server, Nobody))
<1>1. TypeInv /\ OutInv
  BY DEF ChatInv
<1>2. /\ UNCHANGED <<clients, srvq>> /\ UNCHANGED <<queue, clientVars, typed>>
      /\ server = "stopping" /\ out[Server] = <<>>
  BY DEF TellStop
<1>3. /\ <<>> \in Seq(Sent) /\ ServerOutAt(<<>>) /\ clients \in Seq(Entries) /\ told \in Nat
      /\ srvq \in Seq(Requests) /\ Len(srvq) <= MAX_QUEUE_SIZE
      /\ out = [out EXCEPT ![Server] = <<>>]
  BY <1>1, <1>2 DEF ServerOutAt, TypeInv
<1>4. CASE told < Len(clients) /\ Alive(c)
  <2>1. c \in Clients
    <3>1. clients[told + 1] \in Entries
      BY <1>3, <1>4
    <3> QED
      BY <3>1 DEF Entries
  <2> HIDE DEF c
  <2>2. s \in Sent /\ s.to = c /\ s.m.type = "STOP"
    <3>1. STOP \in Int /\ "STOP" \in Types
      BY DEF STOP, Types
    <3> QED
      BY <2>1, <3>1, FromServer
  <2>3. server' = "stopping" /\ told' \in Nat /\ out' = [out EXCEPT ![Server] = <<s>>]
    BY <1>2, <1>3, <1>4 DEF TellStop, OpenAndSend, Sends, c
  <2> DEFINE o == <<s>>
  <2> HIDE DEF s
  <2>4. o \in Seq(Sent) /\ ServerOutAt(o)
    BY <2>1, <2>2 DEF ServerOutAt
  <2> HIDE DEF o
  <2>5. out' = [out EXCEPT ![Server] = o]
    BY <2>3 DEF o
  <2>6. TypeInv' /\ OutInv'
    BY <1>1, <1>2, <1>3, <2>3, <2>4, <2>5, ServerTypes
  <2> QED
    BY <1>2, <2>3, <2>6, NotServing
<1>5. CASE ~(told < Len(clients) /\ Alive(c))
  <2>1. server' = "down" /\ told' \in Nat /\ out' = out
    BY <1>3, <1>5 DEF TellStop, OpenAndSend
  <2>2. TypeInv' /\ OutInv'
    BY <1>1, <1>2, <1>3, <2>1, ServerTypes
  <2> QED
    BY <2>1, <2>2, NotServing
<1> QED
  BY <1>4, <1>5
------------------------------------------------------------------------------
(* The invariant.                                                          *)

LEMMA InitChat == Init => ChatInv
<1> SUFFICES ASSUME Init PROVE ChatInv
  OBVIOUS
<1>1. /\ server = "up" /\ clients = <<>> /\ told = 0 /\ srvq = <<>>
      /\ queue = [c \in Clients |-> <<>>]
      /\ out = [p \in Clients \cup {Server} |-> <<>>]
      /\ pc = [c \in Clients |-> "start"]
      /\ peer = [c \in Clients |-> Nobody]
      /\ buffer = [c \in Clients |-> Uninitialized]
      /\ missed = [c \in Clients |-> FALSE]
      /\ typed = 0
  BY DEF Init
<1>2. TypeInv
  <2>1. QueueAt(<<>>)
    BY ChatPosixAssumption DEF QueueAt
  <2>2. "start" \in Places /\ Uninitialized \in Headers
    BY DEF Places, Headers, Uninitialized
  <2>3. /\ clients \in Seq(Entries) /\ told \in Nat /\ srvq \in Seq(Requests)
        /\ Len(srvq) <= MAX_QUEUE_SIZE /\ typed \in 0 .. MaxCommands
    BY <1>1, ChatPosixAssumption
  <2>4. queue \in [Clients -> Seq(Texts)] /\ \A c \in Clients : QueueAt(queue[c])
    BY <1>1, <2>1
  <2>5. out \in [Clients \cup {Server} -> Seq(Sent)]
    BY <1>1
  <2> QED
    BY <1>1, <2>2, <2>3, <2>4, <2>5 DEF TypeInv
<1>3. OutInv
  BY <1>1 DEF OutInv, OutAt, ServerOutAt, Waiting
<1>4. OrderInv
  <2>1. \A c \in Clients : Fresh(c)
    BY <1>1 DEF Fresh
  <2> QED
    BY <1>1, <2>1 DEF OrderInv, Once, IsListed
<1>5. AnswerInv /\ BusyInv
  BY <1>1 DEF AnswerInv, Awaits, Waiting, BusyInv, IsBusy
<1> QED
  BY <1>2, <1>3, <1>4, <1>5 DEF ChatInv, ServingInv

LEMMA NextKeepsChat == ChatInv /\ [Next]_vars => ChatInv'
<1> SUFFICES ASSUME ChatInv, [Next]_vars PROVE ChatInv'
  OBVIOUS
<1>1. ASSUME NEW p \in DOMAIN out, MqSend(p) PROVE ChatInv'
  <2>1. p \in Clients \cup {Server}
    BY DEF ChatInv, TypeInv
  <2> QED
    BY <1>1, <2>1, MqSendKeeps
<1>2. CASE ServerStep
  BY <1>2, HandleInitKeeps, HandleConnectKeeps, HandleListKeeps, HandleDisconnectKeeps,
     HandleStopKeeps, InterruptServerKeeps, TellStopKeeps DEF ServerStep
<1>3. ASSUME NEW c \in Clients, ClientStep(c) PROVE ChatInv'
  BY <1>3, StartKeeps, TakesAnswerKeeps, MenuReceivesKeeps, ConnectAnsweredKeeps,
     DirectReceivesKeeps, LeavesKeeps, StopsKeeps, InterruptKeeps DEF ClientStep
<1>4. ASSUME NEW c \in Clients, UserTypes(c) PROVE ChatInv'
  BY <1>4, TypeConnectKeeps, TypeListKeeps, TypeStopKeeps, TypeLineKeeps DEF UserTypes
<1>5. CASE UNCHANGED vars
  <2>1. UNCHANGED <<server, clients, told, srvq, queue, out, pc, peer, buffer, missed, typed>>
    BY <1>5 DEF vars
  <2> QED
    BY <2>1 DEF ChatInv, TypeInv, QueueAt, OutInv, OutAt, ServerOutAt, ServingInv, OrderInv,
                AnswerInv, BusyInv, Fresh, Done, Awaits, Coming, Reason, Alive, Sending, Has,
                IsListed, IsBusy, Once
<1> QED
  BY <1>1, <1>2, <1>3, <1>4, <1>5 DEF Next

\* The invariant holds in every state: the place of a client tells what it has
\* still to send, its requests wait in the order they were made, and a client
\* that waits or is busy has what ends that on the way.
LEMMA ChatInvInductive == Spec => []ChatInv
<1> QED
  BY InitChat, NextKeepsChat, PTL DEF Spec
------------------------------------------------------------------------------
(* The properties.                                                         *)

\* The types, for every set of clients: no queue ever holds more than
\* MAX_QUEUE_SIZE messages, and the client's queues stay sorted by priority
\* whatever the server's replies overtake.
THEOREM TypeCorrect == Spec => []TypeOK
<1>1. ChatInv => TypeOK
  <2> SUFFICES ASSUME ChatInv PROVE TypeOK
    OBVIOUS
  <2>1. TypeInv
    BY DEF ChatInv
  <2>2. \A c \in Clients :
          /\ Len(queue[c]) <= MAX_QUEUE_SIZE
          /\ \A i \in 1 .. Len(queue[c]) - 1 : queue[c][i].prio >= queue[c][i + 1].prio
    <3> SUFFICES ASSUME NEW c \in Clients
                 PROVE  /\ Len(queue[c]) <= MAX_QUEUE_SIZE
                        /\ \A i \in 1 .. Len(queue[c]) - 1 :
                              queue[c][i].prio >= queue[c][i + 1].prio
      OBVIOUS
    <3>1. QueueAt(queue[c])
      BY <2>1 DEF TypeInv
    <3>2. \A i \in 1 .. Len(queue[c]) - 1 :
             i \in DOMAIN queue[c] /\ i + 1 \in DOMAIN queue[c] /\ i < i + 1
      BY <3>1, Priorities DEF QueueAt
    <3> QED
      BY <3>1, <3>2 DEF QueueAt
  <2>3. clients \in Seq([id : Clients, active : BOOLEAN])
    BY <2>1 DEF TypeInv, Entries
  <2>4. pc \in [Clients -> Waiting \cup {"start", "menu", "direct", "leaving", "stopping", "gone"}]
    BY <2>1 DEF TypeInv, Places
  <2> QED
    BY <2>1, <2>2, <2>3, <2>4 DEF TypeInv, TypeOK
<1> QED
  BY <1>1, ChatInvInductive, PTL

\* For every set of clients and size of the queues: the server knows who sent
\* what it takes from the public queue, or has that client's INIT before it, and
\* lists nobody twice.
THEOREM SendersAreListedTheorem == Spec => []SendersAreListed
<1>1. ChatInv => SendersAreListed
  <2> SUFFICES ASSUME ChatInv, server = "up" PROVE SendersAreListed
    BY DEF SendersAreListed
  <2>1. /\ TypeInv /\ OrderInv /\ DOMAIN srvq = 1 .. Len(srvq) /\ Len(srvq) \in Nat
        /\ \A i \in DOMAIN srvq : srvq[i] \in Requests
    BY DEF ChatInv, ServingInv, TypeInv
  <2>2. \A c : Entry(c) # 0 <=> IsListed(clients, c)
    BY <2>1, EntryOf DEF OrderInv
  <2>3. ASSUME NEW i \in DOMAIN srvq, srvq[i].type = "INIT"
        PROVE  Entry(srvq[i].from) = 0
    BY <2>1, <2>2, <2>3 DEF OrderInv
  <2>4. ASSUME NEW i \in DOMAIN srvq, srvq[i].type # "INIT"
        PROVE  \/ Entry(srvq[i].from) # 0
               \/ \E j \in 1 .. i - 1 : srvq[j] = Request("INIT", srvq[i].from, Nobody)
    <3>1. CASE IsListed(clients, srvq[i].from)
      BY <2>2, <3>1
    <3>2. CASE ~IsListed(clients, srvq[i].from)
      <4>1. PICK j \in 1 .. i : srvq[j].type = "INIT" /\ srvq[j].from = srvq[i].from
        BY <2>1, <3>2 DEF OrderInv
      <4>2. j # i /\ j \in 1 .. i - 1 /\ j \in DOMAIN srvq
        BY <2>1, <2>4, <4>1
      <4>3. srvq[j].text = Nobody
        BY <2>1, <4>1, <4>2 DEF OrderInv
      <4>4. srvq[j] = Request("INIT", srvq[i].from, Nobody)
        <5>1. srvq[j] \in Requests
          BY <2>1, <4>2
        <5> QED
          BY <4>1, <4>3, <5>1 DEF Requests, Request
      <4> QED
        BY <4>2, <4>4
    <3> QED
      BY <3>1, <3>2
  <2>5. \A i, j \in DOMAIN clients : clients[i].id = clients[j].id => i = j
    BY <2>1 DEF OrderInv, Once
  <2> QED
    BY <2>3, <2>4, <2>5 DEF SendersAreListed
<1> QED
  BY <1>1, ChatInvInductive, PTL

\* For every set of clients and size of the queues: no client waits in mq_receive
\* for an answer that nobody is going to send.
THEOREM AnswerIsComingTheorem == Spec => []AnswerIsComing
<1>1. ChatInv => AnswerIsComing
  <2> SUFFICES ASSUME ChatInv, server = "up", NEW c \in Clients,
                      At(c, "init") \/ At(c, "wait_list") \/ At(c, "wait_connect")
               PROVE  \/ queue[c] # <<>>
                      \/ Messages(srvq, {"INIT", "CONNECT", "LIST"}, c) # {}
                      \/ Sending(Server, c, {"INIT", "CONNECT", "LIST"})
    BY DEF AnswerIsComing
  <2>1. Awaits(c)
    BY DEF At, Awaits, Waiting
  <2>2. Coming(c)
    BY <2>1 DEF ChatInv, ServingInv, AnswerInv
  <2>3. Has(srvq, c, {"INIT", "CONNECT", "LIST"}) =>
           Messages(srvq, {"INIT", "CONNECT", "LIST"}, c) # {}
    BY DEF Has, Messages
  <2> QED
    BY <2>2, <2>3 DEF Coming
<1> QED
  BY <1>1, ChatInvInductive, PTL

\* For every set of clients and size of the queues: a running client that the
\* server holds busy is connected, about to be or about to say that it no longer
\* is, or has taken its invitation for something else.
THEOREM BusyHasReasonTheorem == Spec => []BusyHasReason
<1>1. ChatInv => BusyHasReason
  <2> SUFFICES ASSUME ChatInv, server = "up", NEW i \in DOMAIN clients,
                      NEW c, c = clients[i].id, ~clients[i].active, Alive(c)
               PROVE  \/ pc[c] = "direct" \/ missed[c]
                      \/ Messages(queue[c], {"CONNECT"}, Server) # {}
                      \/ Sending(Server, c, {"CONNECT"})
                      \/ Sending(c, Server, {"DISCONNECT"})
                      \/ Messages(srvq, {"DISCONNECT"}, c) # {}
    BY DEF BusyHasReason
  <2>1. TypeInv /\ BusyInv
    BY DEF ChatInv, ServingInv
  <2>2. c \in Clients
    <3>1. clients[i] \in Entries
      BY <2>1 DEF TypeInv
    <3> QED
      BY <3>1 DEF Entries
  <2>3. Reason(c)
    <3>1. IsBusy(clients, c)
      BY DEF IsBusy
    <3> QED
      BY <2>1, <2>2, <3>1 DEF BusyInv
  <2>4. /\ Has(queue[c], Server, {"CONNECT"}) => Messages(queue[c], {"CONNECT"}, Server) # {}
        /\ Has(srvq, c, {"DISCONNECT"}) => Messages(srvq, {"DISCONNECT"}, c) # {}
    BY DEF Has, Messages
  <2> QED
    BY <2>3, <2>4 DEF Reason
<1> QED
  BY <1>1, ChatInvInductive, PTL
==============================================================================
