--------------------------- MODULE ChatSysVProofs ----------------------------
(***************************************************************************)
(* Proofs about ChatSysV, for every set of clients and every number of     *)
(* lines typed.                                                            *)
(*                                                                         *)
(* The public queue is first in, first out, and a client's INIT is its     *)
(* first request and its STOP the last: from this the server's list is     *)
(* right about every request it takes (OrderInv).  That a wait is answered *)
(* and a busy client has a reason needs in addition what a client that     *)
(* waits may find at the head of its queue (WaitInv).                      *)
(***************************************************************************)
EXTENDS ChatSysV, SequenceTheorems, TLAPS

RequestTypes == {"INIT", "CONNECT", "LIST", "DISCONNECT", "STOP"}
Requests == [type : RequestTypes, from : Clients, to : Clients \cup {Nobody}]
Messages == [type : Types, from : Clients \cup {Nobody, Server},
             text : Clients \cup {Nobody, "DISCONNECT"}]
Headers  == [type : Types \cup {"none"}, from : Clients \cup {Nobody, Server}]
Entries  == [id : Clients, active : BOOLEAN]
Places   == {"start", "init", "menu", "wait_list", "wait_connect", "direct",
             "leaving", "stopping", "gone"}

TypeInv ==
    /\ server \in {"up", "granting", "stopping", "down"}
    /\ clients \in Seq(Entries)
    /\ server = "granting" => granted \in Clients \X Clients
    /\ told \in Nat
    /\ srvq \in Seq(Requests)
    /\ queue \in [Clients -> Seq(Messages)]
    /\ pc \in [Clients -> Places]
    /\ peer \in [Clients -> Clients \cup {Nobody}]
    /\ buffer \in [Clients -> Headers]
    /\ \A c \in Clients : buffer[c].type = "none" => buffer[c] = Uninitialized
    /\ typed \in Nat

\* The list, as the properties see it.
IsListed(list, c) == \E i \in DOMAIN list : list[i].id = c
IsBusy(list, c) == \E i \in DOMAIN list : list[i].id = c /\ ~list[i].active
Once(list) == \A i, j \in DOMAIN list : list[i].id = list[j].id => i = j

Has(q, c, types) == \E i \in DOMAIN q : q[i].from = c /\ q[i].type \in types
HasRequest(c, types) == Has(srvq, c, types)

\* A client's requests: INIT, then others while it is listed, then STOP.
OrderInv ==
    /\ Once(clients)
    /\ \A i, j \in DOMAIN srvq :
          i < j /\ srvq[i].from = srvq[j].from => srvq[i].type # "STOP" /\ srvq[j].type # "INIT"
    /\ \A i \in DOMAIN srvq :
          /\ pc[srvq[i].from] # "start"
          /\ srvq[i].type = "STOP" => pc[srvq[i].from] = "gone"
          /\ srvq[i].type = "INIT" => ~IsListed(clients, srvq[i].from)
          /\ srvq[i].type \in {"INIT", "DISCONNECT"} => srvq[i].to = Nobody
          /\ srvq[i].type = "CONNECT" => srvq[i].to \in Clients
          /\ \/ IsListed(clients, srvq[i].from)
             \/ \E j \in 1 .. i : srvq[j].type = "INIT" /\ srvq[j].from = srvq[i].from
    /\ \A c \in Clients :
          /\ pc[c] = "start" => ~IsListed(clients, c)
          /\ Alive(c) => IsListed(clients, c) \/ HasRequest(c, {"INIT"})

\* What the requests of a waiting client are: in wait_list the last is LIST.
AskedInv ==
    \A c \in Clients :
        /\ pc[c] = "init" => ~HasRequest(c, RequestTypes \ {"INIT"})
        /\ pc[c] = "wait_list" =>
              \A i \in DOMAIN srvq : srvq[i].from = c =>
                 \E j \in DOMAIN srvq : j >= i /\ srvq[j].from = c /\ srvq[j].type = "LIST"

AnswerInv ==
    \A c \in Clients : pc[c] \in Waiting /\ queue[c] = <<>> =>
                          HasRequest(c, {"INIT", "CONNECT", "LIST"})

\* The server's invitation lies at place n of a queue or behind it.
Invites(q, n) == \E k \in DOMAIN q : k >= n /\ q[k].type = "CONNECT" /\ q[k].from = Server
InvitedFrom(c, n) == Invites(queue[c], n)
BeingTold(c) == server = "granting" /\ granted[2] = c
Pending(c) == HasRequest(c, {"CONNECT", "LIST", "DISCONNECT"})

BusyInv ==
    \A c \in Clients : IsBusy(clients, c) /\ Alive(c) =>
        pc[c] \in {"direct", "leaving"} \/ InvitedFrom(c, 1) \/ BeingTold(c) \/ Pending(c)

\* A busy client that waits in init or list does not lose its reason with the
\* message it takes.
WaitInv ==
    \A c \in Clients : IsBusy(clients, c) /\ pc[c] \in {"init", "wait_list"} =>
        InvitedFrom(c, 2) \/ BeingTold(c) \/ Pending(c)

RunningInv == server # "down" => OrderInv
ServingInv == server \in {"up", "granting"} => AskedInv /\ AnswerInv /\ BusyInv /\ WaitInv

ChatInv == TypeInv /\ RunningInv /\ ServingInv
------------------------------------------------------------------------------
(* Queues.                                                                 *)

LEMMA Popped ==
    ASSUME NEW S, NEW q \in Seq(S), q # <<>>
    PROVE  /\ Tail(q) \in Seq(S) /\ Head(q) = q[1] /\ q[1] \in S /\ 1 \in DOMAIN q
           /\ \A i \in DOMAIN Tail(q) : i \in Nat /\ i + 1 \in DOMAIN q /\ Tail(q)[i] = q[i + 1]
           /\ \A i \in DOMAIN q : i # 1 =>
                 i \in Nat /\ i - 1 \in DOMAIN Tail(q) /\ Tail(q)[i - 1] = q[i]
  OBVIOUS

LEMMA Pushed ==
    ASSUME NEW S, NEW q \in Seq(S), NEW e \in S
    PROVE  /\ Append(q, e) \in Seq(S) /\ Append(q, e) # <<>>
           /\ Len(q) \in Nat /\ Len(q) + 1 \in DOMAIN Append(q, e) /\ Append(q, e)[Len(q) + 1] = e
           /\ \A i \in DOMAIN q : /\ i \in Nat /\ i <= Len(q)
                                  /\ i \in DOMAIN Append(q, e) /\ Append(q, e)[i] = q[i]
           /\ \A i \in DOMAIN Append(q, e) : i \in DOMAIN q \/ i = Len(q) + 1
  OBVIOUS

LEMMA HasPopped ==
    ASSUME NEW q \in Seq(Requests), q # <<>>
    PROVE  \A c, types : /\ Has(Tail(q), c, types) => Has(q, c, types)
                         /\ Has(q, c, types) /\ (q[1].from # c \/ q[1].type \notin types)
                               => Has(Tail(q), c, types)
<1> SUFFICES ASSUME NEW c, NEW types
             PROVE  /\ Has(Tail(q), c, types) => Has(q, c, types)
                    /\ Has(q, c, types) /\ (q[1].from # c \/ q[1].type \notin types)
                          => Has(Tail(q), c, types)
  OBVIOUS
<1> QED
  BY Popped DEF Has

LEMMA HasPushed ==
    ASSUME NEW q \in Seq(Requests), NEW r \in Requests
    PROVE  \A c, types : Has(Append(q, r), c, types)
                            <=> Has(q, c, types) \/ (r.from = c /\ r.type \in types)
<1> SUFFICES ASSUME NEW c, NEW types
             PROVE  Has(Append(q, r), c, types)
                      <=> Has(q, c, types) \/ (r.from = c /\ r.type \in types)
  OBVIOUS
<1> QED
  BY Pushed DEF Has

LEMMA InvitesPopped ==
    ASSUME NEW q \in Seq(Messages), q # <<>>
    PROVE  /\ Invites(q, 2) => Invites(Tail(q), 1)
           /\ Invites(q, 1) /\ ~(q[1].type = "CONNECT" /\ q[1].from = Server) => Invites(Tail(q), 1)
<1>1. ASSUME NEW k \in DOMAIN q, k # 1, q[k].type = "CONNECT", q[k].from = Server
      PROVE  Invites(Tail(q), 1)
  <2>1. k - 1 \in DOMAIN Tail(q) /\ Tail(q)[k - 1] = q[k] /\ k \in Nat
    BY <1>1, Popped
  <2>2. k - 1 >= 1
    BY <2>1
  <2> QED
    BY <1>1, <2>1, <2>2 DEF Invites
<1>2. Invites(q, 2) => Invites(Tail(q), 1)
  BY <1>1 DEF Invites
<1> QED
  BY <1>1, <1>2 DEF Invites

LEMMA InvitesPushed ==
    ASSUME NEW q \in Seq(Messages), NEW m \in Messages
    PROVE  /\ \A n \in 1 .. 2 : Invites(q, n) => Invites(Append(q, m), n)
           /\ m.type = "CONNECT" /\ m.from = Server =>
                 Invites(Append(q, m), 1) /\ (q # <<>> => Invites(Append(q, m), 2))
<1>1. \A n \in 1 .. 2 : Invites(q, n) => Invites(Append(q, m), n)
  BY Pushed DEF Invites
<1>2. ASSUME m.type = "CONNECT", m.from = Server
      PROVE  Invites(Append(q, m), 1) /\ (q # <<>> => Invites(Append(q, m), 2))
  <2>1. Len(q) + 1 >= 1 /\ (q # <<>> => Len(q) + 1 >= 2)
    OBVIOUS
  <2> QED
    BY <1>2, <2>1, Pushed DEF Invites
<1> QED
  BY <1>1, <1>2
------------------------------------------------------------------------------
(* The server's list.                                                      *)

LEMMA EntryOf ==
    ASSUME TypeInv, Once(clients), NEW c
    PROVE  /\ Entry(c) # 0 <=> IsListed(clients, c)
           /\ IsListed(clients, c) => Entry(c) \in DOMAIN clients /\ clients[Entry(c)].id = c
           /\ Found(c) <=> IsListed(clients, c) /\ ~IsBusy(clients, c)
<1>1. CASE ~IsListed(clients, c)
  BY <1>1 DEF IsListed, Entry, Found
<1>2. CASE IsListed(clients, c)
  <2>1. PICK i \in DOMAIN clients : clients[i].id = c
    BY <1>2 DEF IsListed
  <2>2. DOMAIN clients = 1 .. Len(clients) /\ Len(clients) \in Nat
    BY DEF TypeInv
  <2>3. \A j \in 1 .. i - 1 : j \in DOMAIN clients /\ j # i
    BY <2>1, <2>2
  <2>4. \A j \in 1 .. i - 1 : clients[j].id # c
    BY <2>1, <2>3 DEF Once
  <2>5. Entry(c) \in DOMAIN clients /\ clients[Entry(c)].id = c
    BY <2>1, <2>4, Zenon DEF Entry
  <2>6. Entry(c) # 0
    BY <2>2, <2>5
  <2>7. \A k \in DOMAIN clients : clients[k].id = c => k = Entry(c)
    BY <2>5 DEF Once
  <2>8. Found(c) <=> ~IsBusy(clients, c)
    BY <2>5, <2>6, <2>7, Zenon DEF Found, IsBusy
  <2> QED
    BY <1>2, <2>5, <2>6, <2>8
<1> QED
  BY <1>1, <1>2

LEMMA SetActiveList ==
    ASSUME TypeInv, Once(clients), NEW list \in Seq(Entries),
           DOMAIN list = DOMAIN clients, \A i \in DOMAIN clients : list[i].id = clients[i].id,
           NEW c, NEW active \in BOOLEAN
    PROVE  LET r == SetActive(list, c, active)
           IN /\ r \in Seq(Entries) /\ DOMAIN r = DOMAIN clients
              /\ \A i \in DOMAIN clients : /\ r[i].id = clients[i].id
                                           /\ clients[i].id = c => r[i].active = active
                                           /\ clients[i].id # c => r[i].active = list[i].active
<1> DEFINE r == SetActive(list, c, active)
<1>1. CASE Entry(c) = 0
  <2>1. r = list /\ ~IsListed(clients, c)
    BY <1>1, EntryOf DEF SetActive
  <2>2. \A i \in DOMAIN clients : clients[i].id # c
    BY <2>1 DEF IsListed
  <2> QED
    BY <2>1, <2>2
<1>2. CASE Entry(c) # 0
  <2> DEFINE e == Entry(c)
  <2>1. e \in DOMAIN clients /\ clients[e].id = c
    BY <1>2, EntryOf
  <2>2. \A i \in DOMAIN clients : clients[i].id = c => i = e
    BY <2>1 DEF Once
  <2>3. r = [list EXCEPT ![e].active = active]
    BY <1>2 DEF SetActive
  <2> HIDE DEF e, r
  <2>4. list[e] \in Entries
    BY <2>1
  <2>5. \A f \in Entries : /\ [f EXCEPT !.active = active] \in Entries
                           /\ [f EXCEPT !.active = active].id = f.id
                           /\ [f EXCEPT !.active = active].active = active
    BY DEF Entries
  <2>6. /\ DOMAIN r = DOMAIN list /\ r \in Seq(Entries)
        /\ r[e] = [list[e] EXCEPT !.active = active]
        /\ \A i \in DOMAIN list : i # e => r[i] = list[i]
    <3> DEFINE f == [list[e] EXCEPT !.active = active]
    <3>1. f \in Entries /\ r = [list EXCEPT ![e] = f]
      BY <2>3, <2>4, <2>5
    <3> HIDE DEF f
    <3> QED
      BY <2>1, <3>1 DEF f
  <2>7. \A i \in DOMAIN clients : i # e => clients[i].id # c /\ r[i] = list[i]
    BY <2>2, <2>6
  <2>8. r[e].id = clients[e].id /\ r[e].active = active
    BY <2>1, <2>4, <2>5, <2>6
  <2>9. \A i \in DOMAIN clients : /\ r[i].id = clients[i].id
                                  /\ clients[i].id = c => r[i].active = active
                                  /\ clients[i].id # c => r[i].active = list[i].active
    BY <2>1, <2>7, <2>8
  <2> QED
    BY <2>6, <2>9, Zenon DEF r
<1> QED
  BY <1>1, <1>2

LEMMA SetActiveFacts ==
    ASSUME TypeInv, Once(clients), NEW c \in Clients, NEW active \in BOOLEAN
    PROVE  LET r == SetActive(clients, c, active)
           IN /\ r \in Seq(Entries) /\ Once(r)
              /\ \A d : /\ IsListed(r, d) <=> IsListed(clients, d)
                        /\ d # c => (IsBusy(r, d) <=> IsBusy(clients, d))
                        /\ IsBusy(r, c) => ~active
<1> DEFINE r == SetActive(clients, c, active)
<1>1. /\ r \in Seq(Entries) /\ DOMAIN r = DOMAIN clients
      /\ \A i \in DOMAIN clients : /\ r[i].id = clients[i].id
                                   /\ clients[i].id = c => r[i].active = active
                                   /\ clients[i].id # c => r[i].active = clients[i].active
  BY SetActiveList DEF TypeInv
<1> HIDE DEF r
<1>2. Once(r)
  BY <1>1 DEF Once
<1>3. \A d : IsListed(r, d) <=> IsListed(clients, d)
  BY <1>1, Zenon DEF IsListed
<1>4. \A d : d # c => (IsBusy(r, d) <=> IsBusy(clients, d))
  BY <1>1, Zenon DEF IsBusy
<1>5. IsBusy(r, c) => ~active
  BY <1>1, Zenon DEF IsBusy
<1> QED
  BY <1>1, <1>2, <1>3, <1>4, <1>5, Zenon DEF r

\* handle_connect marks two clients busy.
LEMMA SetTwoBusy ==
    ASSUME TypeInv, Once(clients), NEW a \in Clients, NEW b \in Clients,
           NEW active \in BOOLEAN
    PROVE  LET r == SetActive(SetActive(clients, b, active), a, active)
           IN /\ r \in Seq(Entries) /\ Once(r)
              /\ \A d : /\ IsListed(r, d) <=> IsListed(clients, d)
                        /\ d # a /\ d # b => (IsBusy(r, d) <=> IsBusy(clients, d))
<1> DEFINE s == SetActive(clients, b, active)
           r == SetActive(s, a, active)
<1>1. /\ s \in Seq(Entries) /\ DOMAIN s = DOMAIN clients
      /\ \A i \in DOMAIN clients : /\ s[i].id = clients[i].id
                                   /\ clients[i].id # b => s[i].active = clients[i].active
  <2>1. clients \in Seq(Entries) /\ \A i \in DOMAIN clients : clients[i].id = clients[i].id
    BY DEF TypeInv
  <2> HIDE DEF s
  <2>2. s = SetActive(clients, b, active)
    BY DEF s
  <2> QED
    BY <2>1, <2>2, SetActiveList
<1> HIDE DEF s
<1>2. /\ r \in Seq(Entries) /\ DOMAIN r = DOMAIN clients
      /\ \A i \in DOMAIN clients : /\ r[i].id = clients[i].id
                                   /\ clients[i].id # a => r[i].active = s[i].active
  BY <1>1, SetActiveList
<1> HIDE DEF r
<1>3. Once(r)
  BY <1>2 DEF Once
<1>4. \A d : IsListed(r, d) <=> IsListed(clients, d)
  BY <1>2, Zenon DEF IsListed
<1>5. \A d : d # a /\ d # b => (IsBusy(r, d) <=> IsBusy(clients, d))
  BY <1>1, <1>2, Zenon DEF IsBusy
<1> QED
  BY <1>2, <1>3, <1>4, <1>5, Zenon DEF r, s

LEMMA AppendedEntry ==
    ASSUME TypeInv, Once(clients), NEW c \in Clients, ~IsListed(clients, c)
    PROVE  LET r == Append(clients, [id |-> c, active |-> TRUE])
           IN /\ r \in Seq(Entries) /\ Once(r)
              /\ \A d : /\ IsListed(r, d) <=> IsListed(clients, d) \/ d = c
                        /\ IsBusy(r, d) <=> IsBusy(clients, d)
<1> DEFINE e == [id |-> c, active |-> TRUE]
           r == Append(clients, e)
<1>1. e \in Entries /\ e.id = c /\ e.active
  BY DEF Entries
<1> HIDE DEF e
<1>2. /\ r \in Seq(Entries) /\ Len(clients) + 1 \in DOMAIN r /\ r[Len(clients) + 1] = e
      /\ \A i \in DOMAIN clients : i \in DOMAIN r /\ r[i] = clients[i]
      /\ \A i \in DOMAIN r : i \in DOMAIN clients \/ i = Len(clients) + 1
  BY <1>1, Pushed DEF TypeInv
<1> HIDE DEF r
<1>3. Once(r)
  BY <1>1, <1>2, Zenon DEF Once, IsListed
<1>4. \A d : IsListed(r, d) <=> IsListed(clients, d) \/ d = c
  BY <1>1, <1>2, Zenon DEF IsListed
<1>5. \A d : IsBusy(r, d) <=> IsBusy(clients, d)
  BY <1>1, <1>2, Zenon DEF IsBusy
<1> QED
  BY <1>2, <1>3, <1>4, <1>5, Zenon DEF r, e

LEMMA RemovedAt ==
    ASSUME NEW S, NEW q \in Seq(S), NEW e \in 1 .. Len(q)
    PROVE  LET r == SubSeq(q, 1, e - 1) \o SubSeq(q, e + 1, Len(q))
           IN /\ r \in Seq(S) /\ DOMAIN r = 1 .. Len(q) - 1
              /\ \A i \in 1 .. Len(q) - 1 : /\ i < e => r[i] = q[i]
                                            /\ i >= e => r[i] = q[i + 1]
<1> DEFINE n == Len(q)
           front == SubSeq(q, 1, e - 1)
           back == SubSeq(q, e + 1, n)
<1>1. n \in Nat /\ e \in 1 .. n /\ \A i \in 1 .. n : q[i] \in S
  OBVIOUS
<1>2. /\ front \in Seq(S) /\ Len(front) = e - 1
      /\ \A i \in 1 .. e - 1 : front[i] = q[i]
  <2>1. \A i \in 1 .. e - 1 : q[i] \in S /\ 1 + i - 1 = i
    BY <1>1
  <2>2. 1 \in Int /\ e - 1 \in Int /\ e - 1 - 1 + 1 = e - 1
    BY <1>1
  <2>3. /\ SubSeq(q, 1, e - 1) \in Seq(S)
        /\ Len(SubSeq(q, 1, e - 1)) = IF 1 <= e - 1 THEN e - 1 - 1 + 1 ELSE 0
        /\ \A i \in 1 .. e - 1 - 1 + 1 : SubSeq(q, 1, e - 1)[i] = q[1 + i - 1]
    BY <2>1, <2>2, SubSeqProperties
  <2> QED
    BY <1>1, <2>1, <2>2, <2>3
<1>3. /\ back \in Seq(S) /\ Len(back) = n - e
      /\ \A i \in 1 .. n - e : back[i] = q[e + i]
  <2>1. (\A i \in e + 1 .. n : q[i] \in S) /\ \A i \in 1 .. n - e : e + 1 + i - 1 = e + i
    BY <1>1
  <2>2. e + 1 \in Int /\ n \in Int /\ n - (e + 1) + 1 = n - e
    BY <1>1
  <2>3. /\ SubSeq(q, e + 1, n) \in Seq(S)
        /\ Len(SubSeq(q, e + 1, n)) = IF e + 1 <= n THEN n - (e + 1) + 1 ELSE 0
        /\ \A i \in 1 .. n - (e + 1) + 1 : SubSeq(q, e + 1, n)[i] = q[e + 1 + i - 1]
    BY <2>1, <2>2, SubSeqProperties
  <2> HIDE DEF n
  <2> QED
    BY <1>1, <2>1, <2>2, <2>3
<1> HIDE DEF front, back
<1>4. /\ front \o back \in Seq(S) /\ Len(front \o back) = n - 1
      /\ \A i \in 1 .. n - 1 :
            (front \o back)[i] = IF i <= e - 1 THEN front[i] ELSE back[i - (e - 1)]
  <2>1. /\ front \o back \in Seq(S) /\ Len(front \o back) = Len(front) + Len(back)
        /\ \A i \in 1 .. Len(front) + Len(back) :
              (front \o back)[i] = IF i <= Len(front) THEN front[i] ELSE back[i - Len(front)]
    BY <1>2, <1>3, ConcatProperties
  <2>2. Len(front) + Len(back) = n - 1
    BY <1>1, <1>2, <1>3
  <2> HIDE DEF n
  <2> QED
    BY <1>2, <2>1, <2>2
<1>5. \A i \in 1 .. n - 1 : /\ i < e => (front \o back)[i] = q[i]
                            /\ i >= e => (front \o back)[i] = q[i + 1]
  <2> HIDE DEF n
  <2> SUFFICES ASSUME NEW i \in 1 .. n - 1
               PROVE  /\ i < e => (front \o back)[i] = q[i]
                      /\ i >= e => (front \o back)[i] = q[i + 1]
    OBVIOUS
  <2>1. ASSUME i < e PROVE (front \o back)[i] = q[i]
    <3>1. i \in 1 .. e - 1 /\ i <= e - 1
      BY <1>1, <2>1
    <3> QED
      BY <1>2, <1>4, <3>1
  <2>2. ASSUME i >= e PROVE (front \o back)[i] = q[i + 1]
    <3>1. ~(i <= e - 1) /\ i - (e - 1) \in 1 .. n - e /\ e + (i - (e - 1)) = i + 1
      BY <1>1, <2>2
    <3> QED
      BY <1>3, <1>4, <3>1
  <2> QED
    BY <2>1, <2>2
<1>6. DOMAIN (front \o back) = 1 .. n - 1
  BY <1>4
<1> QED
  BY <1>4, <1>5, <1>6, Zenon DEF front, back

\* removeclient: the entries behind the one removed move up.
LEMMA RemovedEntry ==
    ASSUME TypeInv, Once(clients), NEW c \in Clients, NEW r,
           r = LET i == Entry(c)
               IN IF i = 0 THEN clients
                  ELSE SubSeq(clients, 1, i - 1) \o SubSeq(clients, i + 1, Len(clients))
    PROVE  /\ r \in Seq(Entries) /\ Once(r)
           /\ \A d : /\ IsListed(r, d) <=> IsListed(clients, d) /\ d # c
                     /\ IsBusy(r, d) <=> IsBusy(clients, d) /\ d # c
<1>1. CASE Entry(c) = 0
  <2>1. r = clients /\ \A i \in DOMAIN clients : clients[i].id # c
    BY <1>1, EntryOf DEF IsListed
  <2> QED
    BY <2>1 DEF TypeInv, IsListed, IsBusy
<1>2. CASE Entry(c) # 0
  <2> DEFINE e == Entry(c)
             n == Len(clients)
  <2>1. e \in DOMAIN clients /\ clients[e].id = c
    BY <1>2, EntryOf
  <2>2. n \in Nat /\ DOMAIN clients = 1 .. n /\ e \in 1 .. n
    BY <2>1 DEF TypeInv
  <2>3. r = SubSeq(clients, 1, e - 1) \o SubSeq(clients, e + 1, n)
    BY <1>2
  <2>4. /\ r \in Seq(Entries) /\ DOMAIN r = 1 .. n - 1
        /\ \A i \in 1 .. n - 1 : /\ i < e => r[i] = clients[i]
                                 /\ i >= e => r[i] = clients[i + 1]
    <3>1. clients \in Seq(Entries) /\ e \in 1 .. Len(clients)
      BY <2>2 DEF TypeInv
    <3> HIDE DEF e
    <3> QED
      BY <2>3, <3>1, RemovedAt
  <2> HIDE DEF e, n
  <2>5. \A k \in 1 .. n : clients[k].id = c => k = e
    BY <2>1, <2>2 DEF Once
  <2>i. e \in Int /\ \A k \in 1 .. n : k \in Int
    BY <2>2
  <2>6. \A k \in 1 .. n : k # e => \E i \in 1 .. n - 1 : r[i] = clients[k]
    <3> SUFFICES ASSUME NEW k \in 1 .. n, k # e PROVE \E i \in 1 .. n - 1 : r[i] = clients[k]
      OBVIOUS
    <3>1. CASE k < e
      <4>1. k \in 1 .. n - 1
        BY <2>2, <3>1
      <4>2. r[k] = clients[k]
        BY <2>4, <3>1, <4>1
      <4> QED
        BY <4>1, <4>2
    <3>2. CASE k > e
      <4>1. k - 1 \in 1 .. n - 1 /\ k - 1 >= e /\ k - 1 + 1 = k
        BY <2>2, <3>2
      <4>2. r[k - 1] = clients[k]
        BY <2>4, <4>1
      <4> QED
        BY <4>1, <4>2
    <3>3. k < e \/ k > e
      BY <2>i
    <3> QED
      BY <3>1, <3>2, <3>3
  <2>7. \A i \in 1 .. n - 1 : \E k \in 1 .. n : k # e /\ r[i] = clients[k]
    <3> SUFFICES ASSUME NEW i \in 1 .. n - 1 PROVE \E k \in 1 .. n : k # e /\ r[i] = clients[k]
      OBVIOUS
    <3>1. CASE i < e
      <4>1. i \in 1 .. n /\ i # e
        BY <2>2, <3>1
      <4>2. r[i] = clients[i]
        BY <2>4, <3>1
      <4> QED
        BY <4>1, <4>2
    <3>2. CASE i >= e
      <4>1. i + 1 \in 1 .. n /\ i + 1 # e
        BY <2>2, <3>2
      <4>2. r[i] = clients[i + 1]
        BY <2>4, <3>2
      <4> QED
        BY <4>1, <4>2
    <3>3. i < e \/ i >= e
      BY <2>2
    <3> QED
      BY <3>1, <3>2, <3>3
  <2>8. Once(r)
    <3> SUFFICES ASSUME NEW i \in 1 .. n - 1, NEW j \in 1 .. n - 1, r[i].id = r[j].id
                 PROVE  i = j
      BY <2>4 DEF Once
    <3>1. /\ i + 1 \in 1 .. n /\ j + 1 \in 1 .. n /\ i \in 1 .. n /\ j \in 1 .. n
          /\ i \in Int /\ j \in Int /\ e \in Int
      BY <2>2
    <3>2. \A k, l \in 1 .. n : clients[k].id = clients[l].id => k = l
      BY <2>2 DEF Once
    <3> DEFINE At(k) == IF k < e THEN k ELSE k + 1
    <3>3. \A k \in 1 .. n - 1 : r[k] = clients[At(k)] /\ At(k) \in 1 .. n
      <4> SUFFICES ASSUME NEW k \in 1 .. n - 1 PROVE r[k] = clients[At(k)] /\ At(k) \in 1 .. n
        OBVIOUS
      <4>1. k + 1 \in 1 .. n /\ k \in 1 .. n /\ (k < e \/ k >= e) /\ (k < e <=> ~(k >= e))
        BY <2>2
      <4>2. CASE k < e
        BY <2>4, <4>1, <4>2
      <4>3. CASE k >= e
        <5>1. r[k] = clients[k + 1] /\ ~(k < e)
          BY <2>4, <4>1, <4>3
        <5> QED
          BY <4>1, <5>1
      <4> QED
        BY <4>1, <4>2, <4>3
    <3>4. At(i) = At(j)
      <4>1. r[i] = clients[At(i)] /\ At(i) \in 1 .. n /\ r[j] = clients[At(j)] /\ At(j) \in 1 .. n
        BY <3>3
      <4> HIDE DEF At
      <4> QED
        BY <3>2, <4>1
    <3> QED
      BY <3>1, <3>4
  <2>9. ASSUME NEW d
        PROVE  /\ IsListed(r, d) <=> IsListed(clients, d) /\ d # c
               /\ IsBusy(r, d) <=> IsBusy(clients, d) /\ d # c
    <3>1. ASSUME NEW i \in 1 .. n - 1, r[i].id = d
          PROVE  d # c /\ \E k \in 1 .. n : clients[k] = r[i]
      BY <2>5, <2>7, <3>1
    <3>2. ASSUME NEW k \in 1 .. n, clients[k].id = d, d # c
          PROVE  \E i \in 1 .. n - 1 : r[i] = clients[k]
      BY <2>1, <2>6, <3>2
    <3>3. IsListed(r, d) => IsListed(clients, d) /\ d # c
      BY <2>2, <2>4, <3>1 DEF IsListed
    <3>4. IsListed(clients, d) /\ d # c => IsListed(r, d)
      BY <2>2, <2>4, <3>2 DEF IsListed
    <3>5. IsBusy(r, d) => IsBusy(clients, d) /\ d # c
      <4>1. ASSUME NEW i \in 1 .. n - 1, r[i].id = d, ~r[i].active
            PROVE  \E k \in 1 .. n : clients[k].id = d /\ ~clients[k].active
        <5>1. PICK k \in 1 .. n : clients[k] = r[i]
          BY <3>1, <4>1
        <5> QED
          BY <4>1, <5>1, Zenon
      <4>2. ASSUME NEW i \in 1 .. n - 1, r[i].id = d PROVE d # c
        BY <3>1, <4>2
      <4> QED
        BY <2>2, <2>4, <4>1, <4>2, Zenon DEF IsBusy
    <3>6. IsBusy(clients, d) /\ d # c => IsBusy(r, d)
      <4>1. ASSUME NEW k \in 1 .. n, clients[k].id = d, ~clients[k].active, d # c
            PROVE  \E i \in 1 .. n - 1 : r[i].id = d /\ ~r[i].active
        <5>1. PICK i \in 1 .. n - 1 : r[i] = clients[k]
          BY <3>2, <4>1
        <5> QED
          BY <4>1, <5>1, Zenon
      <4> QED
        BY <2>2, <2>4, <4>1, Zenon DEF IsBusy
    <3> QED
      BY <3>3, <3>4, <3>5, <3>6
  <2> QED
    BY <2>4, <2>8, <2>9
<1> QED
  BY <1>1, <1>2
------------------------------------------------------------------------------
(* The public queue.                                                       *)

\* The server takes the first request.
LEMMA OrderPopped ==
    ASSUME TypeInv, OrderInv, srvq # <<>>, srvq' = Tail(srvq), UNCHANGED pc,
           Once(clients'), NEW a, a = srvq[1].from,
           \A d \in Clients \ {a} : IsListed(clients', d) <=> IsListed(clients, d),
           srvq[1].type = "INIT" => IsListed(clients', a),
           srvq[1].type = "STOP" => ~IsListed(clients', a),
           srvq[1].type \notin {"INIT", "STOP"} =>
              (IsListed(clients', a) <=> IsListed(clients, a))
    PROVE  OrderInv'
<1>0. /\ srvq[1] \in Requests /\ 1 \in DOMAIN srvq /\ a \in Clients
      /\ \A i \in DOMAIN srvq' : i \in Nat /\ i + 1 \in DOMAIN srvq /\ srvq'[i] = srvq[i + 1]
      /\ \A i \in DOMAIN srvq : i # 1 => /\ i \in Nat /\ i - 1 \in DOMAIN srvq'
                                         /\ srvq'[i - 1] = srvq[i]
  <2>1. srvq[1] \in Requests
    BY Popped DEF TypeInv
  <2> QED
    BY <2>1, Popped DEF TypeInv, Requests
<1>r. \A i \in DOMAIN srvq : srvq[i].from \in Clients /\ srvq[i].type \in RequestTypes
  <2>1. \A i \in DOMAIN srvq : srvq[i] \in Requests
    BY DEF TypeInv
  <2> QED
    BY <2>1 DEF Requests
<1>1. \A i \in DOMAIN srvq' : srvq'[i].from = a =>
         srvq[1].type # "STOP" /\ srvq'[i].type # "INIT"
  <2> SUFFICES ASSUME NEW i \in DOMAIN srvq', srvq'[i].from = a
               PROVE  srvq[1].type # "STOP" /\ srvq'[i].type # "INIT"
    OBVIOUS
  <2>1. 1 < i + 1 /\ i + 1 \in DOMAIN srvq /\ srvq'[i] = srvq[i + 1]
    <3>1. DOMAIN srvq' = 1 .. Len(srvq')
      BY Popped DEF TypeInv
    <3> QED
      BY <1>0, <3>1
  <2> QED
    BY <1>0, <2>1 DEF OrderInv
<1>2. IsListed(clients, a) \/ srvq[1].type = "INIT"
  BY <1>0 DEF OrderInv
<1>3. \A i, j \in DOMAIN srvq' :
         i < j /\ srvq'[i].from = srvq'[j].from => srvq'[i].type # "STOP" /\ srvq'[j].type # "INIT"
  BY <1>0 DEF OrderInv
<1>4. \A i \in DOMAIN srvq' :
         /\ pc[srvq'[i].from] # "start"
         /\ srvq'[i].type = "STOP" => pc[srvq'[i].from] = "gone"
         /\ srvq'[i].type \in {"INIT", "DISCONNECT"} => srvq'[i].to = Nobody
         /\ srvq'[i].type = "CONNECT" => srvq'[i].to \in Clients
  BY <1>0 DEF OrderInv
<1>5. \A i \in DOMAIN srvq' : srvq'[i].type = "INIT" => ~IsListed(clients', srvq'[i].from)
  BY <1>0, <1>r, <1>1 DEF OrderInv
<1>6. \A i \in DOMAIN srvq' :
         \/ IsListed(clients', srvq'[i].from)
         \/ \E j \in 1 .. i : srvq'[j].type = "INIT" /\ srvq'[j].from = srvq'[i].from
  <2> SUFFICES ASSUME NEW i \in DOMAIN srvq'
               PROVE  \/ IsListed(clients', srvq'[i].from)
                      \/ \E j \in 1 .. i : srvq'[j].type = "INIT" /\ srvq'[j].from = srvq'[i].from
    OBVIOUS
  <2>1. CASE srvq'[i].from = a
    BY <1>1, <1>2, <2>1
  <2>2. CASE srvq'[i].from # a
    <3>1. i \in Nat /\ i + 1 \in DOMAIN srvq /\ srvq'[i] = srvq[i + 1] /\ srvq'[i].from \in Clients
      BY <1>0, <1>r
    <3>2. CASE IsListed(clients, srvq'[i].from)
      BY <2>2, <3>1, <3>2
    <3>3. CASE ~IsListed(clients, srvq'[i].from)
      <4>1. PICK j \in 1 .. i + 1 : srvq[j].type = "INIT" /\ srvq[j].from = srvq'[i].from
        BY <3>1, <3>3 DEF OrderInv
      <4>2. j # 1 /\ j \in DOMAIN srvq /\ j - 1 \in 1 .. i
        <5>1. j # 1
          BY <2>2, <4>1
        <5>2. DOMAIN srvq = 1 .. Len(srvq) /\ Len(srvq) \in Nat
          BY DEF TypeInv
        <5> QED
          BY <3>1, <5>1, <5>2
      <4> QED
        BY <1>0, <4>1, <4>2
    <3> QED
      BY <3>2, <3>3
  <2> QED
    BY <2>1, <2>2
<1>7. \A c \in Clients : pc[c] = "start" => ~IsListed(clients', c)
  BY <1>0 DEF OrderInv
<1>8. \A c \in Clients : Alive(c) => IsListed(clients', c) \/ Has(srvq', c, {"INIT"})
  <2> SUFFICES ASSUME NEW c \in Clients, Alive(c)
               PROVE  IsListed(clients', c) \/ Has(srvq', c, {"INIT"})
    OBVIOUS
  <2>1. IsListed(clients, c) \/ Has(srvq, c, {"INIT"})
    BY DEF OrderInv, HasRequest
  <2>2. CASE c = a
    <3>1. srvq[1].type # "STOP"
      BY <1>0, <2>2 DEF OrderInv, Alive
    <3> QED
      BY <1>2, <2>2, <3>1
  <2>3. CASE c # a
    BY <2>1, <2>3, HasPopped DEF TypeInv
  <2> QED
    BY <2>2, <2>3
<1> QED
  BY <1>3, <1>4, <1>5, <1>6, <1>7, <1>8 DEF OrderInv, HasRequest, Alive

\* A client's request goes behind all others.
LEMMA OrderPushed ==
    ASSUME TypeInv, OrderInv, NEW c \in Clients, NEW r \in Requests, NEW next \in Places,
           r.from = c, next # "start", pc[c] # "gone",
           pc[c] = "start" <=> r.type = "INIT",
           r.type = "STOP" => next = "gone",
           r.type \in {"INIT", "DISCONNECT"} => r.to = Nobody,
           r.type = "CONNECT" => r.to \in Clients,
           srvq' = Append(srvq, r), pc' = [pc EXCEPT ![c] = next], UNCHANGED clients
    PROVE  OrderInv'
<1> DEFINE n == Len(srvq)
<1>0. /\ srvq \in Seq(Requests) /\ n \in Nat /\ n + 1 \in DOMAIN srvq' /\ srvq'[n + 1] = r
      /\ \A i \in DOMAIN srvq : /\ i \in Nat /\ i <= n
                                /\ i \in DOMAIN srvq' /\ srvq'[i] = srvq[i]
      /\ \A i \in DOMAIN srvq' : i \in DOMAIN srvq \/ i = n + 1
  <2>1. srvq \in Seq(Requests)
    BY DEF TypeInv
  <2> QED
    BY <2>1, Pushed
<1> HIDE DEF n
<1>p. pc'[c] = next /\ \A d \in Clients \ {c} : pc'[d] = pc[d]
  BY DEF TypeInv
<1>r. \A i \in DOMAIN srvq : srvq[i].from \in Clients
  <2>1. \A i \in DOMAIN srvq : srvq[i] \in Requests
    BY DEF TypeInv
  <2> QED
    BY <2>1 DEF Requests
<1>1. \A i \in DOMAIN srvq : srvq[i].from = c => srvq[i].type # "STOP" /\ r.type # "INIT"
  BY DEF OrderInv
<1>2. IsListed(clients, c) \/ r.type = "INIT" \/ Has(srvq, c, {"INIT"})
  BY DEF OrderInv, Alive, HasRequest
<1>3. \A i, j \in DOMAIN srvq' :
         i < j /\ srvq'[i].from = srvq'[j].from => srvq'[i].type # "STOP" /\ srvq'[j].type # "INIT"
  <2> SUFFICES ASSUME NEW i \in DOMAIN srvq', NEW j \in DOMAIN srvq', i < j,
                      srvq'[i].from = srvq'[j].from
               PROVE  srvq'[i].type # "STOP" /\ srvq'[j].type # "INIT"
    OBVIOUS
  <2>1. i \in DOMAIN srvq
    BY <1>0
  <2>2. CASE j \in DOMAIN srvq
    BY <1>0, <2>1, <2>2 DEF OrderInv
  <2>3. CASE j = n + 1
    BY <1>0, <1>1, <2>1, <2>3
  <2> QED
    BY <1>0, <2>2, <2>3
<1>4. \A i \in DOMAIN srvq' :
         /\ pc'[srvq'[i].from] # "start"
         /\ srvq'[i].type = "STOP" => pc'[srvq'[i].from] = "gone"
         /\ srvq'[i].type = "INIT" => ~IsListed(clients, srvq'[i].from)
         /\ srvq'[i].type \in {"INIT", "DISCONNECT"} => srvq'[i].to = Nobody
         /\ srvq'[i].type = "CONNECT" => srvq'[i].to \in Clients
  <2> SUFFICES ASSUME NEW i \in DOMAIN srvq'
               PROVE  /\ pc'[srvq'[i].from] # "start"
                      /\ srvq'[i].type = "STOP" => pc'[srvq'[i].from] = "gone"
                      /\ srvq'[i].type = "INIT" => ~IsListed(clients, srvq'[i].from)
                      /\ srvq'[i].type \in {"INIT", "DISCONNECT"} => srvq'[i].to = Nobody
                      /\ srvq'[i].type = "CONNECT" => srvq'[i].to \in Clients
    OBVIOUS
  <2>1. CASE i \in DOMAIN srvq
    BY <1>0, <1>p, <1>r, <1>1, <2>1 DEF OrderInv
  <2>2. CASE i = n + 1
    BY <1>0, <1>p, <2>2 DEF OrderInv
  <2> QED
    BY <1>0, <2>1, <2>2
<1>5. \A i \in DOMAIN srvq' :
         \/ IsListed(clients, srvq'[i].from)
         \/ \E j \in 1 .. i : srvq'[j].type = "INIT" /\ srvq'[j].from = srvq'[i].from
  <2> SUFFICES ASSUME NEW i \in DOMAIN srvq', ~IsListed(clients, srvq'[i].from)
               PROVE  \E j \in 1 .. i : srvq'[j].type = "INIT" /\ srvq'[j].from = srvq'[i].from
    OBVIOUS
  <2>0. DOMAIN srvq = 1 .. n
    BY <1>0 DEF n
  <2>1. CASE i \in DOMAIN srvq
    <3>1. PICK j \in 1 .. i : srvq[j].type = "INIT" /\ srvq[j].from = srvq[i].from
      BY <1>0, <2>1 DEF OrderInv
    <3>2. j \in DOMAIN srvq
      BY <1>0, <2>0, <2>1
    <3> QED
      BY <1>0, <2>1, <3>1, <3>2
  <2>2. CASE i = n + 1
    <3>1. r.from = c /\ srvq'[i] = r /\ i \in 1 .. i
      BY <1>0, <2>2
    <3>2. CASE r.type = "INIT"
      BY <3>1, <3>2
    <3>3. CASE r.type # "INIT"
      <4>1. PICK j \in DOMAIN srvq : srvq[j].from = c /\ srvq[j].type = "INIT"
        BY <1>2, <3>1, <3>3 DEF Has
      <4>2. j \in 1 .. i /\ srvq'[j] = srvq[j]
        BY <1>0, <2>0, <2>2
      <4> QED
        BY <3>1, <4>1, <4>2
    <3> QED
      BY <3>2, <3>3
  <2> QED
    BY <1>0, <2>1, <2>2
<1>6. \A d \in Clients : pc'[d] = "start" => ~IsListed(clients, d)
  BY <1>p DEF OrderInv
<1>7. \A d \in Clients : pc'[d] \notin {"start", "gone"} =>
                            IsListed(clients, d) \/ Has(srvq', d, {"INIT"})
  <2>1. \A d : Has(srvq', d, {"INIT"}) <=> Has(srvq, d, {"INIT"}) \/ (r.from = d /\ r.type = "INIT")
    BY <1>0, HasPushed
  <2>2. \A d \in Clients \ {c} : Alive(d) => IsListed(clients, d) \/ Has(srvq, d, {"INIT"})
    BY DEF OrderInv, HasRequest
  <2> QED
    BY <1>2, <1>p, <2>1, <2>2 DEF Alive
<1> QED
  BY <1>3, <1>4, <1>5, <1>6, <1>7 DEF OrderInv, HasRequest, Alive

\* A client moves and asks nothing.
LEMMA OrderStays ==
    ASSUME TypeInv, OrderInv, NEW c \in Clients, NEW next \in Places, pc[c] # "start",
           next # "start", pc[c] = "gone" => next = "gone",
           pc' = [pc EXCEPT ![c] = next], UNCHANGED <<clients, srvq>>
    PROVE  OrderInv'
<1>1. pc'[c] = next /\ \A d \in Clients \ {c} : pc'[d] = pc[d]
  BY DEF TypeInv
<1>2. \A i \in DOMAIN srvq : srvq[i].from \in Clients
  <2>1. \A i \in DOMAIN srvq : srvq[i] \in Requests
    BY DEF TypeInv
  <2> QED
    BY <2>1 DEF Requests
<1>3. \A i \in DOMAIN srvq : /\ pc'[srvq[i].from] # "start"
                             /\ srvq[i].type = "STOP" => pc'[srvq[i].from] = "gone"
  <2> SUFFICES ASSUME NEW i \in DOMAIN srvq
               PROVE  /\ pc'[srvq[i].from] # "start"
                      /\ srvq[i].type = "STOP" => pc'[srvq[i].from] = "gone"
    OBVIOUS
  <2>1. CASE srvq[i].from = c
    BY <1>1, <2>1 DEF OrderInv
  <2>2. CASE srvq[i].from # c
    BY <1>1, <1>2, <2>2 DEF OrderInv
  <2> QED
    BY <2>1, <2>2
<1>4. \A d \in Clients : /\ pc'[d] = "start" => ~IsListed(clients, d)
                         /\ pc'[d] \notin {"start", "gone"} =>
                               IsListed(clients, d) \/ HasRequest(d, {"INIT"})
  BY <1>1 DEF OrderInv, Alive
<1> QED
  BY <1>3, <1>4 DEF OrderInv, HasRequest, Alive
------------------------------------------------------------------------------
(* What kinds of step there are.                                           *)

\* The server takes a request and leaves its sender, if listed, not busy.
LEMMA Popping ==
    ASSUME ChatInv, TypeInv', server = "up", server' = "up", srvq # <<>>, srvq' = Tail(srvq),
           UNCHANGED pc, Once(clients'), NEW a \in Clients, a = srvq[1].from,
           \A d \in Clients \ {a} : /\ IsListed(clients', d) <=> IsListed(clients, d)
                                    /\ IsBusy(clients', d) <=> IsBusy(clients, d)
                                    /\ queue'[d] = queue[d],
           ~IsBusy(clients', a),
           srvq[1].type = "INIT" => IsListed(clients', a),
           srvq[1].type = "STOP" => ~IsListed(clients', a),
           srvq[1].type \notin {"INIT", "STOP"} =>
              (IsListed(clients', a) <=> IsListed(clients, a)),
           srvq[1].type \in {"INIT", "CONNECT", "LIST"} => queue'[a] # <<>>,
           queue'[a] = <<>> => queue[a] = <<>>
    PROVE  ChatInv'
<1>0. TypeInv /\ OrderInv /\ AskedInv /\ AnswerInv /\ BusyInv /\ WaitInv /\ srvq \in Seq(Requests)
  BY DEF ChatInv, RunningInv, ServingInv, TypeInv
<1>1. OrderInv'
  BY <1>0, OrderPopped
<1>2. \A c, types : /\ Has(srvq', c, types) => Has(srvq, c, types)
                    /\ Has(srvq, c, types) /\ (a # c \/ srvq[1].type \notin types)
                          => Has(srvq', c, types)
  BY <1>0, HasPopped
<1>3. AskedInv'
  <2>1. \A c \in Clients : pc[c] = "init" => ~Has(srvq', c, RequestTypes \ {"INIT"})
    BY <1>0, <1>2 DEF AskedInv, HasRequest
  <2>2. ASSUME NEW c \in Clients, pc[c] = "wait_list", NEW i \in DOMAIN srvq', srvq'[i].from = c
        PROVE  \E j \in DOMAIN srvq' : j >= i /\ srvq'[j].from = c /\ srvq'[j].type = "LIST"
    <3>1. i \in Nat /\ i + 1 \in DOMAIN srvq /\ srvq'[i] = srvq[i + 1] /\ i >= 1
      <4>1. DOMAIN srvq' = 1 .. Len(srvq')
        BY DEF TypeInv
      <4> QED
        BY <1>0, <4>1, Popped
    <3>2. PICK j \in DOMAIN srvq : j >= i + 1 /\ srvq[j].from = c /\ srvq[j].type = "LIST"
      BY <1>0, <2>2, <3>1 DEF AskedInv
    <3>3. j # 1
      BY <3>1, <3>2
    <3>4. j \in Nat /\ j - 1 \in DOMAIN srvq' /\ srvq'[j - 1] = srvq[j]
      BY <1>0, <3>3, Popped
    <3>5. j - 1 >= i
      BY <3>1, <3>2, <3>4
    <3> QED
      BY <3>2, <3>4, <3>5
  <2> QED
    BY <2>1, <2>2 DEF AskedInv, HasRequest
<1>4. AnswerInv'
  <2> SUFFICES ASSUME NEW c \in Clients, pc[c] \in Waiting, queue'[c] = <<>>
               PROVE  Has(srvq', c, {"INIT", "CONNECT", "LIST"})
    BY DEF AnswerInv, HasRequest
  <2>1. queue[c] = <<>> /\ (c = a => srvq[1].type \notin {"INIT", "CONNECT", "LIST"})
    OBVIOUS
  <2>2. Has(srvq, c, {"INIT", "CONNECT", "LIST"})
    BY <1>0, <2>1 DEF AnswerInv, HasRequest
  <2> QED
    BY <1>2, <2>1, <2>2
<1>5. ASSUME NEW c \in Clients, IsBusy(clients', c)
      PROVE  /\ c # a /\ IsBusy(clients, c) /\ queue'[c] = queue[c] /\ ~BeingTold(c)
             /\ Has(srvq, c, {"CONNECT", "LIST", "DISCONNECT"})
                   => Has(srvq', c, {"CONNECT", "LIST", "DISCONNECT"})
  BY <1>2, <1>5 DEF BeingTold
<1>6. BusyInv'
  BY <1>0, <1>5 DEF BusyInv, InvitedFrom, Pending, HasRequest, Alive
<1>7. WaitInv'
  BY <1>0, <1>5 DEF WaitInv, InvitedFrom, Pending, HasRequest
<1> QED
  BY <1>1, <1>3, <1>4, <1>6, <1>7 DEF ChatInv, RunningInv, ServingInv

\* handle_connect makes two clients busy and tells the first.
LEMMA Granting ==
    ASSUME ChatInv, TypeInv', server = "up", server' = "granting", srvq # <<>>,
           srvq' = Tail(srvq), UNCHANGED pc, Once(clients'),
           NEW a \in Clients, a = srvq[1].from, srvq[1].type = "CONNECT",
           NEW b \in Clients, granted' = <<a, b>>,
           \A d \in Clients : /\ IsListed(clients', d) <=> IsListed(clients, d)
                              /\ d # a /\ d # b => (IsBusy(clients', d) <=> IsBusy(clients, d)),
           \A d \in Clients \ {a} : queue'[d] = queue[d],
           queue'[a] # <<>>, Invites(queue'[a], 1)
    PROVE  ChatInv'
<1>0. /\ TypeInv /\ OrderInv /\ AskedInv /\ AnswerInv /\ BusyInv /\ WaitInv
      /\ srvq \in Seq(Requests) /\ 1 \in DOMAIN srvq
  BY Popped DEF ChatInv, RunningInv, ServingInv, TypeInv
<1>1. OrderInv'
  BY <1>0, OrderPopped
<1>2. \A c, types : /\ Has(srvq', c, types) => Has(srvq, c, types)
                    /\ Has(srvq, c, types) /\ (a # c \/ "CONNECT" \notin types)
                          => Has(srvq', c, types)
  BY <1>0, HasPopped
<1>3. AskedInv'
  <2>1. \A c \in Clients : pc[c] = "init" => ~Has(srvq', c, RequestTypes \ {"INIT"})
    BY <1>0, <1>2 DEF AskedInv, HasRequest
  <2>2. ASSUME NEW c \in Clients, pc[c] = "wait_list", NEW i \in DOMAIN srvq', srvq'[i].from = c
        PROVE  \E j \in DOMAIN srvq' : j >= i /\ srvq'[j].from = c /\ srvq'[j].type = "LIST"
    <3>1. i \in Nat /\ i + 1 \in DOMAIN srvq /\ srvq'[i] = srvq[i + 1] /\ i >= 1
      <4>1. DOMAIN srvq' = 1 .. Len(srvq')
        BY DEF TypeInv
      <4> QED
        BY <1>0, <4>1, Popped
    <3>2. PICK j \in DOMAIN srvq : j >= i + 1 /\ srvq[j].from = c /\ srvq[j].type = "LIST"
      BY <1>0, <2>2, <3>1 DEF AskedInv
    <3>3. j # 1
      BY <3>1, <3>2
    <3>4. j \in Nat /\ j - 1 \in DOMAIN srvq' /\ srvq'[j - 1] = srvq[j]
      BY <1>0, <3>3, Popped
    <3>5. j - 1 >= i
      BY <3>1, <3>2, <3>4
    <3> QED
      BY <3>2, <3>4, <3>5
  <2> QED
    BY <2>1, <2>2 DEF AskedInv, HasRequest
<1>4. AnswerInv'
  <2> SUFFICES ASSUME NEW c \in Clients, pc[c] \in Waiting, queue'[c] = <<>>
               PROVE  Has(srvq', c, {"INIT", "CONNECT", "LIST"})
    BY DEF AnswerInv, HasRequest
  <2>1. c # a /\ queue[c] = <<>>
    OBVIOUS
  <2>2. Has(srvq, c, {"INIT", "CONNECT", "LIST"})
    BY <1>0, <2>1 DEF AnswerInv, HasRequest
  <2> QED
    BY <1>2, <2>1, <2>2
<1>t. granted'[2] = b
  OBVIOUS
<1>5. ASSUME NEW c \in Clients, c # a, c # b, IsBusy(clients', c)
      PROVE  /\ IsBusy(clients, c) /\ queue'[c] = queue[c] /\ ~BeingTold(c)
             /\ Has(srvq, c, {"CONNECT", "LIST", "DISCONNECT"})
                   => Has(srvq', c, {"CONNECT", "LIST", "DISCONNECT"})
  BY <1>2, <1>5 DEF BeingTold
<1>6. BusyInv'
  <2> SUFFICES ASSUME NEW c \in Clients, IsBusy(clients', c), pc[c] \notin {"start", "gone"}
               PROVE  \/ pc[c] \in {"direct", "leaving"} \/ Invites(queue'[c], 1) \/ b = c
                      \/ Has(srvq', c, {"CONNECT", "LIST", "DISCONNECT"})
    BY <1>t DEF BusyInv, InvitedFrom, BeingTold, Pending, HasRequest, Alive
  <2>1. CASE c # a /\ c # b
    BY <1>0, <1>5, <2>1 DEF BusyInv, InvitedFrom, Pending, HasRequest, Alive
  <2> QED
    BY <2>1
<1>7. WaitInv'
  <2> SUFFICES ASSUME NEW c \in Clients, IsBusy(clients', c), pc[c] \in {"init", "wait_list"}
               PROVE  \/ Invites(queue'[c], 2) \/ b = c
                      \/ Has(srvq', c, {"CONNECT", "LIST", "DISCONNECT"})
    BY <1>t DEF WaitInv, InvitedFrom, BeingTold, Pending, HasRequest
  <2>1. CASE c # a /\ c # b
    BY <1>0, <1>5, <2>1 DEF WaitInv, InvitedFrom, Pending, HasRequest
  <2>2. CASE c = a /\ pc[a] = "init"
    <3>1. Has(srvq, a, RequestTypes \ {"INIT"})
      BY <1>0 DEF Has, RequestTypes
    <3> QED
      BY <1>0, <2>2, <3>1 DEF AskedInv, HasRequest
  <2>3. CASE c = a /\ pc[a] = "wait_list"
    <3>1. PICK j \in DOMAIN srvq : j >= 1 /\ srvq[j].from = a /\ srvq[j].type = "LIST"
      BY <1>0, <2>3 DEF AskedInv
    <3>2. Has(srvq, a, {"LIST"})
      BY <3>1 DEF Has
    <3>3. Has(srvq', a, {"LIST"})
      BY <1>2, <3>2
    <3> QED
      BY <2>3, <3>3 DEF Has
  <2> QED
    BY <2>1, <2>2, <2>3
<1> QED
  BY <1>1, <1>3, <1>4, <1>6, <1>7 DEF ChatInv, RunningInv, ServingInv

\* The second of the two is told.
LEMMA Telling ==
    ASSUME ChatInv, TypeInv', server = "granting", server' = "up",
           UNCHANGED <<srvq, pc, clients>>, NEW b \in Clients, b = granted[2], NEW m \in Messages,
           m.type = "CONNECT", m.from = Server, queue'[b] = Append(queue[b], m),
           \A d \in Clients \ {b} : queue'[d] = queue[d]
    PROVE  ChatInv'
<1>0. /\ TypeInv /\ OrderInv /\ AskedInv /\ AnswerInv /\ BusyInv /\ WaitInv
      /\ queue[b] \in Seq(Messages)
  BY DEF ChatInv, RunningInv, ServingInv, TypeInv
<1>1. OrderInv' /\ AskedInv'
  <2>1. OrderInv'
    BY <1>0 DEF OrderInv, HasRequest, Has, Alive
  <2>2. AskedInv'
    BY <1>0 DEF AskedInv, HasRequest, Has
  <2> QED
    BY <2>1, <2>2
<1>2. /\ Invites(queue'[b], 1) /\ (queue[b] # <<>> => Invites(queue'[b], 2))
      /\ queue'[b] # <<>>
  BY <1>0, InvitesPushed, Pushed
<1>3. AnswerInv'
  BY <1>0, <1>2 DEF AnswerInv, HasRequest
<1>4. \A c \in Clients \ {b} : ~BeingTold(c)
  BY DEF BeingTold
<1>5. BusyInv'
  BY <1>0, <1>2, <1>4 DEF BusyInv, InvitedFrom, Pending, HasRequest, Alive
<1>6. WaitInv'
  <2>1. ASSUME IsBusy(clients, b), pc[b] \in {"init", "wait_list"}, queue[b] = <<>>
        PROVE  Has(srvq, b, {"CONNECT", "LIST", "DISCONNECT"})
    <3>1. Has(srvq, b, {"INIT", "CONNECT", "LIST"})
      BY <1>0, <2>1 DEF AnswerInv, HasRequest, Waiting
    <3>2. ~Has(srvq, b, {"INIT"})
      BY <1>0, <2>1 DEF OrderInv, IsBusy, IsListed, Has
    <3> QED
      BY <3>1, <3>2 DEF Has
  <2>2. \A c \in Clients \ {b} : IsBusy(clients, c) /\ pc[c] \in {"init", "wait_list"} =>
           Invites(queue'[c], 2) \/ Pending(c)
    BY <1>0, <1>4 DEF WaitInv, InvitedFrom
  <2> QED
    BY <1>2, <2>1, <2>2 DEF WaitInv, InvitedFrom, Pending, HasRequest
<1> QED
  BY <1>1, <1>3, <1>5, <1>6 DEF ChatInv, RunningInv, ServingInv

\* A client asks the server and moves on.
LEMMA Pushing ==
    ASSUME ChatInv, TypeInv', server # "down", UNCHANGED <<server, clients, granted>>,
           NEW c \in Clients, NEW r \in Requests, NEW next \in Places,
           r.from = c, next # "start", pc[c] # "gone",
           pc[c] = "start" <=> r.type = "INIT",
           r.type = "STOP" => next = "gone",
           r.type \in {"INIT", "DISCONNECT"} => r.to = Nobody,
           r.type = "CONNECT" => r.to \in Clients,
           next = "init" => r.type = "INIT",
           next = "wait_list" => r.type = "LIST",
           next \in Waiting => r.type \in {"INIT", "CONNECT", "LIST"},
           srvq' = Append(srvq, r), pc' = [pc EXCEPT ![c] = next],
           \A d \in Clients \ {c} : queue'[d] = queue[d]
    PROVE  ChatInv'
<1>0. TypeInv /\ OrderInv /\ srvq \in Seq(Requests)
  BY DEF ChatInv, RunningInv, TypeInv
<1>1. OrderInv'
  BY <1>0, OrderPushed
<1>p. pc'[c] = next /\ \A d \in Clients \ {c} : pc'[d] = pc[d]
  BY <1>0 DEF TypeInv
<1>t. r.type \in RequestTypes
  BY DEF Requests
<1>2. \A d, types : Has(srvq', d, types) <=> Has(srvq, d, types) \/ (c = d /\ r.type \in types)
  BY <1>0, HasPushed
<1>3. ASSUME server \in {"up", "granting"}
      PROVE  AskedInv' /\ AnswerInv' /\ BusyInv' /\ WaitInv'
  <2>0. AskedInv /\ AnswerInv /\ BusyInv /\ WaitInv
    BY <1>3 DEF ChatInv, ServingInv
  <2>1. \A d \in Clients : pc'[d] = "init" => ~Has(srvq', d, RequestTypes \ {"INIT"})
    <3>1. \A d \in Clients \ {c} : pc'[d] = "init" => ~Has(srvq', d, RequestTypes \ {"INIT"})
      BY <1>2, <1>p, <2>0 DEF AskedInv, HasRequest
    <3>2. ASSUME next = "init" PROVE ~Has(srvq', c, RequestTypes \ {"INIT"})
      <4>1. ~Has(srvq, c, RequestTypes \ {"INIT"})
        BY <1>0, <3>2 DEF OrderInv, Has
      <4> QED
        BY <1>2, <3>2, <4>1
    <3> QED
      BY <1>p, <3>1, <3>2
  <2>2. ASSUME NEW d \in Clients, pc'[d] = "wait_list", NEW i \in DOMAIN srvq', srvq'[i].from = d
        PROVE  \E j \in DOMAIN srvq' : j >= i /\ srvq'[j].from = d /\ srvq'[j].type = "LIST"
    <3> DEFINE n == Len(srvq)
    <3>1. /\ n \in Nat /\ n + 1 \in DOMAIN srvq' /\ srvq'[n + 1] = r
          /\ \A k \in DOMAIN srvq : /\ k \in Nat /\ k <= n
                                    /\ k \in DOMAIN srvq' /\ srvq'[k] = srvq[k]
          /\ \A k \in DOMAIN srvq' : k \in DOMAIN srvq \/ k = n + 1
      BY <1>0, Pushed
    <3> HIDE DEF n
    <3>2. CASE d = c
      <4>1. r.type = "LIST" /\ n + 1 >= i
        BY <1>p, <2>2, <3>1, <3>2
      <4> QED
        BY <3>1, <3>2, <4>1
    <3>3. CASE d # c
      <4>1. i \in DOMAIN srvq /\ srvq[i].from = d /\ pc[d] = "wait_list"
        BY <1>p, <2>2, <3>1, <3>3
      <4>2. PICK j \in DOMAIN srvq : j >= i /\ srvq[j].from = d /\ srvq[j].type = "LIST"
        BY <2>0, <4>1 DEF AskedInv
      <4> QED
        BY <3>1, <4>2
    <3> QED
      BY <3>2, <3>3
  <2>3. AskedInv'
    BY <2>1, <2>2 DEF AskedInv, HasRequest
  <2>4. AnswerInv'
    BY <1>2, <1>p, <2>0 DEF AnswerInv, HasRequest
  <2>5. \A d \in Clients : BeingTold(d)' <=> BeingTold(d)
    BY DEF BeingTold
  <2>6. IsBusy(clients, c) =>
          r.type # "INIT" /\ (r.type # "STOP" => Has(srvq', c, {"CONNECT", "LIST", "DISCONNECT"}))
    <3>1. r.type = "INIT" => ~IsBusy(clients, c)
      BY <1>0 DEF OrderInv, IsBusy, IsListed
    <3>2. r.type \notin {"INIT", "STOP"} => r.type \in {"CONNECT", "LIST", "DISCONNECT"}
      BY <1>t DEF RequestTypes
    <3> QED
      BY <1>2, <3>1, <3>2
  <2>7. BusyInv'
    <3> SUFFICES ASSUME NEW d \in Clients, IsBusy(clients, d), pc'[d] \notin {"start", "gone"}
                 PROVE  \/ pc'[d] \in {"direct", "leaving"} \/ Invites(queue'[d], 1)
                        \/ BeingTold(d) \/ Has(srvq', d, {"CONNECT", "LIST", "DISCONNECT"})
      BY <2>5 DEF BusyInv, InvitedFrom, Pending, HasRequest, Alive
    <3>1. CASE d = c
      BY <1>p, <2>6, <3>1
    <3>2. CASE d # c
      BY <1>2, <1>p, <2>0, <3>2 DEF BusyInv, InvitedFrom, Pending, HasRequest, Alive
    <3> QED
      BY <3>1, <3>2
  <2>8. WaitInv'
    <3> SUFFICES ASSUME NEW d \in Clients, IsBusy(clients, d), pc'[d] \in {"init", "wait_list"}
                 PROVE  \/ Invites(queue'[d], 2)
                        \/ BeingTold(d) \/ Has(srvq', d, {"CONNECT", "LIST", "DISCONNECT"})
      BY <2>5 DEF WaitInv, InvitedFrom, Pending, HasRequest
    <3>1. CASE d = c
      BY <1>p, <2>6, <3>1
    <3>2. CASE d # c
      BY <1>2, <1>p, <2>0, <3>2 DEF WaitInv, InvitedFrom, Pending, HasRequest
    <3> QED
      BY <3>1, <3>2
  <2> QED
    BY <2>3, <2>4, <2>7, <2>8
<1> QED
  BY <1>1, <1>3 DEF ChatInv, RunningInv, ServingInv

\* A client moves on and asks nothing; it may write into a queue.
LEMMA Staying ==
    ASSUME ChatInv, TypeInv', UNCHANGED <<server, clients, granted, srvq>>,
           NEW c \in Clients, NEW next \in Places,
           next \notin Waiting \cup {"start"}, pc[c] \notin {"start", "gone"},
           pc' = [pc EXCEPT ![c] = next],
           \A d \in Clients \ {c} :
              queue'[d] = queue[d] \/ \E m \in Messages : queue'[d] = Append(queue[d], m),
           server \in {"up", "granting"} /\ IsBusy(clients, c) =>
              \/ next \in {"direct", "leaving", "gone"} \/ Invites(queue'[c], 1)
              \/ BeingTold(c) \/ Pending(c)
    PROVE  ChatInv'
<1>0. TypeInv
  BY DEF ChatInv
<1>1. server # "down" => OrderInv'
  BY <1>0, OrderStays DEF ChatInv, RunningInv
<1>p. pc'[c] = next /\ \A d \in Clients \ {c} : pc'[d] = pc[d]
  BY <1>0 DEF TypeInv
<1>q. \A d \in Clients \ {c} : /\ Invites(queue[d], 1) => Invites(queue'[d], 1)
                               /\ Invites(queue[d], 2) => Invites(queue'[d], 2)
                               /\ queue'[d] = <<>> => queue[d] = <<>>
  <2> SUFFICES ASSUME NEW d \in Clients \ {c}
               PROVE  /\ Invites(queue[d], 1) => Invites(queue'[d], 1)
                      /\ Invites(queue[d], 2) => Invites(queue'[d], 2)
                      /\ queue'[d] = <<>> => queue[d] = <<>>
    OBVIOUS
  <2>1. CASE queue'[d] = queue[d]
    BY <2>1
  <2>2. ASSUME NEW m \in Messages, queue'[d] = Append(queue[d], m)
        PROVE  /\ Invites(queue[d], 1) => Invites(queue'[d], 1)
               /\ Invites(queue[d], 2) => Invites(queue'[d], 2)
               /\ queue'[d] = <<>> => queue[d] = <<>>
    <3>1. queue[d] \in Seq(Messages) /\ 1 \in 1 .. 2 /\ 2 \in 1 .. 2
      BY <1>0 DEF TypeInv
    <3> QED
      BY <2>2, <3>1, InvitesPushed, Pushed
  <2> QED
    BY <2>1, <2>2
<1>3. ASSUME server \in {"up", "granting"}
      PROVE  AskedInv' /\ AnswerInv' /\ BusyInv' /\ WaitInv'
  <2>0. AskedInv /\ AnswerInv /\ BusyInv /\ WaitInv
    BY <1>3 DEF ChatInv, ServingInv
  <2>1. AskedInv'
    BY <1>p, <2>0 DEF AskedInv, HasRequest, Has, Waiting
  <2>2. AnswerInv'
    BY <1>p, <1>q, <2>0 DEF AnswerInv, HasRequest
  <2>5. \A d \in Clients : BeingTold(d)' <=> BeingTold(d)
    BY DEF BeingTold
  <2>7. BusyInv'
    <3> SUFFICES ASSUME NEW d \in Clients, IsBusy(clients, d), pc'[d] \notin {"start", "gone"}
                 PROVE  \/ pc'[d] \in {"direct", "leaving"} \/ Invites(queue'[d], 1)
                        \/ BeingTold(d) \/ Pending(d)
      BY <2>5 DEF BusyInv, InvitedFrom, Pending, HasRequest, Alive
    <3>1. CASE d = c
      BY <1>3, <1>p, <3>1
    <3>2. CASE d # c
      BY <1>p, <1>q, <2>0, <3>2 DEF BusyInv, InvitedFrom, Alive
    <3> QED
      BY <3>1, <3>2
  <2>8. WaitInv'
    <3> SUFFICES ASSUME NEW d \in Clients, IsBusy(clients, d), pc'[d] \in {"init", "wait_list"}
                 PROVE  Invites(queue'[d], 2) \/ BeingTold(d) \/ Pending(d)
      BY <2>5 DEF WaitInv, InvitedFrom, Pending, HasRequest
    <3>1. CASE d = c
      BY <1>p, <3>1 DEF Waiting
    <3>2. CASE d # c
      BY <1>p, <1>q, <2>0, <3>2 DEF WaitInv, InvitedFrom
    <3> QED
      BY <3>1, <3>2
  <2> QED
    BY <2>1, <2>2, <2>7, <2>8
<1> QED
  BY <1>1, <1>3 DEF ChatInv, RunningInv, ServingInv

\* The server goes down or begins to stop.
LEMMA Closing ==
    ASSUME ChatInv, TypeInv', server # "down", server' \in {"stopping", "down"},
           UNCHANGED <<clients, pc>>, server' = "stopping" => srvq' = srvq
    PROVE  ChatInv'
<1>1. server' = "stopping" => OrderInv'
  BY DEF ChatInv, RunningInv, OrderInv, HasRequest, Has, Alive
<1> QED
  BY <1>1 DEF ChatInv, RunningInv, ServingInv
------------------------------------------------------------------------------
(* The server's steps.                                                     *)

LEMMA Texts ==
    /\ \A type \in Types, from \in Clients \cup {Nobody, Server},
          text \in Clients \cup {Nobody, "DISCONNECT"} :
             /\ Message(type, from, text) \in Messages
             /\ Message(type, from, text).type = type
             /\ Message(type, from, text).from = from
    /\ \A type \in RequestTypes, from \in Clients, to \in Clients \cup {Nobody} :
             /\ Request(type, from, to) \in Requests
             /\ Request(type, from, to).type = type
             /\ Request(type, from, to).from = from
             /\ Request(type, from, to).to = to
  BY DEF Message, Messages, Request, Requests

LEMMA First ==
    ASSUME TypeInv, srvq # <<>>
    PROVE  /\ srvq \in Seq(Requests) /\ Tail(srvq) \in Seq(Requests)
           /\ Head(srvq) = srvq[1] /\ srvq[1] \in Requests /\ 1 \in DOMAIN srvq
           /\ srvq[1].from \in Clients /\ srvq[1].to \in Clients \cup {Nobody}
<1>1. srvq \in Seq(Requests)
  BY DEF TypeInv
<1>2. Tail(srvq) \in Seq(Requests) /\ Head(srvq) = srvq[1] /\ srvq[1] \in Requests /\ 1 \in DOMAIN srvq
  BY <1>1, Popped
<1> QED
  BY <1>1, <1>2 DEF Requests

LEMMA Sent ==
    ASSUME TypeInv, NEW c \in Clients, NEW m \in Messages, NEW next,
           server = "up" => srvq # <<>>, ServerSends(c, m, next)
    PROVE  /\ queue' \in [Clients -> Seq(Messages)] /\ srvq' \in Seq(Requests)
           /\ server' \in {next, "down"}
           /\ server' # "down" =>
                 /\ queue'[c] = Append(queue[c], m) /\ queue'[c] # <<>>
                 /\ \A d \in Clients \ {c} : queue'[d] = queue[d]
                 /\ srvq' = IF server = "up" THEN Tail(srvq) ELSE srvq
<1>1. /\ queue \in [Clients -> Seq(Messages)] /\ srvq \in Seq(Requests)
      /\ server = "up" => Tail(srvq) \in Seq(Requests)
  BY First DEF TypeInv
<1>2. CASE Alive(c)
  <2>1. /\ queue' = [queue EXCEPT ![c] = Append(queue[c], m)] /\ server' = next
        /\ srvq' = IF server = "up" THEN Tail(srvq) ELSE srvq
    BY <1>2 DEF ServerSends
  <2>2. Append(queue[c], m) \in Seq(Messages) /\ Append(queue[c], m) # <<>>
    BY <1>1, Pushed
  <2> QED
    BY <1>1, <2>1, <2>2
<1>3. CASE ~Alive(c)
  <2>1. server' = "down" /\ srvq' = <<>> /\ queue' = queue
    BY <1>3 DEF ServerSends, ServerExits
  <2> QED
    BY <1>1, <2>1
<1> QED
  BY <1>2, <1>3

LEMMA HandleInitPreserves ==
    ASSUME ChatInv, HandleInit
    PROVE  ChatInv'
<1> DEFINE a == srvq[1].from
           m == Message("OTHER", Server, Nobody)
<1>0. /\ TypeInv /\ OrderInv /\ server = "up" /\ srvq # <<>> /\ srvq[1].type = "INIT"
      /\ a \in Clients /\ Head(srvq) = srvq[1] /\ 1 \in DOMAIN srvq
  <2>1. server = "up" /\ srvq # <<>> /\ Head(srvq).type = "INIT"
    BY DEF HandleInit, Received
  <2> QED
    BY <2>1, First DEF ChatInv, RunningInv
<1>1. m \in Messages
  BY Texts DEF Types
<1>2. /\ clients' = Append(clients, [id |-> a, active |-> TRUE]) /\ ServerSends(a, m, "up")
      /\ UNCHANGED <<granted, told, pc, peer, buffer, typed>>
  BY <1>0 DEF HandleInit, clientVars
<1>3. ~IsListed(clients, a) /\ ~IsBusy(clients, a)
  BY <1>0 DEF OrderInv, IsListed, IsBusy
<1>4. /\ clients' \in Seq(Entries) /\ Once(clients')
      /\ \A d : /\ IsListed(clients', d) <=> IsListed(clients, d) \/ d = a
                /\ IsBusy(clients', d) <=> IsBusy(clients, d)
  <2> HIDE DEF a
  <2> QED
    BY <1>0, <1>2, <1>3, AppendedEntry DEF OrderInv
<1> HIDE DEF a, m
<1>5. /\ queue' \in [Clients -> Seq(Messages)] /\ srvq' \in Seq(Requests)
      /\ server' \in {"up", "down"}
      /\ server' # "down" => /\ queue'[a] # <<>> /\ srvq' = Tail(srvq)
                             /\ \A d \in Clients \ {a} : queue'[d] = queue[d]
  BY <1>0, <1>1, <1>2, Sent
<1>6. TypeInv'
  BY <1>0, <1>2, <1>4, <1>5 DEF TypeInv
<1>7. CASE server' = "up"
  BY <1>0, <1>2, <1>3, <1>4, <1>5, <1>6, <1>7, Popping DEF a
<1>8. CASE server' = "down"
  BY <1>6, <1>8 DEF ChatInv, RunningInv, ServingInv
<1> QED
  BY <1>5, <1>7, <1>8

\* An answer to a client that is found.
LEMMA AnswerPreserves ==
    ASSUME ChatInv, server = "up", srvq # <<>>, srvq[1].type \in {"CONNECT", "LIST"},
           NEW m \in Messages, Found(srvq[1].from), ServerSends(srvq[1].from, m, "up"),
           UNCHANGED <<clients, granted, told, clientVars, typed>>
    PROVE  ChatInv'
<1> DEFINE a == srvq[1].from
<1>0. TypeInv /\ OrderInv /\ a \in Clients /\ UNCHANGED <<pc, peer, buffer>>
  BY First DEF ChatInv, RunningInv, clientVars
<1>1. IsListed(clients, a) /\ ~IsBusy(clients, a) /\ Once(clients)
  BY <1>0, EntryOf DEF OrderInv
<1>2. Found(a) /\ ServerSends(a, m, "up")
  OBVIOUS
<1> HIDE DEF a
<1>3. /\ queue' \in [Clients -> Seq(Messages)] /\ srvq' \in Seq(Requests)
      /\ server' \in {"up", "down"}
      /\ server' # "down" => /\ queue'[a] # <<>> /\ srvq' = Tail(srvq)
                             /\ \A d \in Clients \ {a} : queue'[d] = queue[d]
  BY <1>0, <1>2, Sent
<1>4. TypeInv'
  BY <1>0, <1>3 DEF TypeInv
<1>5. CASE server' = "up"
  BY <1>0, <1>1, <1>3, <1>4, <1>5, Popping DEF a
<1>6. CASE server' = "down"
  BY <1>4, <1>6 DEF ChatInv, RunningInv, ServingInv
<1> QED
  BY <1>3, <1>5, <1>6

\* The server exits: its clients are not told.
LEMMA ExitPreserves ==
    ASSUME ChatInv, ServerExits,
           UNCHANGED <<clients, granted, told, clientVars, typed>>
    PROVE  ChatInv'
<1>1. TypeInv'
  BY DEF ServerExits, ChatInv, TypeInv, clientVars
<1> QED
  BY <1>1 DEF ServerExits, ChatInv, RunningInv, ServingInv

LEMMA RefuseConnectPreserves ==
    ASSUME ChatInv, RefuseConnect
    PROVE  ChatInv'
<1>1. server = "up" /\ srvq # <<>> /\ Head(srvq).type = "CONNECT"
  BY DEF RefuseConnect, Received
<1>2. Head(srvq) = srvq[1] /\ srvq[1].from \in Clients
  BY <1>1, First DEF ChatInv
<1>3. CASE Found(srvq[1].from)
  <2> DEFINE m == Message("CONNECT", srvq[1].from, Nobody)
  <2>1. m \in Messages
    BY <1>2, Texts DEF Types
  <2>2. ServerSends(srvq[1].from, m, "up") /\ UNCHANGED <<clients, granted, told, clientVars, typed>>
    BY <1>2, <1>3 DEF RefuseConnect
  <2> HIDE DEF m
  <2> QED
    BY <1>1, <1>2, <1>3, <2>1, <2>2, AnswerPreserves
<1>4. CASE ~Found(srvq[1].from)
  BY <1>2, <1>4, ExitPreserves DEF RefuseConnect
<1> QED
  BY <1>3, <1>4

LEMMA HandleListPreserves ==
    ASSUME ChatInv, HandleList
    PROVE  ChatInv'
<1>1. server = "up" /\ srvq # <<>> /\ Head(srvq).type = "LIST"
  BY DEF HandleList, Received
<1>2. Head(srvq) = srvq[1] /\ srvq[1].from \in Clients
  BY <1>1, First DEF ChatInv
<1>3. CASE Found(srvq[1].from)
  <2> DEFINE m == Message("OTHER", Server, Nobody)
  <2>1. m \in Messages
    BY Texts DEF Types
  <2>2. ServerSends(srvq[1].from, m, "up") /\ UNCHANGED <<clients, granted, told, clientVars, typed>>
    BY <1>2, <1>3 DEF HandleList
  <2> HIDE DEF m
  <2> QED
    BY <1>1, <1>2, <1>3, <2>1, <2>2, AnswerPreserves
<1>4. CASE ~Found(srvq[1].from)
  BY <1>2, <1>4, ExitPreserves DEF HandleList
<1> QED
  BY <1>3, <1>4

LEMMA HandleConnectPreserves ==
    ASSUME ChatInv, HandleConnect
    PROVE  ChatInv'
<1> DEFINE a == srvq[1].from
           b == srvq[1].to
           m == Message("CONNECT", Server, b)
<1>0. /\ TypeInv /\ OrderInv /\ server = "up" /\ srvq # <<>> /\ srvq[1].type = "CONNECT"
      /\ a \in Clients /\ Head(srvq) = srvq[1] /\ 1 \in DOMAIN srvq
  <2>1. server = "up" /\ srvq # <<>> /\ Head(srvq).type = "CONNECT"
    BY DEF HandleConnect, Received
  <2> QED
    BY <2>1, First DEF ChatInv, RunningInv
<1>1. b \in Clients
  BY <1>0 DEF OrderInv
<1>2. /\ clients' = SetActive(SetActive(clients, b, FALSE), a, FALSE)
      /\ ServerSends(a, m, "granting") /\ granted' = <<a, b>>
      /\ UNCHANGED <<told, pc, peer, buffer, typed>>
  BY <1>0 DEF HandleConnect, clientVars
<1>3. m \in Messages /\ m.type = "CONNECT" /\ m.from = Server
  BY <1>1, Texts DEF Types
<1>d. srvq[1].from = a
  OBVIOUS
<1> HIDE DEF a, b, m
<1>4. /\ clients' \in Seq(Entries) /\ Once(clients')
      /\ \A d : /\ IsListed(clients', d) <=> IsListed(clients, d)
                /\ d # a /\ d # b => (IsBusy(clients', d) <=> IsBusy(clients, d))
  <2> DEFINE active == FALSE
  <2>1. active \in BOOLEAN /\ clients' = SetActive(SetActive(clients, b, active), a, active)
    BY <1>2
  <2> HIDE DEF active
  <2> QED
    BY <1>0, <1>1, <2>1, SetTwoBusy DEF OrderInv
<1>5. /\ queue' \in [Clients -> Seq(Messages)] /\ srvq' \in Seq(Requests)
      /\ server' \in {"granting", "down"}
      /\ server' # "down" => /\ queue'[a] = Append(queue[a], m) /\ queue'[a] # <<>>
                             /\ srvq' = Tail(srvq)
                             /\ \A d \in Clients \ {a} : queue'[d] = queue[d]
  BY <1>0, <1>2, <1>3, Sent
<1>6. TypeInv'
  BY <1>0, <1>1, <1>2, <1>4, <1>5 DEF TypeInv
<1>7. CASE server' = "granting"
  <2>1. queue[a] \in Seq(Messages)
    BY <1>0 DEF TypeInv
  <2>2. Invites(queue'[a], 1)
    BY <1>3, <1>5, <1>7, <2>1, InvitesPushed
  <2> QED
    BY <1>0, <1>1, <1>2, <1>4, <1>5, <1>6, <1>7, <1>d, <2>2, Granting
<1>8. CASE server' = "down"
  BY <1>6, <1>8 DEF ChatInv, RunningInv, ServingInv
<1> QED
  BY <1>5, <1>7, <1>8

LEMMA TellSecondPreserves ==
    ASSUME ChatInv, TellSecond
    PROVE  ChatInv'
<1> DEFINE b == granted[2]
           m == Message("CONNECT", Server, granted[1])
<1>0. /\ TypeInv /\ server = "granting" /\ granted[1] \in Clients /\ b \in Clients
      /\ ServerSends(b, m, "up") /\ granted' = <<>>
      /\ UNCHANGED <<clients, told, pc, peer, buffer, typed>>
  BY DEF TellSecond, ChatInv, TypeInv, clientVars
<1>1. m \in Messages /\ m.type = "CONNECT" /\ m.from = Server
  BY <1>0, Texts DEF Types
<1>2. b = granted[2]
  OBVIOUS
<1> HIDE DEF b, m
<1>3. /\ queue' \in [Clients -> Seq(Messages)] /\ srvq' \in Seq(Requests)
      /\ server' \in {"up", "down"}
      /\ server' # "down" => /\ queue'[b] = Append(queue[b], m) /\ srvq' = srvq
                             /\ \A d \in Clients \ {b} : queue'[d] = queue[d]
  BY <1>0, <1>1, Sent
<1>4. TypeInv'
  BY <1>0, <1>3 DEF TypeInv
<1>5. CASE server' = "up"
  BY <1>0, <1>1, <1>2, <1>3, <1>4, <1>5, Telling
<1>6. CASE server' = "down"
  BY <1>4, <1>6 DEF ChatInv, RunningInv, ServingInv
<1> QED
  BY <1>3, <1>5, <1>6

LEMMA HandleDisconnectPreserves ==
    ASSUME ChatInv, HandleDisconnect
    PROVE  ChatInv'
<1> DEFINE a == srvq[1].from
<1>0. /\ TypeInv /\ OrderInv /\ server = "up" /\ srvq # <<>> /\ srvq[1].type = "DISCONNECT"
      /\ a \in Clients /\ Head(srvq) = srvq[1] /\ Tail(srvq) \in Seq(Requests)
  <2>1. server = "up" /\ srvq # <<>> /\ Head(srvq).type = "DISCONNECT"
    BY DEF HandleDisconnect, Received
  <2> QED
    BY <2>1, First DEF ChatInv, RunningInv
<1>1. /\ clients' = SetActive(clients, a, TRUE) /\ srvq' = Tail(srvq)
      /\ UNCHANGED <<server, granted, told, queue, pc, peer, buffer, typed>>
  BY <1>0 DEF HandleDisconnect, clientVars
<1>d. srvq[1].from = a
  OBVIOUS
<1> HIDE DEF a
<1>2. /\ clients' \in Seq(Entries) /\ Once(clients')
      /\ \A d : /\ IsListed(clients', d) <=> IsListed(clients, d)
                /\ d # a => (IsBusy(clients', d) <=> IsBusy(clients, d))
      /\ ~IsBusy(clients', a)
  <2> DEFINE active == TRUE
  <2>1. active \in BOOLEAN /\ active /\ clients' = SetActive(clients, a, active)
    BY <1>1
  <2> HIDE DEF active
  <2> QED
    BY <1>0, <2>1, SetActiveFacts DEF OrderInv
<1>3. TypeInv'
  BY <1>0, <1>1, <1>2 DEF TypeInv
<1> QED
  BY <1>0, <1>1, <1>2, <1>3, <1>d, Popping

LEMMA HandleStopPreserves ==
    ASSUME ChatInv, HandleStop
    PROVE  ChatInv'
<1> DEFINE a == srvq[1].from
<1>0. /\ TypeInv /\ OrderInv /\ server = "up" /\ srvq # <<>> /\ srvq[1].type = "STOP"
      /\ a \in Clients /\ Head(srvq) = srvq[1] /\ Tail(srvq) \in Seq(Requests)
  <2>1. server = "up" /\ srvq # <<>> /\ Head(srvq).type = "STOP"
    BY DEF HandleStop, Received
  <2> QED
    BY <2>1, First DEF ChatInv, RunningInv
<1>1. /\ clients' = LET i == Entry(a)
                    IN IF i = 0 THEN clients
                       ELSE SubSeq(clients, 1, i - 1) \o SubSeq(clients, i + 1, Len(clients))
      /\ srvq' = Tail(srvq)
      /\ UNCHANGED <<server, granted, told, queue, pc, peer, buffer, typed>>
  BY <1>0 DEF HandleStop, clientVars
<1>d. srvq[1].from = a
  OBVIOUS
<1> HIDE DEF a
<1>2. /\ clients' \in Seq(Entries) /\ Once(clients')
      /\ \A d : /\ IsListed(clients', d) <=> IsListed(clients, d) /\ d # a
                /\ IsBusy(clients', d) <=> IsBusy(clients, d) /\ d # a
  <2>1. Once(clients)
    BY <1>0 DEF OrderInv
  <2> DEFINE list == clients'
  <2>2. list = LET i == Entry(a)
               IN IF i = 0 THEN clients
                  ELSE SubSeq(clients, 1, i - 1) \o SubSeq(clients, i + 1, Len(clients))
    BY <1>1
  <2> HIDE DEF list
  <2>3. /\ list \in Seq(Entries) /\ Once(list)
        /\ \A d : /\ IsListed(list, d) <=> IsListed(clients, d) /\ d # a
                  /\ IsBusy(list, d) <=> IsBusy(clients, d) /\ d # a
    BY <1>0, <2>1, <2>2, RemovedEntry
  <2> QED
    BY <2>3 DEF list
<1>3. TypeInv'
  BY <1>0, <1>1, <1>2 DEF TypeInv
<1> QED
  BY <1>0, <1>1, <1>2, <1>3, <1>d, Popping

LEMMA StoppingPreserves ==
    ASSUME ChatInv, InterruptServer \/ TellStop
    PROVE  ChatInv'
<1>0. TypeInv
  BY DEF ChatInv
<1>1. CASE InterruptServer
  <2>1. TypeInv'
    BY <1>0, <1>1 DEF InterruptServer, TypeInv, clientVars
  <2> QED
    BY <1>1, <2>1, Closing DEF InterruptServer, clientVars
<1>2. CASE TellStop /\ told < Len(clients)
  <2> DEFINE c == clients[told + 1].id
             m == Message("STOP", Server, Nobody)
  <2>1. clients \in Seq(Entries) /\ told \in Nat /\ told + 1 \in 1 .. Len(clients)
    BY <1>0, <1>2 DEF TypeInv
  <2>2. clients[told + 1] \in Entries
    BY <2>1
  <2>3. c \in Clients /\ m \in Messages
    BY <2>2, Texts DEF Entries, Types
  <2>4. /\ server = "stopping" /\ ServerSends(c, m, "stopping") /\ told' = told + 1
        /\ UNCHANGED <<clients, granted, pc, peer, buffer, typed>>
    BY <1>2 DEF TellStop, clientVars
  <2> HIDE DEF c, m
  <2>5. /\ queue' \in [Clients -> Seq(Messages)] /\ srvq' \in Seq(Requests)
        /\ server' \in {"stopping", "down"}
        /\ server' # "down" => srvq' = srvq
    BY <1>0, <2>3, <2>4, Sent
  <2>6. TypeInv'
    BY <1>0, <2>1, <2>4, <2>5 DEF TypeInv
  <2> QED
    BY <2>4, <2>5, <2>6, Closing
<1>3. CASE TellStop /\ ~(told < Len(clients))
  BY <1>3, ExitPreserves DEF TellStop
<1> QED
  BY <1>1, <1>2, <1>3
------------------------------------------------------------------------------
(* The clients' steps.                                                     *)

LEMMA ExitTypes ==
    ASSUME TypeInv, NEW c \in Clients, ClientExits(c)
    PROVE  /\ queue' \in [Clients -> Seq(Messages)] /\ pc' \in [Clients -> Places]
           /\ peer' \in [Clients -> Clients \cup {Nobody}] /\ buffer' \in [Clients -> Headers]
           /\ \A d \in Clients : buffer'[d].type = "none" => buffer'[d] = Uninitialized
           /\ pc' = [pc EXCEPT ![c] = "gone"]
           /\ \A d \in Clients \ {c} : queue'[d] = queue[d]
<1>1. "gone" \in Places /\ Uninitialized \in Headers /\ <<>> \in Seq(Messages)
  BY DEF Places, Uninitialized, Headers
<1> QED
  BY <1>1 DEF ClientExits, TypeInv

LEMMA ExitingPreserves ==
    ASSUME ChatInv, NEW c \in Clients, pc[c] \notin {"start", "gone"}, ClientExits(c),
           UNCHANGED <<server, clients, granted, told, srvq>>, typed' \in Nat
    PROVE  ChatInv'
<1>1. TypeInv
  BY DEF ChatInv
<1>2. TypeInv'
  BY <1>1, ExitTypes DEF TypeInv
<1>3. "gone" \in Places \ (Waiting \cup {"start"})
  BY DEF Places, Waiting
<1> QED
  BY <1>1, <1>2, <1>3, ExitTypes, Staying

\* A request, and the types of what goes with it.
LEMMA AskingPreserves ==
    ASSUME ChatInv, server # "down", UNCHANGED <<server, clients, granted, told>>,
           NEW c \in Clients, NEW r \in Requests, NEW next \in Places,
           r.from = c, next # "start", pc[c] # "gone",
           pc[c] = "start" <=> r.type = "INIT",
           r.type = "STOP" => next = "gone",
           r.type \in {"INIT", "DISCONNECT"} => r.to = Nobody,
           r.type = "CONNECT" => r.to \in Clients,
           next = "init" => r.type = "INIT",
           next = "wait_list" => r.type = "LIST",
           next \in Waiting => r.type \in {"INIT", "CONNECT", "LIST"},
           srvq' = Append(srvq, r), pc' = [pc EXCEPT ![c] = next],
           \/ queue' = queue
           \/ queue[c] # <<>> /\ queue' = [queue EXCEPT ![c] = Tail(@)]
           \/ queue' = [queue EXCEPT ![c] = <<>>],
           peer' \in {peer, [peer EXCEPT ![c] = Nobody]},
           buffer' \in {buffer, [buffer EXCEPT ![c] = Uninitialized]},
           typed' \in Nat
    PROVE  ChatInv'
<1>1. TypeInv
  BY DEF ChatInv
<1>2. srvq' \in Seq(Requests) /\ pc' \in [Clients -> Places]
  BY <1>1, Pushed DEF TypeInv
<1>3. /\ queue' \in [Clients -> Seq(Messages)]
      /\ \A d \in Clients \ {c} : queue'[d] = queue[d]
  <2>1. queue \in [Clients -> Seq(Messages)] /\ <<>> \in Seq(Messages)
    BY <1>1 DEF TypeInv
  <2>2. ASSUME queue[c] # <<>> PROVE Tail(queue[c]) \in Seq(Messages)
    BY <2>1, <2>2, Popped
  <2>3. queue' \in [Clients -> Seq(Messages)]
    <3>1. CASE queue' = queue
      BY <2>1, <3>1
    <3>2. CASE queue[c] # <<>> /\ queue' = [queue EXCEPT ![c] = Tail(@)]
      BY <2>1, <2>2, <3>2
    <3>3. CASE queue' = [queue EXCEPT ![c] = <<>>]
      BY <2>1, <3>3
    <3> QED
      BY <3>1, <3>2, <3>3
  <2>4. \A d \in Clients \ {c} : queue'[d] = queue[d]
    <3>1. CASE queue' = queue
      BY <3>1
    <3>2. CASE queue[c] # <<>> /\ queue' = [queue EXCEPT ![c] = Tail(@)]
      BY <2>1, <3>2
    <3>3. CASE queue' = [queue EXCEPT ![c] = <<>>]
      BY <2>1, <3>3
    <3> QED
      BY <3>1, <3>2, <3>3
  <2> QED
    BY <2>3, <2>4
<1>4. /\ peer' \in [Clients -> Clients \cup {Nobody}] /\ buffer' \in [Clients -> Headers]
      /\ \A d \in Clients : buffer'[d].type = "none" => buffer'[d] = Uninitialized
  <2>1. /\ Uninitialized \in Headers /\ buffer \in [Clients -> Headers]
        /\ \A d \in Clients : buffer[d].type = "none" => buffer[d] = Uninitialized
    BY <1>1 DEF TypeInv, Headers, Uninitialized
  <2>2. peer' \in [Clients -> Clients \cup {Nobody}]
    BY <1>1 DEF TypeInv
  <2>3. CASE buffer' = buffer
    BY <2>1, <2>2, <2>3
  <2>4. CASE buffer' = [buffer EXCEPT ![c] = Uninitialized]
    <3>1. buffer' \in [Clients -> Headers]
      BY <2>1, <2>4
    <3>2. \A d \in Clients : buffer'[d] = buffer[d] \/ buffer'[d] = Uninitialized
      BY <2>1, <2>4
    <3> QED
      BY <2>1, <2>2, <3>1, <3>2
  <2> QED
    BY <2>3, <2>4
<1>5. TypeInv'
  BY <1>1, <1>2, <1>3, <1>4 DEF TypeInv
<1> QED
  BY <1>3, <1>5, Pushing

LEMMA AskServerPreserves ==
    ASSUME ChatInv, UNCHANGED <<server, clients, granted, told>>,
           NEW c \in Clients, NEW r \in Requests, NEW next \in Places, AskServer(c, r, next),
           r.from = c, next # "start", pc[c] # "gone", pc[c] = "start" => server # "down",
           pc[c] = "start" <=> r.type = "INIT",
           r.type # "STOP",
           r.type \in {"INIT", "DISCONNECT"} => r.to = Nobody,
           r.type = "CONNECT" => r.to \in Clients,
           next = "init" => r.type = "INIT",
           next = "wait_list" => r.type = "LIST",
           next \in Waiting => r.type \in {"INIT", "CONNECT", "LIST"},
           typed' \in Nat
    PROVE  ChatInv'
<1>1. CASE server = "down"
  BY <1>1, ExitingPreserves DEF AskServer
<1>2. CASE server # "down"
  <2>1. srvq' = Append(srvq, r) /\ pc' = [pc EXCEPT ![c] = next] /\ UNCHANGED <<queue, peer, buffer>>
    BY <1>2 DEF AskServer
  <2> QED
    BY <1>2, <2>1, AskingPreserves
<1> QED
  BY <1>1, <1>2

\* A message is taken and nothing asked.
LEMMA TakingPreserves ==
    ASSUME ChatInv, UNCHANGED <<server, clients, granted, told, srvq, typed>>,
           NEW c \in Clients, NEW next \in {"menu", "direct"}, pc[c] \notin {"start", "gone"},
           Take(c, next),
           peer' = peer \/ \E p \in Clients \cup {Nobody} : peer' = [peer EXCEPT ![c] = p],
           buffer' = buffer \/ \E h \in Headers : /\ h.type = "none" => h = Uninitialized
                                                  /\ buffer' = [buffer EXCEPT ![c] = h],
           server \in {"up", "granting"} /\ IsBusy(clients, c) =>
              \/ next = "direct" \/ Invites(Tail(queue[c]), 1)
              \/ BeingTold(c) \/ Pending(c)
    PROVE  ChatInv'
<1>1. TypeInv /\ queue[c] # <<>>
  BY DEF ChatInv, Take
<1>2. /\ Tail(queue[c]) \in Seq(Messages) /\ next \in Places
      /\ next \notin Waiting \cup {"start"}
  <2>1. queue[c] \in Seq(Messages)
    BY <1>1 DEF TypeInv
  <2> QED
    BY <1>1, <2>1, Popped DEF Places, Waiting
<1>3. /\ queue' = [queue EXCEPT ![c] = Tail(queue[c])] /\ pc' = [pc EXCEPT ![c] = next]
  BY DEF Take
<1>4. /\ queue' \in [Clients -> Seq(Messages)] /\ pc' \in [Clients -> Places]
      /\ queue'[c] = Tail(queue[c]) /\ \A d \in Clients \ {c} : queue'[d] = queue[d]
  BY <1>1, <1>2, <1>3 DEF TypeInv
<1>5. peer' \in [Clients -> Clients \cup {Nobody}]
  BY <1>1 DEF TypeInv
<1>6. /\ buffer' \in [Clients -> Headers]
      /\ \A d \in Clients : buffer'[d].type = "none" => buffer'[d] = Uninitialized
  BY <1>1 DEF TypeInv
<1>7. TypeInv'
  BY <1>1, <1>4, <1>5, <1>6 DEF TypeInv
<1> QED
  BY <1>2, <1>3, <1>4, <1>7, Staying

LEMMA FirstMessage ==
    ASSUME TypeInv, NEW c \in Clients, queue[c] # <<>>
    PROVE  /\ queue[c] \in Seq(Messages) /\ Head(queue[c]) = queue[c][1]
           /\ queue[c][1].type \in Types
           /\ queue[c][1].from \in Clients \cup {Nobody, Server}
           /\ queue[c][1].text \in Clients \cup {Nobody, "DISCONNECT"}
<1>1. queue[c] \in Seq(Messages)
  BY DEF TypeInv
<1>2. Head(queue[c]) = queue[c][1] /\ queue[c][1] \in Messages
  BY <1>1, Popped
<1> QED
  BY <1>1, <1>2 DEF Messages

LEMMA EnteringPreserves ==
    ASSUME ChatInv, UNCHANGED <<server, clients, granted, told, srvq, typed>>,
           NEW c \in Clients, pc[c] \notin {"start", "gone"},
           Take(c, "direct"), NEW text, EnterDirect(c, text)
    PROVE  ChatInv'
<1> DEFINE p == IF text \in Clients THEN text ELSE Nobody
<1>1. p \in Clients \cup {Nobody} /\ peer' = [peer EXCEPT ![c] = p]
  BY DEF EnterDirect
<1>2. /\ Uninitialized \in Headers /\ buffer' = [buffer EXCEPT ![c] = Uninitialized]
  BY DEF EnterDirect, Uninitialized, Headers
<1> HIDE DEF p
<1> QED
  BY <1>1, <1>2, TakingPreserves

LEMMA StartPreserves ==
    ASSUME ChatInv, NEW c \in Clients, Start(c)
    PROVE  ChatInv'
<1> DEFINE r == Request("INIT", c, Nobody)
<1>1. r \in Requests /\ r.type = "INIT" /\ r.from = c /\ r.to = Nobody
  BY Texts DEF RequestTypes
<1>2. AskServer(c, r, "init") /\ "init" \in Places /\ typed' \in Nat
  BY DEF Start, Places, ChatInv, TypeInv
<1>3. pc[c] = "start" /\ server # "down" /\ UNCHANGED <<server, clients, granted, told>>
  BY DEF Start, serverVars
<1> HIDE DEF r
<1> QED
  BY <1>1, <1>2, <1>3, AskServerPreserves

LEMMA TypeConnectPreserves ==
    ASSUME ChatInv, NEW c \in Clients, NEW d \in Clients, TypeConnect(c, d)
    PROVE  ChatInv'
<1> DEFINE r == Request("CONNECT", c, d)
<1>1. r \in Requests /\ r.type = "CONNECT" /\ r.from = c /\ r.to \in Clients
  BY Texts DEF RequestTypes
<1>2. AskServer(c, r, "wait_connect") /\ "wait_connect" \in Places /\ typed' \in Nat
  BY DEF TypeConnect, Typed, Places, ChatInv, TypeInv
<1>3. pc[c] = "menu" /\ UNCHANGED <<server, clients, granted, told>>
  BY DEF TypeConnect, serverVars
<1> HIDE DEF r
<1> QED
  BY <1>1, <1>2, <1>3, AskServerPreserves

LEMMA TypeListPreserves ==
    ASSUME ChatInv, NEW c \in Clients, TypeList(c)
    PROVE  ChatInv'
<1> DEFINE r == Request("LIST", c, Nobody)
<1>1. r \in Requests /\ r.type = "LIST" /\ r.from = c
  BY Texts DEF RequestTypes
<1>2. AskServer(c, r, "wait_list") /\ "wait_list" \in Places /\ typed' \in Nat
  BY DEF TypeList, Typed, Places, ChatInv, TypeInv
<1>3. pc[c] = "menu" /\ UNCHANGED <<server, clients, granted, told>>
  BY DEF TypeList, serverVars
<1> HIDE DEF r
<1> QED
  BY <1>1, <1>2, <1>3, AskServerPreserves

LEMMA TypeStopPreserves ==
    ASSUME ChatInv, NEW c \in Clients, TypeStop(c)
    PROVE  ChatInv'
<1> DEFINE r == Request("DISCONNECT", c, Nobody)
<1>1. r \in Requests /\ r.type = "DISCONNECT" /\ r.from = c /\ r.to = Nobody
  BY Texts DEF RequestTypes
<1>2. AskServer(c, r, "stopping") /\ "stopping" \in Places \ Waiting /\ typed' \in Nat
  BY DEF TypeStop, Typed, Places, Waiting, ChatInv, TypeInv
<1>3. pc[c] = "menu" /\ UNCHANGED <<server, clients, granted, told>>
  BY DEF TypeStop, serverVars
<1> HIDE DEF r
<1> QED
  BY <1>1, <1>2, <1>3, AskServerPreserves DEF Waiting

LEMMA StopsPreserves ==
    ASSUME ChatInv, NEW c \in Clients, Stops(c)
    PROVE  ChatInv'
<1> DEFINE r == Request("STOP", c, Nobody)
<1>1. r \in Requests /\ r.type = "STOP" /\ r.from = c
  BY Texts DEF RequestTypes
<1>2. /\ pc[c] = "stopping" /\ UNCHANGED <<server, clients, granted, told>>
      /\ "gone" \in Places \ Waiting /\ typed' \in Nat
  BY DEF Stops, serverVars, Places, Waiting, ChatInv, TypeInv
<1>3. ClientExits(c) /\ srvq' = IF server # "down" THEN Append(srvq, r) ELSE srvq
  BY DEF Stops
<1> HIDE DEF r
<1>4. CASE server = "down"
  BY <1>2, <1>3, <1>4, ExitingPreserves
<1>5. CASE server # "down"
  <2>1. /\ pc' = [pc EXCEPT ![c] = "gone"] /\ queue' = [queue EXCEPT ![c] = <<>>]
        /\ peer' \in {peer, [peer EXCEPT ![c] = Nobody]}
        /\ buffer' \in {buffer, [buffer EXCEPT ![c] = Uninitialized]}
        /\ srvq' = Append(srvq, r)
    BY <1>3, <1>5 DEF ClientExits
  <2> QED
    BY <1>1, <1>2, <1>5, <2>1, AskingPreserves
<1> QED
  BY <1>4, <1>5

LEMMA LeavesPreserves ==
    ASSUME ChatInv, NEW c \in Clients, Leaves(c)
    PROVE  ChatInv'
<1> DEFINE r == Request("DISCONNECT", c, Nobody)
<1>1. r \in Requests /\ r.type = "DISCONNECT" /\ r.from = c /\ r.to = Nobody
  BY Texts DEF RequestTypes
<1>2. /\ pc[c] = "leaving" /\ UNCHANGED <<server, clients, granted, told>>
      /\ "menu" \in Places \ Waiting /\ typed' \in Nat
  BY DEF Leaves, serverVars, Places, Waiting, ChatInv, TypeInv
<1>4. CASE server = "down"
  BY <1>2, <1>4, ExitingPreserves DEF Leaves
<1>5. CASE server # "down"
  <2>1. /\ pc' = [pc EXCEPT ![c] = "menu"] /\ queue' = queue
        /\ peer' \in {peer, [peer EXCEPT ![c] = Nobody]}
        /\ buffer' \in {buffer, [buffer EXCEPT ![c] = Uninitialized]}
        /\ srvq' = Append(srvq, r)
    BY <1>5 DEF Leaves
  <2> HIDE DEF r
  <2> QED
    BY <1>1, <1>2, <1>5, <2>1, AskingPreserves
<1> QED
  BY <1>4, <1>5

LEMMA InterruptPreserves ==
    ASSUME ChatInv, NEW c \in Clients, Interrupt(c)
    PROVE  ChatInv'
  BY ExitingPreserves DEF Interrupt, Waiting, serverVars, ChatInv, TypeInv

\* What is left of an invitation behind the message taken.
LEMMA StillInvited ==
    ASSUME ChatInv, server \in {"up", "granting"}, NEW c \in Clients, queue[c] # <<>>,
           IsBusy(clients, c),
           \/ pc[c] \in {"init", "wait_list"}
           \/ /\ pc[c] \in {"menu", "wait_connect"}
              /\ ~(queue[c][1].type = "CONNECT" /\ queue[c][1].from = Server)
    PROVE  Invites(Tail(queue[c]), 1) \/ BeingTold(c) \/ Pending(c)
<1>1. /\ BusyInv /\ WaitInv /\ queue[c] \in Seq(Messages)
      /\ Alive(c)
  BY DEF ChatInv, ServingInv, TypeInv, Alive
<1>2. CASE pc[c] \in {"init", "wait_list"}
  BY <1>1, <1>2, InvitesPopped DEF WaitInv, InvitedFrom
<1>3. CASE pc[c] \in {"menu", "wait_connect"}
  BY <1>1, <1>3, InvitesPopped DEF BusyInv, InvitedFrom
<1> QED
  BY <1>2, <1>3

LEMMA InitializedPreserves ==
    ASSUME ChatInv, NEW c \in Clients, Initialized(c)
    PROVE  ChatInv'
  BY StillInvited, TakingPreserves DEF Initialized, Take, serverVars

LEMMA ListAnsweredPreserves ==
    ASSUME ChatInv, NEW c \in Clients, ListAnswered(c)
    PROVE  ChatInv'
  BY StillInvited, TakingPreserves DEF ListAnswered, Take, serverVars

LEMMA ConnectAnsweredPreserves ==
    ASSUME ChatInv, NEW c \in Clients, ConnectAnswered(c)
    PROVE  ChatInv'
<1>1. /\ pc[c] = "wait_connect" /\ queue[c] # <<>>
      /\ UNCHANGED <<server, clients, granted, told, srvq, typed>>
  BY DEF ConnectAnswered, serverVars
<1>2. Head(queue[c]) = queue[c][1]
  BY <1>1, FirstMessage DEF ChatInv
<1>3. CASE queue[c][1].from = c
  <2>1. Take(c, "menu") /\ UNCHANGED <<peer, buffer>>
    BY <1>2, <1>3 DEF ConnectAnswered
  <2>2. queue[c][1].from # Server
    BY <1>3, ChatAssumption
  <2> QED
    BY <1>1, <2>1, <2>2, StillInvited, TakingPreserves
<1>4. CASE queue[c][1].from # c
  <2>1. Take(c, "direct") /\ EnterDirect(c, queue[c][1].text)
    BY <1>2, <1>4 DEF ConnectAnswered
  <2> QED
    BY <1>1, <2>1, EnteringPreserves
<1> QED
  BY <1>3, <1>4

LEMMA MenuReceivesPreserves ==
    ASSUME ChatInv, NEW c \in Clients, MenuReceives(c)
    PROVE  ChatInv'
<1> DEFINE m == queue[c][1]
           r == Request("DISCONNECT", c, Nobody)
<1>1. /\ pc[c] = "menu" /\ queue[c] # <<>> /\ UNCHANGED <<server, clients, granted, told, typed>>
      /\ typed' \in Nat /\ Head(queue[c]) = m
  BY FirstMessage DEF MenuReceives, serverVars, ChatInv, TypeInv
<1>2. r \in Requests /\ r.type = "DISCONNECT" /\ r.from = c /\ r.to = Nobody
  BY Texts DEF RequestTypes
<1>3. CASE m.type = "CONNECT"
  <2>1. Take(c, "direct") /\ EnterDirect(c, m.text) /\ srvq' = srvq
    BY <1>1, <1>3 DEF MenuReceives
  <2> HIDE DEF m
  <2> QED
    BY <1>1, <2>1, EnteringPreserves
<1>4. CASE m.type = "STOP" /\ server # "down"
  <2>1. /\ Take(c, "stopping") /\ srvq' = Append(srvq, r) /\ UNCHANGED <<peer, buffer>>
    BY <1>1, <1>4 DEF MenuReceives
  <2>2. "stopping" \in Places \ Waiting
    BY DEF Places, Waiting
  <2> HIDE DEF r
  <2> QED
    BY <1>1, <1>2, <1>4, <2>1, <2>2, AskingPreserves DEF Take
<1>5. CASE m.type = "STOP" /\ server = "down"
  BY <1>1, <1>5, ExitingPreserves DEF MenuReceives
<1>6. CASE m.type \notin {"CONNECT", "STOP"}
  <2>1. Take(c, "menu") /\ UNCHANGED <<srvq, peer, buffer>>
    BY <1>1, <1>6 DEF MenuReceives
  <2> QED
    BY <1>1, <1>6, <2>1, StillInvited, TakingPreserves
<1> QED
  BY <1>3, <1>4, <1>5, <1>6

LEMMA DirectReceivesPreserves ==
    ASSUME ChatInv, NEW c \in Clients, DirectReceives(c)
    PROVE  ChatInv'
<1> DEFINE m == queue[c][1]
           r == Request("DISCONNECT", c, Nobody)
<1>1. /\ pc[c] = "direct" /\ queue[c] # <<>> /\ UNCHANGED <<server, clients, granted, told, typed>>
      /\ typed' \in Nat /\ Head(queue[c]) = m
      /\ m.type \in Types /\ m.from \in Clients \cup {Nobody, Server}
  BY FirstMessage DEF DirectReceives, serverVars, ChatInv, TypeInv
<1>2. r \in Requests /\ r.type = "DISCONNECT" /\ r.from = c /\ r.to = Nobody
  BY Texts DEF RequestTypes
<1>3. CASE m.text = "DISCONNECT" /\ server # "down"
  <2>1. /\ Take(c, "menu") /\ srvq' = Append(srvq, r)
        /\ peer' = [peer EXCEPT ![c] = Nobody] /\ buffer' = [buffer EXCEPT ![c] = Uninitialized]
    BY <1>1, <1>3 DEF DirectReceives
  <2>2. "menu" \in Places \ Waiting
    BY DEF Places, Waiting
  <2> HIDE DEF r
  <2> QED
    BY <1>1, <1>2, <1>3, <2>1, <2>2, AskingPreserves DEF Take
<1>4. CASE m.text = "DISCONNECT" /\ server = "down"
  BY <1>1, <1>4, ExitingPreserves DEF DirectReceives
<1>5. CASE m.text # "DISCONNECT"
  <2> DEFINE h == [type |-> m.type, from |-> m.from]
  <2>1. Take(c, "direct") /\ buffer' = [buffer EXCEPT ![c] = h] /\ UNCHANGED <<srvq, peer>>
    BY <1>1, <1>5 DEF DirectReceives
  <2>2. h \in Headers /\ h.type # "none"
    BY <1>1 DEF Headers, Types
  <2> HIDE DEF h
  <2> QED
    BY <1>1, <2>1, <2>2, TakingPreserves
<1> QED
  BY <1>3, <1>4, <1>5

LEMMA TypeLinePreserves ==
    ASSUME ChatInv, NEW c \in Clients, NEW text \in {Nobody, "DISCONNECT"}, TypeLine(c, text)
    PROVE  ChatInv'
<1>1. /\ TypeInv /\ pc[c] = "direct" /\ UNCHANGED <<server, clients, granted, told, srvq>>
      /\ typed' \in Nat
  BY DEF TypeLine, Typed, serverVars, ChatInv, TypeInv
<1>2. PICK h \in Header(c) :
        IF h.type # "invalid" /\ peer[c] # Nobody /\ Alive(peer[c])
          THEN /\ queue' = [queue EXCEPT ![peer[c]] = Append(@, Message(h.type, h.from, text))]
               /\ pc' = [pc EXCEPT ![c] = IF text = "DISCONNECT" THEN "leaving" ELSE "direct"]
               /\ buffer' = [buffer EXCEPT ![c] = h]
               /\ UNCHANGED peer
          ELSE ClientExits(c)
  BY DEF TypeLine
<1>3. CASE h.type # "invalid" /\ peer[c] # Nobody /\ Alive(peer[c])
  <2> DEFINE p == peer[c]
             m == Message(h.type, h.from, text)
             next == IF text = "DISCONNECT" THEN "leaving" ELSE "direct"
  <2>1. h.type \in Types /\ h.from \in Clients \cup {Nobody, Server}
    <3>0. peer[c] \in Clients \cup {Nobody}
      BY <1>1 DEF TypeInv
    <3>1. CASE buffer[c] = Uninitialized
      <4>1. h \in [type : Types \cup {"invalid"}, from : {Nobody, peer[c]}]
        BY <3>1 DEF Header
      <4> QED
        BY <1>3, <3>0, <4>1
    <3>2. CASE buffer[c] # Uninitialized
      <4>1. h = buffer[c] /\ buffer[c] \in Headers /\ buffer[c].type # "none"
        BY <1>1, <3>2 DEF Header, TypeInv
      <4> QED
        BY <4>1 DEF Headers
    <3> QED
      BY <3>1, <3>2
  <2>2. m \in Messages
    BY <2>1, Texts
  <2>3. p \in Clients /\ p = peer[c]
    BY <1>1, <1>3 DEF TypeInv
  <2>4. next \in {"direct", "leaving"} /\ next \in Places /\ next \notin Waiting \cup {"start"}
    BY DEF Places, Waiting
  <2>5. /\ queue' = [queue EXCEPT ![p] = Append(queue[p], m)] /\ pc' = [pc EXCEPT ![c] = next]
        /\ buffer' = [buffer EXCEPT ![c] = h] /\ UNCHANGED peer
    BY <1>2, <1>3
  <2>6. h \in Headers /\ h.type # "none"
    <3>1. CASE buffer[c] = Uninitialized
      <4>1. h \in [type : Types \cup {"invalid"}, from : {Nobody, peer[c]}]
        BY <3>1 DEF Header
      <4> QED
        BY <2>1, <4>1 DEF Headers, Types
    <3>2. CASE buffer[c] # Uninitialized
      BY <1>1, <3>2 DEF Header, TypeInv
    <3> QED
      BY <3>1, <3>2
  <2> HIDE DEF m, p, next
  <2>7. queue[p] \in Seq(Messages) /\ Append(queue[p], m) \in Seq(Messages)
    <3>1. queue[p] \in Seq(Messages)
      BY <1>1, <2>3 DEF TypeInv
    <3> QED
      BY <2>2, <3>1, Pushed
  <2>8. /\ queue' \in [Clients -> Seq(Messages)]
        /\ \A d \in Clients : queue'[d] = queue[d] \/ queue'[d] = Append(queue[d], m)
    BY <1>1, <2>3, <2>5, <2>7 DEF TypeInv
  <2>9. /\ pc' \in [Clients -> Places] /\ buffer' \in [Clients -> Headers]
        /\ \A d \in Clients : buffer'[d].type = "none" => buffer'[d] = Uninitialized
    BY <1>1, <2>4, <2>5, <2>6 DEF TypeInv
  <2>10. TypeInv'
    BY <1>1, <2>5, <2>8, <2>9 DEF TypeInv
  <2> QED
    BY <1>1, <2>2, <2>4, <2>5, <2>8, <2>10, Staying
<1>4. CASE ~(h.type # "invalid" /\ peer[c] # Nobody /\ Alive(peer[c]))
  BY <1>1, <1>2, <1>4, ExitingPreserves
<1> QED
  BY <1>3, <1>4
------------------------------------------------------------------------------
(* The results.                                                            *)

LEMMA ChatInvInductive == Spec => []ChatInv
<1>1. Init => ChatInv
  <2> SUFFICES ASSUME Init PROVE ChatInv
    OBVIOUS
  <2>1. TypeInv
    BY ChatAssumption DEF Init, TypeInv, Places, Headers, Uninitialized
  <2>2. OrderInv
    BY DEF Init, OrderInv, Once, IsListed, Alive
  <2>3. AskedInv /\ AnswerInv /\ BusyInv /\ WaitInv
    BY DEF Init, AskedInv, AnswerInv, BusyInv, WaitInv, Waiting, Alive
  <2> QED
    BY <2>1, <2>2, <2>3 DEF ChatInv, RunningInv, ServingInv
<1>2. ChatInv /\ [Next]_vars => ChatInv'
  <2> SUFFICES ASSUME ChatInv, [Next]_vars PROVE ChatInv'
    OBVIOUS
  <2>1. CASE ServerStep
    BY <2>1, HandleInitPreserves, HandleConnectPreserves, TellSecondPreserves,
       RefuseConnectPreserves, HandleListPreserves, HandleDisconnectPreserves,
       HandleStopPreserves, StoppingPreserves DEF ServerStep
  <2>2. ASSUME NEW c \in Clients, ClientStep(c)
        PROVE  ChatInv'
    BY <2>2, InitializedPreserves, MenuReceivesPreserves, ListAnsweredPreserves,
       ConnectAnsweredPreserves, DirectReceivesPreserves, LeavesPreserves, StopsPreserves
       DEF ClientStep
  <2>3. ASSUME NEW c \in Clients, UserTypes(c)
        PROVE  ChatInv'
    BY <2>3, TypeConnectPreserves, TypeListPreserves, TypeStopPreserves, TypeLinePreserves
       DEF UserTypes
  <2>4. ASSUME NEW c \in Clients, Start(c) \/ Interrupt(c)
        PROVE  ChatInv'
    BY <2>4, StartPreserves, InterruptPreserves
  <2>5. CASE UNCHANGED vars
    <3>1. UNCHANGED <<server, clients, granted, told, srvq, queue, pc, peer, buffer, typed>>
      BY <2>5 DEF vars
    <3>2. TypeInv'
      BY <3>1 DEF ChatInv, TypeInv
    <3>3. OrderInv => OrderInv'
      BY <3>1 DEF OrderInv, HasRequest, Alive
    <3>4. AskedInv /\ AnswerInv /\ BusyInv /\ WaitInv => AskedInv' /\ AnswerInv' /\ BusyInv' /\ WaitInv'
      BY <3>1 DEF AskedInv, AnswerInv, BusyInv, WaitInv, HasRequest, InvitedFrom, BeingTold,
                  Pending, Alive
    <3> QED
      BY <3>1, <3>2, <3>3, <3>4 DEF ChatInv, RunningInv, ServingInv
  <2> QED
    BY <2>1, <2>2, <2>3, <2>4, <2>5 DEF Next
<1> QED
  BY <1>1, <1>2, PTL DEF Spec

LEMMA RequestIs ==
    ASSUME TypeInv, NEW j \in DOMAIN srvq
    PROVE  srvq[j] = Request(srvq[j].type, srvq[j].from, srvq[j].to)
<1>1. srvq[j] \in Requests
  BY DEF TypeInv
<1> QED
  BY <1>1 DEF Requests, Request

\* For every set of clients: as long as the server runs, it lists a client once,
\* and finds in its list the sender of each request it takes -- no handler is
\* called for a client the server does not know.
THEOREM SendersAreListedTheorem == Spec => []SendersAreListed
<1>1. ChatInv => SendersAreListed
  <2> SUFFICES ASSUME ChatInv, server # "down" PROVE SendersAreListed
    BY DEF SendersAreListed
  <2>1. TypeInv /\ OrderInv /\ DOMAIN srvq = 1 .. Len(srvq) /\ Len(srvq) \in Nat
    BY DEF ChatInv, RunningInv, TypeInv
  <2>2. \A c : Entry(c) # 0 <=> IsListed(clients, c)
    BY <2>1, EntryOf DEF OrderInv
  <2>3. ASSUME NEW i \in DOMAIN srvq, srvq[i].type = "INIT"
        PROVE  Entry(srvq[i].from) = 0
    BY <2>1, <2>2, <2>3 DEF OrderInv
  <2>4. ASSUME NEW i \in DOMAIN srvq, srvq[i].type # "INIT"
        PROVE  \/ Entry(srvq[i].from) # 0
               \/ \E j \in 1 .. i - 1 : srvq[j] = Request("INIT", srvq[i].from, Nobody)
    <3>1. CASE IsListed(clients, srvq[i].from)
      BY <2>2, <3>1
    <3>2. CASE ~IsListed(clients, srvq[i].from)
      <4>1. PICK j \in 1 .. i : srvq[j].type = "INIT" /\ srvq[j].from = srvq[i].from
        BY <2>1, <3>2 DEF OrderInv
      <4>2. j # i /\ j \in 1 .. i - 1 /\ j \in DOMAIN srvq
        BY <2>1, <2>4, <4>1
      <4>3. srvq[j].to = Nobody
        BY <2>1, <4>1, <4>2 DEF OrderInv
      <4>4. srvq[j] = Request("INIT", srvq[i].from, Nobody)
        BY <2>1, <4>1, <4>2, <4>3, RequestIs
      <4> QED
        BY <4>2, <4>4
    <3> QED
      BY <3>1, <3>2
  <2>5. \A i, j \in DOMAIN clients : clients[i].id = clients[j].id => i = j
    BY <2>1 DEF OrderInv, Once
  <2> QED
    BY <2>3, <2>4, <2>5 DEF SendersAreListed
<1> QED
  BY <1>1, ChatInvInductive, PTL

\* For every set of clients: the server holds a running client busy only while
\* its session lasts, is about to begin or to end, or while a request of its is
\* on the way that the server cannot answer.
THEOREM BusyHasReasonTheorem == Spec => []BusyHasReason
<1>1. ChatInv => BusyHasReason
  <2> SUFFICES ASSUME ChatInv, server \in {"up", "granting"},
                      NEW i \in DOMAIN clients, NEW c, c = clients[i].id,
                      ~clients[i].active, Alive(c)
               PROVE  \/ pc[c] \in {"direct", "leaving"}
                      \/ \E j \in DOMAIN queue[c] :
                           queue[c][j].type = "CONNECT" /\ queue[c][j].from = Server
                      \/ granted # <<>> /\ granted[2] = c
                      \/ \E j \in DOMAIN srvq : srvq[j] = Request("DISCONNECT", c, Nobody)
                      \/ \E j \in DOMAIN srvq : srvq[j].from = c /\ FromBusy(j)
    BY DEF BusyHasReason
  <2>1. TypeInv /\ OrderInv /\ BusyInv
    BY DEF ChatInv, RunningInv, ServingInv
  <2>2. c \in Clients
    <3>1. clients[i] \in Entries
      BY <2>1 DEF TypeInv
    <3> QED
      BY <3>1 DEF Entries
  <2>3. IsBusy(clients, c) /\ IsListed(clients, c)
    BY DEF IsBusy, IsListed
  <2>4. ~Found(c) /\ Entry(c) # 0
    BY <2>1, <2>3, EntryOf DEF OrderInv
  <2>5. pc[c] \in {"direct", "leaving"} \/ InvitedFrom(c, 1) \/ BeingTold(c) \/ Pending(c)
    BY <2>1, <2>2, <2>3 DEF BusyInv
  <2>6. CASE InvitedFrom(c, 1)
    BY <2>6 DEF InvitedFrom, Invites
  <2>7. CASE BeingTold(c)
    <3>1. PICK a \in Clients, b \in Clients : granted = <<a, b>>
      BY <2>1, <2>7 DEF BeingTold, TypeInv
    <3>2. granted # <<>>
      <4>1. Len(granted) = 2 /\ 2 # 0
        BY <3>1
      <4>2. Len(<<>>) = 0
        OBVIOUS
      <4> QED
        BY <4>1, <4>2, Zenon
    <3> QED
      BY <2>7, <3>2 DEF BeingTold
  <2>8. CASE Pending(c)
    <3>1. PICK j \in DOMAIN srvq : srvq[j].from = c /\ srvq[j].type \in {"CONNECT", "LIST", "DISCONNECT"}
      BY <2>8 DEF Pending, HasRequest, Has
    <3>2. CASE srvq[j].type = "DISCONNECT"
      <4>1. srvq[j].to = Nobody
        BY <2>1, <3>2 DEF OrderInv
      <4>2. srvq[j] = Request("DISCONNECT", c, Nobody)
        BY <2>1, <3>1, <3>2, <4>1, RequestIs
      <4> QED
        BY <4>2
    <3>3. CASE srvq[j].type # "DISCONNECT" /\ \A k \in DOMAIN srvq : srvq[k] # Request("DISCONNECT", c, Nobody)
      <4>1. \A k \in 1 .. j - 1 : k \in DOMAIN srvq
        BY <2>1 DEF TypeInv
      <4>2. FromBusy(j)
        BY <2>4, <3>1, <3>3, <4>1 DEF FromBusy
      <4> QED
        BY <3>1, <4>2
    <3> QED
      BY <3>2, <3>3
  <2> QED
    BY <2>5, <2>6, <2>7, <2>8
<1> QED
  BY <1>1, ChatInvInductive, PTL

\* For every set of clients: while the server serves, a client that waits has an
\* answer in its queue or a request that the server has still to take.
THEOREM AnswerIsComingTheorem == Spec => []AnswerIsComing
<1>1. ChatInv => AnswerIsComing
  BY DEF ChatInv, ServingInv, AnswerInv, HasRequest, Has, AnswerIsComing
<1> QED
  BY <1>1, ChatInvInductive, PTL
==============================================================================
