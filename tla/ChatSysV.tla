------------------------------ MODULE ChatSysV -------------------------------
(***************************************************************************)
(* lab06 over System V message queues: a server that keeps the list of     *)
(* clients and pairs them, and clients that then write into each other's   *)
(* queue.                                                                  *)
(*                                                                         *)
(* A queue is named by its owner and exists while the owner runs: a send   *)
(* to a queue that does not exist ends the sender (the MSGSND macro).      *)
(* Queues have no capacity here, and each send is a step, except that      *)
(* stop()'s last send goes with the exit that follows.                     *)
(***************************************************************************)
EXTENDS Integers, Sequences

CONSTANTS Clients,       \* process ids
          MaxCommands    \* bound: lines typed by all users together

VARIABLES server,    \* "up", "granting", "stopping" (SIGINT) or "down"
          clients,   \* the server's list
          granted,   \* between the two sends of handle_connect: the pair
          told,      \* while "stopping": how many clients have been sent STOP
          srvq,      \* the public queue
          queue,     \* each client's queue
          pc,        \* where each client is
          peer,      \* the queue a client in direct_connection writes to
          buffer,    \* its local message: uninitialized until it receives
          typed      \* lines typed so far

serverVars == <<server, clients, granted, told>>
clientVars == <<pc, peer, buffer>>
vars == <<server, clients, granted, told, srvq, queue, pc, peer, buffer, typed>>

Nobody == "nobody"      \* a text that is no queue id; no process id
Server == "server"

ASSUME ChatAssumption ==
    MaxCommands \in Nat /\ Nobody \notin Clients /\ Server \notin Clients

\* What a client tells apart: the type, the sender, and of the text whether it
\* is DISCONNECT or else which queue id strtol reads in it.
Types == {"CONNECT", "STOP", "OTHER"}
Message(type, from, text) == [type |-> type, from |-> from, text |-> text]
Request(type, from, to) == [type |-> type, from |-> from, to |-> to]
Uninitialized == [type |-> "none", from |-> Nobody]

Alive(c) == pc[c] \notin {"start", "gone"}
Waiting == {"init", "wait_list", "wait_connect"}

Init ==
    /\ server = "up" /\ clients = <<>> /\ granted = <<>> /\ told = 0
    /\ srvq = <<>>
    /\ queue = [c \in Clients |-> <<>>]
    /\ pc = [c \in Clients |-> "start"]
    /\ peer = [c \in Clients |-> Nobody]
    /\ buffer = [c \in Clients |-> Uninitialized]
    /\ typed = 0
------------------------------------------------------------------------------
(* The server.                                                             *)

\* The first entry of a client, busy or not: 0 if there is none.
Entry(c) ==
    IF \E i \in DOMAIN clients : clients[i].id = c
      THEN CHOOSE i \in DOMAIN clients :
             clients[i].id = c /\ \A j \in 1 .. i - 1 : clients[j].id # c
      ELSE 0
SetActive(list, c, active) ==
    IF Entry(c) = 0 THEN list ELSE [list EXCEPT ![Entry(c)].active = active]
\* find: a queue to write to, if the client is listed and not busy.
Found(c) == Entry(c) # 0 /\ clients[Entry(c)].active

\* exit: atexit removes the public queue; clients are not told.
ServerExits ==
    /\ server' = "down" /\ srvq' = <<>>
    /\ UNCHANGED queue

\* MSGSND to a client's queue: without the queue the server exits.
ServerSends(c, m, next) ==
    IF Alive(c)
      THEN /\ queue' = [queue EXCEPT ![c] = Append(@, m)]
           /\ server' = next
           /\ srvq' = IF server = "up" THEN Tail(srvq) ELSE srvq
      ELSE ServerExits

Received(type) == server = "up" /\ srvq # <<>> /\ Head(srvq).type = type

HandleInit ==
    /\ Received("INIT")
    /\ LET c == Head(srvq).from
       IN /\ clients' = Append(clients, [id |-> c, active |-> TRUE])
          /\ ServerSends(c, Message("OTHER", Server, Nobody), "up")
    /\ UNCHANGED <<granted, told, clientVars, typed>>

\* Two idle clients become busy and each is sent the other's queue, the one
\* that asked first.
HandleConnect ==
    /\ Received("CONNECT")
    /\ LET a == Head(srvq).from
           b == Head(srvq).to
       IN /\ Found(a) /\ Found(b)
          /\ clients' = SetActive(SetActive(clients, b, FALSE), a, FALSE)
          /\ ServerSends(a, Message("CONNECT", Server, b), "granting")
          /\ granted' = <<a, b>>
    /\ UNCHANGED <<told, clientVars, typed>>

TellSecond ==
    /\ server = "granting"
    /\ ServerSends(granted[2], Message("CONNECT", Server, granted[1]), "up")
    /\ granted' = <<>>
    /\ UNCHANGED <<clients, told, clientVars, typed>>

\* Faulty variant: nothing is sent back for a client that is not found.
RefuseConnectSilently ==
    /\ Received("CONNECT")
    /\ LET a == Head(srvq).from
       IN IF Found(a)
            THEN /\ ~Found(Head(srvq).to)
                 /\ srvq' = Tail(srvq) /\ UNCHANGED <<server, queue>>
            ELSE ServerExits
    /\ UNCHANGED <<clients, granted, told, clientVars, typed>>

\* A client that cannot be connected: the request goes back as it came, to the
\* queue of the sender, which find does not give if the sender is busy itself.
RefuseConnect ==
    /\ Received("CONNECT")
    /\ LET a == Head(srvq).from
       IN IF Found(a)
            THEN /\ ~Found(Head(srvq).to)
                 /\ ServerSends(a, Message("CONNECT", a, Nobody), "up")
            ELSE ServerExits
    /\ UNCHANGED <<clients, granted, told, clientVars, typed>>

HandleList ==
    /\ Received("LIST")
    /\ LET c == Head(srvq).from
       IN IF Found(c)
            THEN ServerSends(c, Message("OTHER", Server, Nobody), "up")
            ELSE ServerExits
    /\ UNCHANGED <<clients, granted, told, clientVars, typed>>

HandleDisconnect ==
    /\ Received("DISCONNECT")
    /\ clients' = SetActive(clients, Head(srvq).from, TRUE)
    /\ srvq' = Tail(srvq)
    /\ UNCHANGED <<server, granted, told, queue, clientVars, typed>>

\* Faulty variant: the entry after the one found is removed.
HandleStopNext ==
    /\ Received("STOP")
    /\ LET i == Entry(Head(srvq).from)
       IN clients' = SubSeq(clients, 1, i) \o SubSeq(clients, i + 2, Len(clients))
    /\ srvq' = Tail(srvq)
    /\ UNCHANGED <<server, granted, told, queue, clientVars, typed>>

\* handle_stop: removeclient.
HandleStop ==
    /\ Received("STOP")
    /\ LET i == Entry(Head(srvq).from)
       IN clients' = IF i = 0 THEN clients
                     ELSE SubSeq(clients, 1, i - 1)
                            \o SubSeq(clients, i + 1, Len(clients))
    /\ srvq' = Tail(srvq)
    /\ UNCHANGED <<server, granted, told, queue, clientVars, typed>>

\* SIGINT, also between the two sends of handle_connect: STOP to each listed
\* client in turn, then exit.  A client that is gone cuts this short.
InterruptServer ==
    /\ server \in {"up", "granting"}
    /\ server' = "stopping" /\ granted' = <<>>
    /\ UNCHANGED <<clients, told, srvq, queue, clientVars, typed>>

TellStop ==
    /\ server = "stopping"
    /\ IF told < Len(clients)
         THEN /\ ServerSends(clients[told + 1].id, Message("STOP", Server, Nobody),
                             "stopping")
              /\ told' = told + 1
         ELSE ServerExits /\ UNCHANGED told
    /\ UNCHANGED <<clients, granted, clientVars, typed>>
------------------------------------------------------------------------------
(* A client.                                                               *)

\* exit: atexit removes the client's queue.
ClientExits(c) ==
    /\ pc' = [pc EXCEPT ![c] = "gone"]
    /\ queue' = [queue EXCEPT ![c] = <<>>]
    /\ peer' = [peer EXCEPT ![c] = Nobody]
    /\ buffer' = [buffer EXCEPT ![c] = Uninitialized]

\* MSGSND to the public queue.
AskServer(c, request, next) ==
    IF server # "down"
      THEN /\ srvq' = Append(srvq, request)
           /\ pc' = [pc EXCEPT ![c] = next]
           /\ UNCHANGED <<queue, peer, buffer>>
      ELSE ClientExits(c) /\ UNCHANGED srvq

\* A line arrives on the standard input.
Typed == typed < MaxCommands /\ typed' = typed + 1

\* A client that finds no public queue exits before it has one of its own.
Start(c) ==
    /\ pc[c] = "start" /\ server # "down"
    /\ AskServer(c, Request("INIT", c, Nobody), "init")
    /\ UNCHANGED <<serverVars, typed>>

\* Take the head of the own queue, whatever it is.
Take(c, next) ==
    /\ queue[c] # <<>>
    /\ queue' = [queue EXCEPT ![c] = Tail(@)]
    /\ pc' = [pc EXCEPT ![c] = next]

EnterDirect(c, text) ==
    /\ peer' = [peer EXCEPT ![c] = IF text \in Clients THEN text ELSE Nobody]
    /\ buffer' = [buffer EXCEPT ![c] = Uninitialized]

Initialized(c) ==
    /\ pc[c] = "init"
    /\ Take(c, "menu")
    /\ UNCHANGED <<serverVars, srvq, peer, buffer, typed>>

\* The menu's loop: an invitation, the server's STOP, or something that is
\* read and dropped.
MenuReceives(c) ==
    /\ pc[c] = "menu" /\ queue[c] # <<>>
    /\ LET m == Head(queue[c])
       IN \/ /\ m.type = "CONNECT"
             /\ Take(c, "direct") /\ EnterDirect(c, m.text)
             /\ UNCHANGED srvq
          \/ /\ m.type = "STOP" /\ server # "down"
             /\ Take(c, "stopping")
             /\ srvq' = Append(srvq, Request("DISCONNECT", c, Nobody))
             /\ UNCHANGED <<peer, buffer>>
          \/ /\ m.type = "STOP" /\ server = "down"
             /\ ClientExits(c) /\ UNCHANGED srvq
          \/ /\ m.type \notin {"CONNECT", "STOP"}
             /\ Take(c, "menu") /\ UNCHANGED <<srvq, peer, buffer>>
    /\ UNCHANGED <<serverVars, typed>>

TypeConnect(c, d) ==
    /\ pc[c] = "menu" /\ Typed
    /\ AskServer(c, Request("CONNECT", c, d), "wait_connect")
    /\ UNCHANGED serverVars

TypeList(c) ==
    /\ pc[c] = "menu" /\ Typed
    /\ AskServer(c, Request("LIST", c, Nobody), "wait_list")
    /\ UNCHANGED serverVars

TypeStop(c) ==
    /\ pc[c] = "menu" /\ Typed
    /\ AskServer(c, Request("DISCONNECT", c, Nobody), "stopping")
    /\ UNCHANGED serverVars

\* stop(): its second message, and exit.
Stops(c) ==
    /\ pc[c] = "stopping"
    /\ ClientExits(c)
    /\ srvq' = IF server # "down" THEN Append(srvq, Request("STOP", c, Nobody))
               ELSE srvq
    /\ UNCHANGED <<serverVars, typed>>

\* list: the first message in the queue is the answer.
ListAnswered(c) ==
    /\ pc[c] = "wait_list"
    /\ Take(c, "menu")
    /\ UNCHANGED <<serverVars, srvq, peer, buffer, typed>>

\* connect: an answer with the own process id is the request come back.
ConnectAnswered(c) ==
    /\ pc[c] = "wait_connect" /\ queue[c] # <<>>
    /\ LET m == Head(queue[c])
       IN IF m.from = c
            THEN Take(c, "menu") /\ UNCHANGED <<peer, buffer>>
            ELSE Take(c, "direct") /\ EnterDirect(c, m.text)
    /\ UNCHANGED <<serverVars, srvq, typed>>

\* direct_connection: a DISCONNECT ends it, anything else is shown.
DirectReceives(c) ==
    /\ pc[c] = "direct" /\ queue[c] # <<>>
    /\ LET m == Head(queue[c])
       IN IF m.text = "DISCONNECT"
            THEN IF server # "down"
                   THEN /\ Take(c, "menu")
                        /\ srvq' = Append(srvq, Request("DISCONNECT", c, Nobody))
                        /\ peer' = [peer EXCEPT ![c] = Nobody]
                        /\ buffer' = [buffer EXCEPT ![c] = Uninitialized]
                   ELSE ClientExits(c) /\ UNCHANGED srvq
            ELSE /\ Take(c, "direct")
                 /\ buffer' = [buffer EXCEPT ![c] = [type |-> m.type, from |-> m.from]]
                 /\ UNCHANGED <<srvq, peer>>
    /\ UNCHANGED <<serverVars, typed>>

\* What the buffer's header holds when a line is sent: anything, before the
\* first message is received into it.  A type that is not positive makes
\* msgsnd fail; the sender is only ever compared with the receiver's.
Header(c) ==
    IF buffer[c] = Uninitialized
      THEN [type : Types \cup {"invalid"}, from : {Nobody, peer[c]}]
      ELSE {buffer[c]}

TypeLine(c, text) ==
    /\ pc[c] = "direct" /\ Typed
    /\ \E h \in Header(c) :
         IF h.type # "invalid" /\ peer[c] # Nobody /\ Alive(peer[c])
           THEN /\ queue' = [queue EXCEPT ![peer[c]] =
                               Append(@, Message(h.type, h.from, text))]
                /\ pc' = [pc EXCEPT ![c] = IF text = "DISCONNECT" THEN "leaving"
                                                                  ELSE "direct"]
                /\ buffer' = [buffer EXCEPT ![c] = h]
                /\ UNCHANGED peer
           ELSE ClientExits(c)
    /\ UNCHANGED <<serverVars, srvq>>

\* Faulty variant: only the peer is told.
LeavesSilently(c) ==
    /\ pc[c] = "leaving"
    /\ pc' = [pc EXCEPT ![c] = "menu"]
    /\ peer' = [peer EXCEPT ![c] = Nobody]
    /\ UNCHANGED <<serverVars, srvq, queue, buffer, typed>>

\* The peer has been told, now the server.
Leaves(c) ==
    /\ pc[c] = "leaving"
    /\ IF server # "down"
         THEN /\ srvq' = Append(srvq, Request("DISCONNECT", c, Nobody))
              /\ pc' = [pc EXCEPT ![c] = "menu"]
              /\ peer' = [peer EXCEPT ![c] = Nobody]
              /\ buffer' = [buffer EXCEPT ![c] = Uninitialized]
              /\ UNCHANGED queue
         ELSE ClientExits(c) /\ UNCHANGED srvq
    /\ UNCHANGED <<serverVars, typed>>

\* SIGINT, which direct_connection ignores: exit, and the server not told.
Interrupt(c) ==
    /\ pc[c] \in Waiting \cup {"menu", "stopping"}
    /\ ClientExits(c)
    /\ UNCHANGED <<serverVars, srvq, typed>>
------------------------------------------------------------------------------
ServerStep ==
    \/ HandleInit \/ HandleConnect \/ TellSecond \/ RefuseConnect
    \/ HandleList \/ HandleDisconnect \/ HandleStop
    \/ InterruptServer \/ TellStop

\* What a client does without its user.
ClientStep(c) ==
    \/ Initialized(c) \/ MenuReceives(c) \/ ListAnswered(c) \/ ConnectAnswered(c)
    \/ DirectReceives(c) \/ Leaves(c) \/ Stops(c)

UserTypes(c) ==
    \/ \E d \in Clients : TypeConnect(c, d)
    \/ TypeList(c) \/ TypeStop(c)
    \/ \E text \in {Nobody, "DISCONNECT"} : TypeLine(c, text)

Next ==
    \/ ServerStep
    \/ \E c \in Clients : Start(c) \/ ClientStep(c) \/ UserTypes(c) \/ Interrupt(c)

Spec == Init /\ [][Next]_vars
------------------------------------------------------------------------------
\* A request the server will handle while its sender is busy.
FromBusy(i) ==
    LET c == srvq[i].from
    IN /\ srvq[i].type \in {"CONNECT", "LIST"}
       /\ ~Found(c) /\ Entry(c) # 0
       /\ \A j \in 1 .. i - 1 : srvq[j] # Request("DISCONNECT", c, Nobody)

\* While the server runs, a client is listed once, and every request in the
\* public queue comes from a client that is listed or whose INIT is ahead of the
\* request: find fails for a sender only because it is busy.
SendersAreListed ==
    server # "down" =>
      /\ \A i, j \in DOMAIN clients : clients[i].id = clients[j].id => i = j
      /\ \A i \in DOMAIN srvq :
           LET c == srvq[i].from
           IN IF srvq[i].type = "INIT" THEN Entry(c) = 0
              ELSE \/ Entry(c) # 0
                   \/ \E j \in 1 .. i - 1 : srvq[j] = Request("INIT", c, Nobody)

\* A running client is busy for the server only while its session lasts: it is
\* connected, its invitation is on the way or its DISCONNECT is -- or it has
\* asked something meanwhile, which is going to end the server.
BusyHasReason ==
    server \in {"up", "granting"} =>
      \A i \in DOMAIN clients :
        LET c == clients[i].id
        IN (~clients[i].active /\ Alive(c)) =>
             \/ pc[c] \in {"direct", "leaving"}
             \/ \E j \in DOMAIN queue[c] :
                  queue[c][j].type = "CONNECT" /\ queue[c][j].from = Server
             \/ granted # <<>> /\ granted[2] = c
             \/ \E j \in DOMAIN srvq : srvq[j] = Request("DISCONNECT", c, Nobody)
             \/ \E j \in DOMAIN srvq : srvq[j].from = c /\ FromBusy(j)

\* While the server runs, a client that waits with an empty queue has a request
\* that the server has still to answer: no path through the handlers, the two
\* sends of handle_connect included, leaves a request without an answer.
AnswerIsComing ==
    server \in {"up", "granting"} =>
      \A c \in Clients :
        (pc[c] \in Waiting /\ queue[c] = <<>>) =>
          \E i \in DOMAIN srvq :
            srvq[i].from = c /\ srvq[i].type \in {"INIT", "CONNECT", "LIST"}
==============================================================================
