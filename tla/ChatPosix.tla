------------------------------ MODULE ChatPosix ------------------------------
(***************************************************************************)
(* lab06 over POSIX message queues.  The protocol is that of ChatSysV, the *)
(* queues are not: a queue holds MAX_QUEUE_SIZE messages and a send waits  *)
(* for room; the server replies with the type as priority, so a later      *)
(* reply of a higher type is received first; and a queue that is unlinked  *)
(* still takes messages from those who have it open, the server's included.*)
(*                                                                         *)
(* The server opens the queues of the clients by name, which fails and     *)
(* ends it if the client is gone; it never looks whether a client is       *)
(* listed or busy.  Each send is a step of its own.                        *)
(***************************************************************************)
EXTENDS Integers, Sequences

CONSTANTS Clients,          \* process ids
          MAX_QUEUE_SIZE,
          MaxCommands       \* bound: lines typed by all users together

Nobody == "nobody"
Server == "server"

ASSUME ChatPosixAssumption ==
    /\ MAX_QUEUE_SIZE \in Nat \ {0} /\ MaxCommands \in Nat
    /\ Nobody \notin Clients /\ Server \notin Clients

VARIABLES server,    \* "up", "stopping" (SIGINT) or "down"
          clients,   \* the server's list
          told,      \* while "stopping": how many clients have been dealt with
          srvq,      \* the public queue
          queue,     \* each client's queue, in the order of reception
          out,       \* what each process is about to send, in order
          pc,        \* where each client is once that is sent
          peer,      \* the queue a client in direct_connection writes to
          buffer,    \* its local message: uninitialized until it receives
          missed,    \* history: an invitation was taken for another answer
          typed      \* lines typed so far

serverVars == <<server, clients, told>>
clientVars == <<pc, peer, buffer, missed>>
vars == <<server, clients, told, srvq, queue, out, pc, peer, buffer, missed, typed>>

\* A request: the type, the sender and the queue id typed.  A message to a
\* client: its priority too, and of the text the key of a queue, DISCONNECT or
\* anything else (Nobody).
Request(type, from, id) == [type |-> type, from |-> from, text |-> id]
Message(prio, type, from, text) ==
    [prio |-> prio, type |-> type, from |-> from, text |-> text]
Send(to, m) == [to |-> to, m |-> m]
Uninitialized == [type |-> "none", from |-> Nobody]

\* The priorities of the server's replies; chat lines have 0.
INIT == 1
CONNECT == 2
LIST == 3
STOP == 5

Alive(c) == pc[c] \notin {"start", "gone"}
Waiting == {"init", "wait_list", "wait_connect"}

Init ==
    /\ server = "up" /\ clients = <<>> /\ told = 0
    /\ srvq = <<>>
    /\ queue = [c \in Clients |-> <<>>]
    /\ out = [p \in Clients \cup {Server} |-> <<>>]
    /\ pc = [c \in Clients |-> "start"]
    /\ peer = [c \in Clients |-> Nobody]
    /\ buffer = [c \in Clients |-> Uninitialized]
    /\ missed = [c \in Clients |-> FALSE]
    /\ typed = 0
------------------------------------------------------------------------------
\* mq_send to a client: behind all messages of its priority or a higher one.
Enqueue(q, m) ==
    LET n == CHOOSE k \in 0 .. Len(q) :
               /\ \A i \in 1 .. k : q[i].prio >= m.prio
               /\ \A i \in k + 1 .. Len(q) : q[i].prio < m.prio
    IN SubSeq(q, 1, n) \o <<m>> \o SubSeq(q, n + 1, Len(q))

\* The next message of a process goes out as soon as there is room for it.
MqSend(p) ==
    /\ out[p] # <<>>
    /\ LET s == Head(out[p])
       IN IF s.to = Server
            THEN /\ Len(srvq) < MAX_QUEUE_SIZE
                 /\ srvq' = Append(srvq, s.m) /\ UNCHANGED queue
            ELSE /\ Len(queue[s.to]) < MAX_QUEUE_SIZE
                 /\ queue' = [queue EXCEPT ![s.to] = Enqueue(@, s.m)]
                 /\ UNCHANGED srvq
    /\ out' = [out EXCEPT ![p] = Tail(@)]
    /\ UNCHANGED <<serverVars, clientVars, typed>>

Sends(p, messages) == out' = [out EXCEPT ![p] = messages]
------------------------------------------------------------------------------
(* The server.                                                             *)

\* The first entry of a client: 0 if there is none.
Entry(c) ==
    IF \E i \in DOMAIN clients : clients[i].id = c
      THEN CHOOSE i \in DOMAIN clients :
             clients[i].id = c /\ \A j \in 1 .. i - 1 : clients[j].id # c
      ELSE 0
SetActive(list, c, active) ==
    IF Entry(c) = 0 THEN list ELSE [list EXCEPT ![Entry(c)].active = active]

\* The server is back in its loop and receives a request.
Receives(type) ==
    /\ server = "up" /\ out[Server] = <<>>
    /\ srvq # <<>> /\ Head(srvq).type = type
    /\ srvq' = Tail(srvq)

\* mq_open of clients' queues, then the sends; one that is gone ends the server,
\* which leaves the public queue to those who have it open.
OpenAndSend(names, messages) ==
    IF \A c \in names : Alive(c)
      THEN Sends(Server, messages) /\ UNCHANGED server
      ELSE server' = "down" /\ UNCHANGED out

HandleInit ==
    /\ Receives("INIT")
    /\ LET c == Head(srvq).from
       IN /\ clients' = IF Alive(c) THEN Append(clients, [id |-> c, active |-> TRUE])
                        ELSE clients
          /\ OpenAndSend({c}, <<Send(c, Message(INIT, "INIT", Server, Nobody))>>)
    /\ UNCHANGED <<told, queue, clientVars, typed>>

\* Faulty variant: the client that asked is not told.
HandleConnectOne ==
    /\ Receives("CONNECT")
    /\ LET a == Head(srvq).from
           b == Head(srvq).text
       IN /\ clients' = SetActive(SetActive(clients, a, FALSE), b, FALSE)
          /\ OpenAndSend({a, b}, <<Send(b, Message(CONNECT, "CONNECT", Server, a))>>)
    /\ UNCHANGED <<told, queue, clientVars, typed>>

\* Both become busy, whatever they were; the target is told before the client
\* that asked.
HandleConnect ==
    /\ Receives("CONNECT")
    /\ LET a == Head(srvq).from
           b == Head(srvq).text
       IN /\ clients' = SetActive(SetActive(clients, a, FALSE), b, FALSE)
          /\ OpenAndSend({a, b},
                         <<Send(b, Message(CONNECT, "CONNECT", Server, a)),
                           Send(a, Message(CONNECT, "CONNECT", Server, b))>>)
    /\ UNCHANGED <<told, queue, clientVars, typed>>

\* The reply goes out under the name of the client that asked.
HandleList ==
    /\ Receives("LIST")
    /\ LET c == Head(srvq).from
       IN OpenAndSend({c}, <<Send(c, Message(LIST, "LIST", c, Nobody))>>)
    /\ UNCHANGED <<clients, told, queue, clientVars, typed>>

HandleDisconnect ==
    /\ Receives("DISCONNECT")
    /\ clients' = SetActive(clients, Head(srvq).from, TRUE)
    /\ UNCHANGED <<server, told, queue, out, clientVars, typed>>

\* Faulty variant: the entry after the one found is removed.
HandleStopNext ==
    /\ Receives("STOP")
    /\ LET i == Entry(Head(srvq).from)
       IN clients' = SubSeq(clients, 1, i) \o SubSeq(clients, i + 2, Len(clients))
    /\ UNCHANGED <<server, told, queue, out, clientVars, typed>>

\* handle_stop: removeclient.
HandleStop ==
    /\ Receives("STOP")
    /\ LET i == Entry(Head(srvq).from)
       IN clients' = IF i = 0 THEN clients
                     ELSE SubSeq(clients, 1, i - 1)
                            \o SubSeq(clients, i + 1, Len(clients))
    /\ UNCHANGED <<server, told, queue, out, clientVars, typed>>

\* SIGINT, also while a handler has still to send: STOP to each listed client
\* in turn, then exit.
InterruptServer ==
    /\ server = "up"
    /\ server' = "stopping"
    /\ Sends(Server, <<>>)
    /\ UNCHANGED <<clients, told, srvq, queue, clientVars, typed>>

TellStop ==
    /\ server = "stopping" /\ out[Server] = <<>>
    /\ IF told < Len(clients)
         THEN LET c == clients[told + 1].id
              IN /\ OpenAndSend({c}, <<Send(c, Message(STOP, "STOP", Server, Nobody))>>)
                 /\ told' = told + 1
         ELSE server' = "down" /\ UNCHANGED <<told, out>>
    /\ UNCHANGED <<clients, srvq, queue, clientVars, typed>>
------------------------------------------------------------------------------
(* A client.  It does nothing else while it has something to send.         *)

At(c, place) == pc[c] = place /\ out[c] = <<>>
Goes(c, place) == pc' = [pc EXCEPT ![c] = place]
Receive(c) == queue[c] # <<>> /\ queue' = [queue EXCEPT ![c] = Tail(@)]

\* exit: atexit unlinks the client's queue; those who have it open keep it.
ClientExits(c) ==
    /\ Goes(c, "gone")
    /\ Sends(c, <<>>)
    /\ peer' = [peer EXCEPT ![c] = Nobody]
    /\ buffer' = [buffer EXCEPT ![c] = Uninitialized]
    /\ missed' = [missed EXCEPT ![c] = FALSE]

\* A message of the wrong kind is taken for the answer: is it an invitation?
Answered(c) ==
    missed' = [missed EXCEPT
                 ![c] = @ \/ (Head(queue[c]).type = "CONNECT"
                              /\ Head(queue[c]).from = Server)]

ToServer(type, c, id) == Send(Server, Request(type, c, id))
Typed == typed < MaxCommands /\ typed' = typed + 1

\* A client that finds no public queue exits before it has one of its own.
Start(c) ==
    /\ pc[c] = "start" /\ server # "down"
    /\ Goes(c, "init")
    /\ Sends(c, <<ToServer("INIT", c, Nobody)>>)
    /\ UNCHANGED <<serverVars, srvq, queue, peer, buffer, missed, typed>>

\* init and list take the first message for the answer, whatever it is.
TakesAnswer(c) ==
    /\ At(c, "init") \/ At(c, "wait_list")
    /\ Receive(c) /\ Answered(c)
    /\ Goes(c, "menu")
    /\ UNCHANGED <<serverVars, srvq, out, peer, buffer, typed>>

\* Faulty variant: a text that is no key is opened all the same.
EnterDirectUnparsed(c, text) ==
    /\ Goes(c, "direct")
    /\ peer' = [peer EXCEPT ![c] = text]
    /\ buffer' = [buffer EXCEPT ![c] = Uninitialized]
    /\ missed' = [missed EXCEPT ![c] = FALSE]

\* direct_connection: mq_open of the peer's queue is not checked.
EnterDirect(c, text) ==
    /\ Goes(c, "direct")
    /\ peer' = [peer EXCEPT ![c] = IF text \in Clients /\ Alive(text) THEN text
                                   ELSE Nobody]
    /\ buffer' = [buffer EXCEPT ![c] = Uninitialized]
    /\ missed' = [missed EXCEPT ![c] = FALSE]

Stop(c) ==
    /\ Goes(c, "stopping")
    /\ Sends(c, <<ToServer("DISCONNECT", c, Nobody), ToServer("STOP", c, Nobody)>>)
    /\ UNCHANGED <<peer, buffer, missed>>

\* The menu's loop: an invitation, the server's STOP, or something dropped.
MenuReceives(c) ==
    /\ At(c, "menu") /\ Receive(c)
    /\ LET m == Head(queue[c])
       IN \/ m.type = "CONNECT" /\ EnterDirect(c, m.text) /\ UNCHANGED out
          \/ m.type = "STOP" /\ Stop(c)
          \/ m.type \notin {"CONNECT", "STOP"} /\ UNCHANGED <<out, clientVars>>
    /\ UNCHANGED <<serverVars, srvq, typed>>

TypeConnect(c, d) ==
    /\ At(c, "menu") /\ Typed
    /\ Goes(c, "wait_connect")
    /\ Sends(c, <<ToServer("CONNECT", c, d)>>)
    /\ UNCHANGED <<serverVars, srvq, queue, peer, buffer, missed>>

TypeList(c) ==
    /\ At(c, "menu") /\ Typed
    /\ Goes(c, "wait_list")
    /\ Sends(c, <<ToServer("LIST", c, Nobody)>>)
    /\ UNCHANGED <<serverVars, srvq, queue, peer, buffer, missed>>

TypeStop(c) ==
    /\ At(c, "menu") /\ Typed
    /\ Stop(c)
    /\ UNCHANGED <<serverVars, srvq, queue>>

\* stop() has sent its two messages: exit.
Stops(c) ==
    /\ At(c, "stopping")
    /\ ClientExits(c)
    /\ UNCHANGED <<serverVars, srvq, queue, typed>>

\* connect: an answer under the own process id, which is how the server answers
\* LIST, is taken for a refusal.
ConnectAnswered(c) ==
    /\ At(c, "wait_connect") /\ Receive(c)
    /\ LET m == Head(queue[c])
       IN IF m.from = c THEN Goes(c, "menu") /\ UNCHANGED <<peer, buffer, missed>>
          ELSE EnterDirect(c, m.text)
    /\ UNCHANGED <<serverVars, srvq, out, typed>>

\* Faulty variant: the server is not told.
EndsSessionSilently(c, messages) ==
    /\ Goes(c, "menu")
    /\ Sends(c, SelectSeq(messages, LAMBDA s : s.to # Server))
    /\ peer' = [peer EXCEPT ![c] = Nobody]
    /\ buffer' = [buffer EXCEPT ![c] = Uninitialized]
    /\ UNCHANGED missed

\* The end of direct_connection: SIGINT counts again when all is sent.
EndsSession(c, messages) ==
    /\ Goes(c, "leaving")
    /\ Sends(c, messages)
    /\ peer' = [peer EXCEPT ![c] = Nobody]
    /\ buffer' = [buffer EXCEPT ![c] = Uninitialized]
    /\ UNCHANGED missed

Leaves(c) ==
    /\ At(c, "leaving")
    /\ Goes(c, "menu")
    /\ UNCHANGED <<serverVars, srvq, queue, out, peer, buffer, missed, typed>>

\* A DISCONNECT ends the connection, anything else is shown.
DirectReceives(c) ==
    /\ At(c, "direct") /\ Receive(c)
    /\ LET m == Head(queue[c])
       IN IF m.text = "DISCONNECT"
            THEN EndsSession(c, <<ToServer("DISCONNECT", c, Nobody)>>)
            ELSE /\ buffer' = [buffer EXCEPT ![c] = [type |-> m.type, from |-> m.from]]
                 /\ UNCHANGED <<out, pc, peer, missed>>
    /\ UNCHANGED <<serverVars, srvq, typed>>

\* What the buffer's header holds when a line is sent: anything, before the
\* first message is received into it.
Header(c) ==
    IF buffer[c] = Uninitialized
      THEN [type : {"CONNECT", "STOP", "OTHER"}, from : {Nobody, peer[c]}]
      ELSE {buffer[c]}

TypeLine(c, text) ==
    /\ At(c, "direct") /\ Typed
    /\ IF peer[c] = Nobody THEN ClientExits(c)
       ELSE \E h \in Header(c) :
              LET line == Send(peer[c], Message(0, h.type, h.from, text))
              IN IF text = "DISCONNECT"
                   THEN EndsSession(c, <<line, ToServer("DISCONNECT", c, Nobody)>>)
                   ELSE /\ Sends(c, <<line>>)
                        /\ buffer' = [buffer EXCEPT ![c] = h]
                        /\ UNCHANGED <<pc, peer, missed>>
    /\ UNCHANGED <<serverVars, srvq, queue>>

\* SIGINT, which direct_connection ignores: exit, and the server not told.
Interrupt(c) ==
    /\ pc[c] \in Waiting \cup {"menu", "stopping"}
    /\ ClientExits(c)
    /\ UNCHANGED <<serverVars, srvq, queue, typed>>
------------------------------------------------------------------------------
ServerStep ==
    \/ HandleInit \/ HandleConnect \/ HandleList \/ HandleDisconnect \/ HandleStop
    \/ InterruptServer \/ TellStop

ClientStep(c) ==
    \/ Start(c) \/ TakesAnswer(c) \/ MenuReceives(c) \/ ConnectAnswered(c)
    \/ DirectReceives(c) \/ Leaves(c) \/ Stops(c) \/ Interrupt(c)

UserTypes(c) ==
    \/ \E d \in Clients : TypeConnect(c, d)
    \/ TypeList(c) \/ TypeStop(c)
    \/ \E text \in {Nobody, "DISCONNECT"} : TypeLine(c, text)

Next ==
    \/ \E p \in DOMAIN out : MqSend(p)
    \/ ServerStep
    \/ \E c \in Clients : ClientStep(c) \/ UserTypes(c)

Spec == Init /\ [][Next]_vars
------------------------------------------------------------------------------
Messages(q, types, from) ==
    {i \in DOMAIN q : q[i].type \in types /\ q[i].from = from}
Sending(p, to, types) == \E i \in DOMAIN out[p] :
                           out[p][i].to = to /\ out[p][i].m.type \in types

TypeOK ==
    /\ server \in {"up", "stopping", "down"}
    /\ clients \in Seq([id : Clients, active : BOOLEAN])
    /\ told \in Nat
    /\ Len(srvq) <= MAX_QUEUE_SIZE
    /\ \A c \in Clients :
         /\ Len(queue[c]) <= MAX_QUEUE_SIZE
         /\ \A i \in 1 .. Len(queue[c]) - 1 : queue[c][i].prio >= queue[c][i + 1].prio
    /\ pc \in [Clients -> Waiting \cup {"start", "menu", "direct", "leaving",
                                        "stopping", "gone"}]
    /\ peer \in [Clients -> Clients \cup {Nobody}]
    /\ missed \in [Clients -> BOOLEAN]
    /\ typed \in 0 .. MaxCommands

\* While the server runs, a client is listed once, and every request in the
\* public queue comes from a client that is listed or whose INIT is ahead of it:
\* removeclient shifts the list while requests of others wait.
SendersAreListed ==
    server = "up" =>
      /\ \A i, j \in DOMAIN clients : clients[i].id = clients[j].id => i = j
      /\ \A i \in DOMAIN srvq :
           LET c == srvq[i].from
           IN IF srvq[i].type = "INIT" THEN Entry(c) = 0
              ELSE \/ Entry(c) # 0
                   \/ \E j \in 1 .. i - 1 : srvq[j] = Request("INIT", c, Nobody)

\* While the server runs, a client that waits in mq_receive with an empty queue
\* has a request, or its answer, on the way: whatever overtakes what in the
\* queue, no wait is left without a message to end it.
AnswerIsComing ==
    server = "up" =>
      \A c \in Clients :
        (At(c, "init") \/ At(c, "wait_list") \/ At(c, "wait_connect")) =>
          \/ queue[c] # <<>>
          \/ Messages(srvq, {"INIT", "CONNECT", "LIST"}, c) # {}
          \/ Sending(Server, c, {"INIT", "CONNECT", "LIST"})

\* A running client is busy for the server only while it is connected, while its
\* invitation or its DISCONNECT is on the way, or after init or list has taken
\* the invitation for its answer.
BusyHasReason ==
    server = "up" =>
      \A i \in DOMAIN clients :
        LET c == clients[i].id
        IN (~clients[i].active /\ Alive(c)) =>
             \/ pc[c] = "direct" \/ missed[c]
             \/ Messages(queue[c], {"CONNECT"}, Server) # {}
             \/ Sending(Server, c, {"CONNECT"})
             \/ Sending(c, Server, {"DISCONNECT"})
             \/ Messages(srvq, {"DISCONNECT"}, c) # {}
==============================================================================
