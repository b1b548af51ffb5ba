--------------------------- MODULE TicTacToeServer ---------------------------
(***************************************************************************)
(* lab10 over TCP: the table of clients and the threads that use it.  An   *)
(* acceptor per connection reads the client's name and enters it into the  *)
(* table under clients_mutex; if another client waits there, the acceptor  *)
(* goes on to play the game of the two (TicTacToe, here only what frees    *)
(* the slots).  The pinger writes to every taken slot and reads an answer  *)
(* under the slot's own mutex, as a game does to ask for a move.           *)
(* disconnect_client takes no lock at all.                                 *)
(*                                                                         *)
(* Descriptors are numbers that accept uses again once they are closed.  A *)
(* write to a client that has exited is lost or, at the latest the second  *)
(* time, raises SIGPIPE and ends the server.                               *)
(***************************************************************************)
EXTENDS Integers, Sequences, FiniteSets, FiniteSetsExt

CONSTANTS Conns,            \* connections, each of a client process
          Names,
          MAX_CLIENT_COUNT,
          NoConn            \* no connection, no slot, no player

ASSUME TableAssumption ==
    /\ MAX_CLIENT_COUNT \in Nat \ {0}
    /\ IsFiniteSet(Conns) /\ Conns \cap {NoConn, "pinger"} = {}

VARIABLES server,        \* "up" or "down"
          clients,       \* the table
          clients_mutex, \* the connection whose acceptor holds it
          slot_mutex,    \* who holds clients[i].mutex: an acceptor or "pinger"
          thread,        \* where the acceptor of each connection is
          game,          \* the slots of the game it plays, the turn; between the two
                         \* steps of disconnect_client for that slot
          fd,            \* descriptor of each connection, -1 when it has none
          pinger,        \* the slot it is at, what it does, the type it sends
          client,        \* the client process of each connection
          name,          \* the name it has given
          reset,         \* a write to the client after its exit was lost
          toServer,            \* what is on the way, in pieces of eight bytes
          toClient             \* messages on the way that have an effect

tableVars  == <<clients, clients_mutex>>
clientVars == <<client, name, toServer>>
vars == <<server, clients, clients_mutex, slot_mutex, thread, game, fd, pinger,
          client, name, reset, toServer, toClient>>

Slots == 0 .. MAX_CLIENT_COUNT - 1
NoGame == [slots |-> <<>>, turn |-> 0, closing |-> FALSE]

Init ==
    /\ server = "up"
    /\ clients = [i \in Slots |-> [taken |-> FALSE, playing |-> FALSE,
                                   name |-> NoConn, socket_fd |-> -1]]
    /\ clients_mutex = NoConn
    /\ slot_mutex = [i \in Slots |-> NoConn]
    /\ thread = [c \in Conns |-> "none"]
    /\ game = [c \in Conns |-> NoGame]
    /\ fd = [c \in Conns |-> -1]
    /\ pinger = [slot |-> 0, at |-> "next", type |-> "PING"]
    /\ client = [c \in Conns |-> "off"]
    /\ name = [c \in Conns |-> NoConn]
    /\ reset = [c \in Conns |-> FALSE]
    /\ toServer = [c \in Conns |-> <<>>]
    /\ toClient = [c \in Conns |-> <<>>]
------------------------------------------------------------------------------
(* The client process.  The model ends with the server.                    *)

\* A message is three pieces of eight bytes and its type is in the last; a client
\* answers with the first only.
Data == "data"
Message(type) == <<Data, Data, type>>
Reply == <<Data>>

\* Lost if the server has closed the connection.
Sends(c, pieces) ==
    toServer' = IF fd[c] = -1 /\ thread[c] # "none" THEN toServer
                ELSE [toServer EXCEPT ![c] = @ \o pieces]

\* exit: handle_async_disconnect writes MSG_DISCONNECT and closes the socket.
Exits(c) ==
    /\ client' = [client EXCEPT ![c] = "gone"]
    /\ Sends(c, Message("DISCONNECT"))
    /\ toClient' = [toClient EXCEPT ![c] = <<>>]

serverVars == <<server, tableVars, slot_mutex, thread, game, fd, pinger, reset>>

\* A client that gets SIGINT before it has written its name sends MSG_DISCONNECT
\* as its first message.
Connect(c, n) ==
    /\ client[c] = "off" /\ server = "up"
    /\ name' = [name EXCEPT ![c] = n]
    /\ \/ /\ client' = [client EXCEPT ![c] = "on"]
          /\ toServer' = [toServer EXCEPT ![c] = Message("CONNECT")]
          /\ UNCHANGED toClient
       \/ Exits(c)
    /\ UNCHANGED serverVars

\* The messages that make a client act; a type it does not expect ends it.
Handle(c) ==
    /\ server = "up" /\ client[c] = "on" /\ toClient[c] # <<>>
    /\ LET type == Head(toClient[c])
       IN \/ /\ type \in {"PING", "MOVE"}
             /\ Sends(c, Reply)
             /\ toClient' = [toClient EXCEPT ![c] = Tail(@)]
             /\ UNCHANGED client
          \/ type \in {"DISCONNECT", "END", "CONNECT"} /\ Exits(c)
    /\ UNCHANGED <<serverVars, name>>

\* SIGINT, or the end of the program's input.
Interrupt(c) ==
    /\ server = "up" /\ client[c] = "on"
    /\ Exits(c)
    /\ UNCHANGED <<serverVars, name>>
------------------------------------------------------------------------------
(* Descriptors.                                                            *)

Open(f) == {c \in Conns : fd[c] = f /\ f # -1}
LowestFree == Min({f \in 0 .. Cardinality(Conns) : Open(f) = {}})

\* Messages a client only prints are not kept.
Printed == {"NAME_TAKEN", "WAITING", "START", "UPDATE"}

\* write of a message of this type to each of the descriptors in fs.
Write(fs, type) ==
    LET to   == UNION {Open(f) : f \in fs}
        gone == {c \in to : client[c] # "on"}
    IN \/ /\ \A c \in gone : ~reset[c]
          /\ toClient' = [c \in Conns |-> IF c \in to \ gone /\ type \notin Printed
                                            THEN Append(toClient[c], type)
                                            ELSE toClient[c]]
          /\ reset' = [c \in Conns |-> reset[c] \/ c \in gone]
          /\ UNCHANGED server
       \/ /\ gone # {}
          /\ server' = "down"
          /\ UNCHANGED <<toClient, reset>>

\* read(f, &msg, sizeof(msg)) takes what is there, three pieces at most: Then is
\* told the type that msg has now.  It is the old one unless there were three; a
\* piece of data in the type's place may be any, here one that a client goes on with
\* and one that ends it.  After the end of the stream nothing is read.
Read(f, old, Then(_)) ==
    \/ \E c \in Open(f) :
         LET q == toServer[c]
         IN /\ q # <<>>
            /\ toServer' = [toServer EXCEPT ![c] = SubSeq(q, 4, Len(q))]
            /\ \/ Len(q) < 3 /\ Then(old)
               \/ Len(q) >= 3 /\ q[3] # Data /\ Then(q[3])
               \/ /\ Len(q) >= 3 /\ q[3] = Data
                  /\ \E type \in {"PING", "DISCONNECT"} : Then(type)
    \/ /\ \A c \in Open(f) : client[c] # "on" /\ toServer[c] = <<>>
       /\ UNCHANGED toServer
       /\ Then(old)
------------------------------------------------------------------------------
(* An acceptor.                                                            *)

At(c, place) == server = "up" /\ thread[c] = place
Goes(c, place) == thread' = [thread EXCEPT ![c] = place]
ServerExits == server' = "down" /\ UNCHANGED thread

Accept(c) ==
    /\ At(c, "none") /\ client[c] # "off"
    /\ fd' = [fd EXCEPT ![c] = LowestFree]
    /\ Goes(c, "read")
    /\ UNCHANGED <<server, tableVars, slot_mutex, game, pinger, reset,
                   clientVars, toClient>>

\* The first message has to be MSG_CONNECT.
ReadConnect(c) ==
    /\ At(c, "read")
    /\ Read(fd[c], "garbage",
            LAMBDA type : IF type = "CONNECT" THEN Goes(c, "lock") /\ UNCHANGED server
                          ELSE ServerExits)
    /\ UNCHANGED <<tableVars, slot_mutex, game, fd, pinger, reset,
                   client, name, toClient>>

\* Faulty variant: the mutex is not waited for.
check_username_anyway(c) ==
    /\ At(c, "lock")
    /\ IF \E i \in Slots : clients[i].taken /\ clients[i].name = name[c]
         THEN /\ Write({fd[c]}, "NAME_TAKEN")
              /\ Goes(c, "done")
              /\ UNCHANGED clients_mutex
         ELSE /\ clients_mutex' = c
              /\ Goes(c, "create")
              /\ UNCHANGED <<server, reset, toClient>>
    /\ UNCHANGED <<clients, slot_mutex, game, fd, pinger, clientVars>>

\* With clients_mutex taken.  A duplicate is told so, and the mutex released: it
\* keeps its connection and gets no slot.
check_username(c) ==
    /\ At(c, "lock") /\ clients_mutex = NoConn
    /\ IF \E i \in Slots : clients[i].taken /\ clients[i].name = name[c]
         THEN /\ Write({fd[c]}, "NAME_TAKEN")
              /\ Goes(c, "done")
              /\ UNCHANGED clients_mutex
         ELSE /\ clients_mutex' = c
              /\ Goes(c, "create")
              /\ UNCHANGED <<server, reset, toClient>>
    /\ UNCHANGED <<clients, slot_mutex, game, fd, pinger, clientVars>>

\* The first free slot is marked and named; without one the server exits.  (The name
\* is written last, and read only by who holds clients_mutex.)
create_client(c) ==
    /\ At(c, "create")
    /\ LET free == {i \in Slots : ~clients[i].taken}
       IN IF free = {} THEN ServerExits /\ UNCHANGED <<clients, game>>
          ELSE LET id == Min(free)
               IN /\ clients' = [clients EXCEPT ![id] =
                                   [taken |-> TRUE, playing |-> TRUE,
                                    name |-> name[c],
                                    socket_fd |-> clients[id].socket_fd]]
                  /\ game' = [game EXCEPT ![c].slots = <<id>>]
                  /\ Goes(c, "marked") /\ UNCHANGED server
    /\ UNCHANGED <<clients_mutex, slot_mutex, fd, pinger, reset,
                   clientVars, toClient>>

\* Until then the pinger finds in the slot the descriptor of the client before, or
\* -1, here the server's own input, at which nobody types.
StoreDescriptor(c) ==
    /\ At(c, "marked")
    /\ clients' = [clients EXCEPT ![Head(game[c].slots)].socket_fd = fd[c]]
    /\ Goes(c, "pair")
    /\ UNCHANGED <<server, clients_mutex, slot_mutex, game, fd, pinger, reset,
                   clientVars, toClient>>

\* Faulty variant: the client that has waited is not marked.
connect_pending_unmarked(c) ==
    /\ At(c, "pair")
    /\ LET id == Head(game[c].slots)
           pending == {i \in Slots : clients[i].taken /\ ~clients[i].playing}
       IN IF pending # {}
            THEN /\ game' = [game EXCEPT ![c].slots = <<Min(pending), id>>]
                 /\ Goes(c, "start") /\ UNCHANGED clients
            ELSE /\ clients' = [clients EXCEPT ![id].playing = FALSE]
                 /\ Goes(c, "waiting") /\ UNCHANGED game
    /\ clients_mutex' = NoConn
    /\ UNCHANGED <<server, slot_mutex, fd, pinger, reset, clientVars, toClient>>

\* The first client that waits becomes player 1 of a game, and the acceptor its
\* thread; otherwise the new client waits.
connect_pending(c) ==
    /\ At(c, "pair")
    /\ LET id == Head(game[c].slots)
           pending == {i \in Slots : clients[i].taken /\ ~clients[i].playing}
           i == Min(pending)
       IN IF pending # {}
            THEN /\ clients' = [clients EXCEPT ![i].playing = TRUE]
                 /\ game' = [game EXCEPT ![c].slots = <<i, id>>]
                 /\ Goes(c, "start")
            ELSE /\ clients' = [clients EXCEPT ![id].playing = FALSE]
                 /\ Goes(c, "waiting") /\ UNCHANGED game
    /\ clients_mutex' = NoConn
    /\ UNCHANGED <<server, slot_mutex, fd, pinger, reset, clientVars, toClient>>

\* After the mutex is released: MSG_WAITING, also if the game has begun.
WriteWaiting(c) ==
    /\ At(c, "waiting")
    /\ Write({fd[c]}, "WAITING")
    /\ Goes(c, "done")
    /\ UNCHANGED <<tableVars, slot_mutex, game, fd, pinger, clientVars>>
------------------------------------------------------------------------------
(* game_connection, run by the acceptor of player 2.                       *)

Fds(slots) == {clients[slots[k]].socket_fd : k \in {1, 2}}
OnTurn(c) == game[c].slots[game[c].turn]
gameUnchanged == <<clients_mutex, pinger, client, name>>

\* send_msg_start and the first send_msg_update.
Start(c) ==
    /\ At(c, "start")
    /\ Write(Fds(game[c].slots), "START")
    /\ game' = [game EXCEPT ![c].turn = 1]
    /\ Goes(c, "turn")
    /\ UNCHANGED <<gameUnchanged, clients, slot_mutex, fd, toServer>>

\* send_msg_move: the slot's mutex is held from the question to the answer.
AskMove(c) ==
    /\ At(c, "turn") /\ slot_mutex[OnTurn(c)] = NoConn
    /\ slot_mutex' = [slot_mutex EXCEPT ![OnTurn(c)] = c]
    /\ Write({clients[OnTurn(c)].socket_fd}, "MOVE")
    /\ Goes(c, "asked")
    /\ UNCHANGED <<gameUnchanged, clients, game, fd, toServer>>

ReadMove(c) ==
    /\ At(c, "asked")
    /\ Read(clients[OnTurn(c)].socket_fd, "MOVE",
            LAMBDA type : Goes(c, IF type = "DISCONNECT" THEN "left" ELSE "answered"))
    /\ slot_mutex' = [slot_mutex EXCEPT ![OnTurn(c)] = NoConn]
    /\ UNCHANGED <<gameUnchanged, server, clients, game, fd, reset, toClient>>

\* A refused move; or an update for both, and the other's turn; or the end.
Refuse(c) ==
    /\ At(c, "answered")
    /\ Goes(c, "turn")
    /\ UNCHANGED <<gameUnchanged, server, clients, slot_mutex, game, fd, reset,
                   toServer, toClient>>
Update(c) ==
    /\ At(c, "answered")
    /\ Write(Fds(game[c].slots), "UPDATE")
    /\ game' = [game EXCEPT ![c].turn = 3 - @]
    /\ Goes(c, "turn")
    /\ UNCHANGED <<gameUnchanged, clients, slot_mutex, fd, toServer>>
End(c) ==
    /\ At(c, "answered")
    /\ Write(Fds(game[c].slots), "END")
    /\ game' = [game EXCEPT ![c].turn = 1]
    /\ Goes(c, "ended")
    /\ UNCHANGED <<gameUnchanged, clients, slot_mutex, fd, toServer>>

\* disconnect_client: the slot is free before its descriptor is closed.  Of a
\* player who has left it is called under the slot's mutex, otherwise without.
Unlist(c) ==
    /\ server = "up" /\ thread[c] \in {"left", "told", "ended"} /\ ~game[c].closing
    /\ thread[c] = "left" => slot_mutex[OnTurn(c)] = NoConn
    /\ clients' = [clients EXCEPT ![OnTurn(c)].taken = FALSE, ![OnTurn(c)].name = NoConn]
    /\ slot_mutex' = IF thread[c] = "left" THEN [slot_mutex EXCEPT ![OnTurn(c)] = c]
                     ELSE slot_mutex
    /\ game' = [game EXCEPT ![c].closing = TRUE]
    /\ UNCHANGED <<gameUnchanged, server, thread, fd, reset, toServer, toClient>>

Turn(c, k) == game' = [game EXCEPT ![c].turn = k, ![c].closing = FALSE]

\* close, of what the slot's descriptor is by now.
Close(c) ==
    /\ server = "up" /\ game[c].closing
    /\ LET closed == Open(clients[OnTurn(c)].socket_fd)
       IN /\ fd' = [d \in Conns |-> IF d \in closed THEN -1 ELSE fd[d]]
          /\ reset' = [d \in Conns |-> reset[d] /\ d \notin closed]
          /\ toServer' = [d \in Conns |-> IF d \in closed THEN <<>> ELSE toServer[d]]
    /\ slot_mutex' = IF thread[c] = "left" THEN [slot_mutex EXCEPT ![OnTurn(c)] = NoConn]
                     ELSE slot_mutex
    /\ \/ thread[c] = "left" /\ Goes(c, "tell") /\ Turn(c, 3 - game[c].turn)
       \/ thread[c] = "told" /\ Goes(c, "wait") /\ Turn(c, game[c].turn)
       \/ thread[c] = "ended" /\ game[c].turn = 1 /\ Turn(c, 2) /\ UNCHANGED thread
       \/ /\ thread[c] = "ended" /\ game[c].turn = 2
          /\ Goes(c, "done") /\ game' = [game EXCEPT ![c] = NoGame]
    /\ UNCHANGED <<gameUnchanged, server, clients, toClient>>

\* Faulty variant: the opponent is told and not disconnected.
TellOnly(c) ==
    /\ At(c, "tell")
    /\ Write({clients[OnTurn(c)].socket_fd}, "DISCONNECT")
    /\ Goes(c, "wait")
    /\ UNCHANGED <<gameUnchanged, clients, slot_mutex, game, fd, toServer>>

\* send_msg_disconnect to the opponent of a player who has left, and, when its
\* descriptor is closed, send_msg_waiting.
Tell(c) ==
    /\ At(c, "tell")
    /\ Write({clients[OnTurn(c)].socket_fd}, "DISCONNECT")
    /\ Goes(c, "told")
    /\ UNCHANGED <<gameUnchanged, clients, slot_mutex, game, fd, toServer>>
TellToWait(c) ==
    /\ At(c, "wait")
    /\ Write({clients[OnTurn(c)].socket_fd}, "WAITING")
    /\ Goes(c, "done") /\ game' = [game EXCEPT ![c] = NoGame]
    /\ UNCHANGED <<gameUnchanged, clients, slot_mutex, fd, toServer>>
------------------------------------------------------------------------------
(* The pinger.                                                             *)

PingerGoes(at, slot, type) == pinger' = [slot |-> slot, at |-> at, type |-> type]
\* Faulty variant: one slot too far.
NextSlotTooFar == (pinger.slot + 1) % (MAX_CLIENT_COUNT + 1)
NextSlot == (pinger.slot + 1) % MAX_CLIENT_COUNT
pingerUnchanged == <<tableVars, thread, game, fd, client, name>>

\* Under the slot's mutex: a taken slot is written the message last read.
Ping ==
    /\ server = "up" /\ pinger.at = "next" /\ slot_mutex[pinger.slot] = NoConn
    /\ IF clients[pinger.slot].taken
         THEN /\ Write({clients[pinger.slot].socket_fd}, pinger.type)
              /\ slot_mutex' = [slot_mutex EXCEPT ![pinger.slot] = "pinger"]
              /\ PingerGoes("reading", pinger.slot, pinger.type)
         ELSE /\ PingerGoes("next", NextSlot, pinger.type)
              /\ UNCHANGED <<server, slot_mutex, reset, toClient>>
    /\ UNCHANGED <<pingerUnchanged, toServer>>

\* epoll_wait returns 0 and not -1 when it times out: in either case the answer
\* is read, whenever it comes, into the message that is written next.
PingRead ==
    /\ server = "up" /\ pinger.at = "reading"
    /\ Read(clients[pinger.slot].socket_fd, pinger.type,
            LAMBDA type : PingerGoes("next", NextSlot, type))
    /\ slot_mutex' = [slot_mutex EXCEPT ![pinger.slot] = NoConn]
    /\ UNCHANGED <<pingerUnchanged, server, reset, toClient>>
------------------------------------------------------------------------------
ClientStep(c) ==
    \/ \E n \in Names : Connect(c, n)
    \/ Handle(c) \/ Interrupt(c)

Acceptor(c) ==
    \/ Accept(c) \/ ReadConnect(c) \/ check_username(c)
    \/ create_client(c) \/ StoreDescriptor(c) \/ connect_pending(c) \/ WriteWaiting(c)

Game(c) ==
    \/ Start(c) \/ AskMove(c) \/ ReadMove(c) \/ Refuse(c) \/ Update(c) \/ End(c)
    \/ Unlist(c) \/ Close(c) \/ Tell(c) \/ TellToWait(c)

Next ==
    \/ Ping \/ PingRead
    \/ \E c \in Conns : ClientStep(c) \/ Acceptor(c) \/ Game(c)

Spec == Init /\ [][Next]_vars
------------------------------------------------------------------------------
Waits(i) == clients[i].taken /\ ~clients[i].playing

\* The slots a thread answers for: the one it has just created, the two of its
\* game, and at the game's end those not yet free.
Holds(c) ==
    LET slots == game[c].slots
        freed == IF game[c].closing THEN {OnTurn(c)} ELSE {}
    IN IF thread[c] \in {"marked", "pair"} THEN {slots[1]}
       ELSE IF thread[c] \in {"start", "turn", "asked", "answered", "left"}
         THEN {slots[1], slots[2]} \ freed
       ELSE IF thread[c] \in {"tell", "told"} THEN {OnTurn(c)} \ freed
       ELSE IF thread[c] = "ended" THEN {slots[k] : k \in game[c].turn .. 2} \ freed
       ELSE {}

TypeOK ==
    /\ server \in {"up", "down"}
    /\ clients \in [Slots -> [taken : BOOLEAN, playing : BOOLEAN,
                              name : Names \cup {NoConn}, socket_fd : Int]]
    /\ clients_mutex \in Conns \cup {NoConn}
    /\ slot_mutex \in [Slots -> Conns \cup {NoConn, "pinger"}]
    /\ \A c \in Conns : Open(fd[c]) \subseteq {c}
    /\ pinger.slot \in Slots

\* Two clients in the table never have the same name, although slots become free
\* between the check of a name and its entry (server.c:172-197, 365-369).
NamesDiffer ==
    \A i, j \in Slots :
      (clients[i].taken /\ clients[j].taken /\ i # j) =>
        clients[i].name # clients[j].name

\* disconnect_client works on slot numbers and without clients_mutex, and yet a
\* slot of a thread is not given to another client before that thread has freed
\* it itself: it stays taken, it does not wait, and no other thread has it.
SlotsAreHeld ==
    \A c \in Conns :
      /\ \A i \in Holds(c) : clients[i].taken /\ clients[i].playing
      /\ \A d \in Conns \ {c} : Holds(c) \cap Holds(d) = {}
      /\ thread[c] \in {"start", "turn", "asked", "answered"} =>
           game[c].slots[1] # game[c].slots[2]

\* No slot is lost: one that is taken waits, or some thread will free it.
NoSlotLeaks ==
    \A i \in Slots :
      clients[i].taken => Waits(i) \/ \E c \in Conns : i \in Holds(c)

\* "Your opponent has left the game..." is what a client prints that is sent
\* MSG_DISCONNECT: a client that still waits for an opponent is not sent it.
OpponentHasLeft ==
    \A i \in Slots :
      Waits(i) => \A c \in Open(clients[i].socket_fd) :
        client[c] = "on" => \A k \in DOMAIN toClient[c] : toClient[c][k] # "DISCONNECT"
==============================================================================
