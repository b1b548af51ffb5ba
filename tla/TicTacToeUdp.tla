---------------------------- MODULE TicTacToeUdp ----------------------------
(***************************************************************************)
(* lab10 over UDP.  The server receives a datagram into a local variable   *)
(* and starts a thread that copies it from there, while the next datagram  *)
(* may already be received.  accept fails on a datagram socket, so every   *)
(* descriptor in the table is -1: clients are entered and paired and are   *)
(* never sent anything, and a game, which reads its own board for a move,  *)
(* goes on refusing moves for ever.                                        *)
(*                                                                         *)
(* What is left to go wrong is the table, and which messages threads see.  *)
(* The name and the type are copied in two steps, in any order (a name that *)
(* is itself mixed of two counts as one of the two).  Datagrams overtake   *)
(* each other; one that is lost is one that is never received.             *)
(***************************************************************************)
EXTENDS Integers, FiniteSetsExt

CONSTANTS Clients,
          NameOf,             \* the name each client gives
          MAX_CLIENT_COUNT

UdpParameters == MAX_CLIENT_COUNT \in Nat

VARIABLES server,         \* "up" or "down"
          clients,        \* the table
          clients_mutex,  \* the thread that holds it, if any
          args,           \* the message last received
          acceptor,       \* the thread of each datagram
          client,         \* the client processes
          datagrams       \* on the way

udpVars == <<server, clients, clients_mutex, args, acceptor, client, datagrams>>

Slots == 0 .. MAX_CLIENT_COUNT - 1
Datagrams == Clients \X {"CONNECT", "DISCONNECT"}
Nothing == [k \in {} |-> ""]
Name(msg) == msg[1]
Type(msg) == msg[2]

Init ==
    /\ server = "up"
    /\ clients = [i \in Slots |-> [taken |-> FALSE, playing |-> FALSE, name |-> ""]]
    /\ clients_mutex = {}
    /\ args = <<"", "">>
    /\ acceptor = [d \in Datagrams |-> [at |-> "none", msg |-> Nothing, slots |-> {}]]
    /\ client = [c \in Clients |-> "off"]
    /\ datagrams = {}
------------------------------------------------------------------------------
(* A client sends its name, and MSG_DISCONNECT when it exits.              *)

Connect(c) ==
    /\ client[c] = "off"
    /\ client' = [client EXCEPT ![c] = "on"]
    /\ datagrams' = datagrams \cup {<<c, "CONNECT">>}
    /\ UNCHANGED <<server, clients, clients_mutex, args, acceptor>>

Exits(c) ==
    /\ client[c] # "gone"
    /\ client' = [client EXCEPT ![c] = "gone"]
    /\ datagrams' = datagrams \cup {<<c, "DISCONNECT">>}
    /\ UNCHANGED <<server, clients, clients_mutex, args, acceptor>>

------------------------------------------------------------------------------
(* The server.                                                             *)

At(d, place) == acceptor[d].at = place
Goes(d, place) == acceptor' = [acceptor EXCEPT ![d].at = place]
Plays(d, place, slots) ==
    acceptor' = [acceptor EXCEPT ![d] = [at |-> place, msg |-> Nothing, slots |-> slots]]
ServerExits == server' = "down" /\ UNCHANGED acceptor

\* recvfrom, and a thread.  Of MSG_DISCONNECT only the type is initialized.
Receive(d) ==
    /\ d \in datagrams
    /\ datagrams' = datagrams \ {d}
    /\ args' = <<IF d[2] = "CONNECT" THEN NameOf[d[1]] ELSE "?", d[2]>>
    /\ Goes(d, "copy")
    /\ UNCHANGED <<server, clients, clients_mutex, client>>

\* A thread copies a part.  When it has both, accept and read fail and leave them
\* as they are; the message has to be MSG_CONNECT.
Copy(d) ==
    /\ At(d, "copy")
    /\ \E k \in {1, 2} \ DOMAIN acceptor[d].msg :
         LET msg == [j \in DOMAIN acceptor[d].msg \cup {k} |->
                       IF j = k THEN args[k] ELSE acceptor[d].msg[j]]
             place == IF DOMAIN msg = {1, 2} THEN "lock" ELSE "copy"
         IN IF place = "lock" /\ Type(msg) # "CONNECT" THEN ServerExits
            ELSE /\ acceptor' = [acceptor EXCEPT ![d].msg = msg, ![d].at = place]
                 /\ UNCHANGED server
    /\ UNCHANGED <<clients, clients_mutex, args, client, datagrams>>

Duplicate(d) == \E i \in Slots : clients[i].taken /\ clients[i].name = Name(acceptor[d].msg)

\* Faulty variant: the mutex is not waited for.
check_username_anyway(d) ==
    /\ At(d, "lock")
    /\ IF Duplicate(d) THEN Plays(d, "done", {}) /\ UNCHANGED clients_mutex
       ELSE Goes(d, "create") /\ clients_mutex' = {d}
    /\ UNCHANGED <<server, clients, args, client, datagrams>>

\* With clients_mutex taken, which a duplicate releases.
check_username(d) ==
    /\ At(d, "lock") /\ clients_mutex = {}
    /\ IF Duplicate(d) THEN Plays(d, "done", {}) /\ UNCHANGED clients_mutex
       ELSE Goes(d, "create") /\ clients_mutex' = {d}
    /\ UNCHANGED <<server, clients, args, client, datagrams>>

\* The first free slot; without one the server exits.
create_client(d) ==
    /\ At(d, "create")
    /\ LET free == {i \in Slots : ~clients[i].taken}
           id == Min(free)
       IN IF free = {} THEN ServerExits /\ UNCHANGED clients
          ELSE /\ clients' = [clients EXCEPT ![id] =
                                [taken |-> TRUE, playing |-> TRUE, name |-> Name(acceptor[d].msg)]]
               /\ Plays(d, "pair", {id}) /\ UNCHANGED server
    /\ UNCHANGED <<clients_mutex, args, client, datagrams>>

\* A game with the first client that waits, or a wait.
connect_pending(d) ==
    /\ At(d, "pair")
    /\ LET id == Min(acceptor[d].slots)
           pending == {i \in Slots : clients[i].taken /\ ~clients[i].playing}
           i == Min(pending)
       IN IF pending # {}
            THEN /\ clients' = [clients EXCEPT ![i].playing = TRUE]
                 /\ Plays(d, "game", {i, id})
            ELSE /\ clients' = [clients EXCEPT ![id].playing = FALSE]
                 /\ Plays(d, "done", {})
    /\ clients_mutex' = {}
    /\ UNCHANGED <<server, args, client, datagrams>>

Acceptor(d) ==
    \/ Receive(d) \/ Copy(d)
    \/ check_username(d) \/ create_client(d) \/ connect_pending(d)

Next ==
    /\ server = "up"
    /\ \/ \E c \in Clients : Connect(c) \/ Exits(c)
       \/ \E d \in Datagrams : Acceptor(d)
------------------------------------------------------------------------------
\* Whatever mixture of messages the threads have copied: the names in the table
\* differ, one client at most waits, a client that plays is in one game and in no
\* other thread's hands, and the server ends only when its table is full or it
\* has received the message of a client that has left.
TableIsSound ==
    LET taken == {i \in Slots : clients[i].taken}
        threads == {d \in Datagrams : acceptor[d].slots # {}}
    IN /\ \A i, j \in taken : clients[i].name = clients[j].name => i = j
       /\ Cardinality({i \in taken : ~clients[i].playing}) <= 1
       /\ \A d \in threads :
            /\ \A i \in acceptor[d].slots : clients[i].taken /\ clients[i].playing
            /\ At(d, "game") => Cardinality(acceptor[d].slots) = 2
            /\ \A e \in threads \ {d} : acceptor[d].slots \cap acceptor[e].slots = {}
       /\ \A i \in taken : clients[i].playing => \E d \in threads : i \in acceptor[d].slots
       /\ server = "down" =>
            \/ taken = Slots
            \/ \E c \in Clients : client[c] = "gone" /\ ~At(<<c, "DISCONNECT">>, "none")
==============================================================================
