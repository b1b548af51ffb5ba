------------------------ MODULE TicTacToeServerProofs ------------------------
(***************************************************************************)
(* Proofs about the table of TicTacToeServer, for any number of            *)
(* connections, names and slots.                                           *)
(*                                                                         *)
(* Only the acceptor that holds clients_mutex gives a slot away, and only  *)
(* a free one, or one whose client waits.  disconnect_client runs without  *)
(* that mutex, but on slots its own thread holds.  So a step of a thread   *)
(* changes no slot another thread holds (TableStep), and a name that has   *)
(* been checked stays unused until it is entered (NamesKept).              *)
(***************************************************************************)
EXTENDS TicTacToeServer, FiniteSetTheorems, WellFoundedInduction, TLAPS

Places == {"none", "read", "lock", "create", "marked", "pair", "waiting", "start", "turn", "asked",
           "answered", "left", "tell", "told", "wait", "ended", "done"}
Playing == {"start", "turn", "asked", "answered", "left", "tell", "told", "wait", "ended"}

Entries == [taken : BOOLEAN, playing : BOOLEAN, name : Names \cup {NoConn}, socket_fd : Int]
Games == [slots : Seq(Slots), turn : 0 .. 2, closing : BOOLEAN]

Types ==
    /\ thread \in [Conns -> Places]
    /\ game \in [Conns -> Games]
    /\ fd \in [Conns -> Int]
    /\ name \in [Conns -> Names \cup {NoConn}]
    /\ client \in [Conns -> {"off", "on", "gone"}]

\* The game g of an acceptor agrees with where it is, and says what it holds.
GameAt(p, g) ==
    /\ p \in {"marked", "pair"} => Len(g.slots) = 1 /\ ~g.closing
    /\ p \in Playing =>
         /\ Len(g.slots) = 2 /\ g.slots[1] # g.slots[2]
         /\ p # "start" => g.turn \in {1, 2}
    /\ g.closing => p \in {"left", "told", "ended"}

HoldsAt(p, g) ==
    LET freed == IF g.closing THEN {g.slots[g.turn]} ELSE {}
    IN IF p \in {"marked", "pair"} THEN {g.slots[1]}
       ELSE IF p \in {"start", "turn", "asked", "answered", "left"}
         THEN {g.slots[1], g.slots[2]} \ freed
       ELSE IF p \in {"tell", "told"} THEN {g.slots[g.turn]} \ freed
       ELSE IF p = "ended" THEN {g.slots[k] : k \in g.turn .. 2} \ freed
       ELSE {}

GameInv == \A c \in Conns : GameAt(thread[c], game[c])

\* Who holds clients_mutex has checked its name, or entered it.
NameInv ==
    \A c \in Conns :
      /\ thread[c] \in {"create", "marked", "pair"} <=> clients_mutex = c
      /\ thread[c] # "none" => client[c] # "off"
      /\ thread[c] = "create" =>
           \A i \in Slots : clients[i].taken => clients[i].name # name[c]

ServerInv ==
    TypeOK /\ Types /\ GameInv /\ NameInv /\ NamesDiffer /\ SlotsAreHeld /\ NoSlotLeaks
------------------------------------------------------------------------------
(* Descriptors and slots.                                                  *)

LEMMA MinIn ==
    ASSUME NEW S \in SUBSET Nat, S # {}
    PROVE  Min(S) \in S
<1>1. PICK m \in S : \A n \in S : ~(<<n, m>> \in OpToRel(<, Nat))
  BY WFMin, NatLessThanWellFounded, Zenon
<1>2. \A n \in S : ~(n < m)
  <2> TAKE n \in S
  <2>1. n \in Nat /\ m \in Nat
    OBVIOUS
  <2>2. SUFFICES ASSUME n < m PROVE <<n, m>> \in OpToRel(<, Nat)
    BY <1>1, Zenon
  <2> QED
    BY <2>1, <2>2, Zenon DEF OpToRel
<1>3. \A n \in S : m <= n
  BY <1>2
<1> QED
  BY <1>3 DEF Min

\* There are more descriptors to choose from than connections.
LEMMA FreeDescriptor ==
    ASSUME Types PROVE LowestFree \in Nat /\ Open(LowestFree) = {}
<1> DEFINE F == 0 .. Cardinality(Conns)
           owner == [f \in F |-> CHOOSE c \in Conns : fd[c] = f]
<1>1. Cardinality(Conns) \in Nat
  BY TableAssumption, FS_CardinalityType
<1>2. \E f \in F : Open(f) = {}
  <2> SUFFICES ASSUME \A f \in F : Open(f) # {} PROVE FALSE
    OBVIOUS
  <2>1. \A f \in F : owner[f] \in Conns /\ fd[owner[f]] = f
    BY DEF Open
  <2>2. owner \in [F -> Conns]
    BY <2>1
  <2>3. IsFiniteSet(F) /\ Cardinality(F) > Cardinality(Conns)
    BY <1>1, FS_Interval
  <2>4. \E f, g \in F : f # g /\ owner[f] = owner[g]
    <3> HIDE DEF F, owner
    <3> QED
      BY <2>2, <2>3, TableAssumption, FS_PigeonHole
  <2> QED
    BY <2>1, <2>4
<1>3. LowestFree \in {f \in F : Open(f) = {}}
  <2>1. {f \in F : Open(f) = {}} \in SUBSET Nat
    BY <1>1
  <2> QED
    BY <1>2, <2>1, MinIn DEF LowestFree
<1> QED
  BY <1>1, <1>3

LEMMA HoldsIsHoldsAt == \A c \in Conns : Holds(c) = HoldsAt(thread[c], game[c])
  BY DEF Holds, HoldsAt, OnTurn

LEMMA HeldSlots ==
    \A p \in Places, g \in Games : GameAt(p, g) => HoldsAt(p, g) \subseteq Slots
<1> TAKE p \in Places, g \in Games
<1> HAVE GameAt(p, g)
<1>1. \A k \in 1 .. Len(g.slots) : g.slots[k] \in Slots
  BY DEF Games
<1>2. Len(g.slots) \in Nat /\ g.turn \in 0 .. 2
  BY DEF Games
<1> QED
  BY <1>1, <1>2 DEF GameAt, HoldsAt, Playing
------------------------------------------------------------------------------
(* What a step of one thread may do to the table.                          *)

LEMMA TableStep ==
    ASSUME ServerInv, NEW c \in Conns, NEW p \in Places, NEW g \in Games, GameAt(p, g),
           thread' = [thread EXCEPT ![c] = p], game' = [game EXCEPT ![c] = g],
           \A i \in Slots \ (Holds(c) \cup HoldsAt(p, g)) : clients'[i] = clients[i],
           \A i \in HoldsAt(p, g) :
             /\ clients'[i].taken /\ clients'[i].playing
             /\ \A d \in Conns \ {c} : i \notin Holds(d),
           \A i \in Holds(c) \ HoldsAt(p, g) : ~clients'[i].taken \/ ~clients'[i].playing
    PROVE  GameInv' /\ SlotsAreHeld' /\ NoSlotLeaks'
<1>1. /\ thread'[c] = p /\ game'[c] = g
      /\ \A d \in Conns \ {c} : thread'[d] = thread[d] /\ game'[d] = game[d]
  BY DEF ServerInv, Types
<1>2. GameInv'
  BY <1>1 DEF ServerInv, GameInv
<1>3. Holds(c)' = HoldsAt(p, g) /\ \A d \in Conns \ {c} : Holds(d)' = Holds(d)
  <2>1. \A d \in Conns : Holds(d)' = HoldsAt(thread'[d], game'[d])
    BY DEF Holds, HoldsAt, OnTurn
  <2> QED
    BY <1>1, <2>1, HoldsIsHoldsAt
<1>4. \A d \in Conns : Holds(d) \subseteq Slots
  BY HoldsIsHoldsAt, HeldSlots DEF ServerInv, Types, GameInv
<1>5. \A d \in Conns \ {c} : Holds(c) \cap Holds(d) = {}
  BY DEF ServerInv, SlotsAreHeld
<1>6. \A d \in Conns \ {c} : \A i \in Holds(d) : clients'[i] = clients[i]
  BY <1>4, <1>5
<1>7. SlotsAreHeld'
  <2>1. \A d \in Conns : \A i \in Holds(d)' : clients'[i].taken /\ clients'[i].playing
    BY <1>3, <1>6 DEF ServerInv, SlotsAreHeld
  <2>2. \A d \in Conns : \A e \in Conns \ {d} : Holds(d)' \cap Holds(e)' = {}
    BY <1>3 DEF ServerInv, SlotsAreHeld
  <2>3. \A d \in Conns : thread'[d] \in {"start", "turn", "asked", "answered"} =>
          game'[d].slots[1] # game'[d].slots[2]
    BY <1>2 DEF GameInv, GameAt, Playing
  <2> QED
    BY <2>1, <2>2, <2>3 DEF SlotsAreHeld
<1>8. NoSlotLeaks'
  <2> SUFFICES ASSUME NEW i \in Slots, clients'[i].taken, clients'[i].playing
               PROVE  \E d \in Conns : i \in Holds(d)'
    BY DEF NoSlotLeaks, Waits
  <2>1. CASE i \in HoldsAt(p, g)
    BY <1>3, <2>1
  <2>2. CASE i \notin HoldsAt(p, g)
    <3>1. i \notin Holds(c) /\ clients'[i] = clients[i]
      BY <2>2
    <3>2. PICK d \in Conns : i \in Holds(d)
      BY <3>1 DEF ServerInv, NoSlotLeaks, Waits
    <3> QED
      BY <1>3, <3>1, <3>2
  <2> QED
    BY <2>1, <2>2
<1> QED
  BY <1>2, <1>7, <1>8

\* Slots that are not given away keep their names.
LEMMA NamesKept ==
    ASSUME ServerInv,
           \A i \in Slots : clients'[i].taken =>
             clients[i].taken /\ clients'[i].name = clients[i].name
    PROVE  NamesDiffer'
  BY DEF ServerInv, NamesDiffer

\* A step of the game that acceptor c plays, or of disconnect_client in it: the
\* slots it gives up are free, the others as they were.
LEMMA GameStep ==
    ASSUME ServerInv, NEW c \in Conns, thread[c] \notin {"none", "create", "marked", "pair"},
           NEW p \in Places \ {"none", "create", "marked", "pair"}, NEW g \in Games, GameAt(p, g),
           thread' = [thread EXCEPT ![c] = p], game' = [game EXCEPT ![c] = g],
           HoldsAt(p, g) \subseteq HoldsAt(thread[c], game[c]),
           \A i \in HoldsAt(thread[c], game[c]) \ HoldsAt(p, g) : ~clients'[i].taken,
           \A i \in Slots \ (HoldsAt(thread[c], game[c]) \ HoldsAt(p, g)) :
             clients'[i] = clients[i],
           UNCHANGED <<clients_mutex, pinger, client, name>>,
           fd' \in [Conns -> Int], \A d \in Conns : fd'[d] \in {fd[d], -1},
           server' \in {"up", "down"},
           slot_mutex' \in [Slots -> Conns \cup {NoConn, "pinger"}],
           clients' \in [Slots -> [taken : BOOLEAN, playing : BOOLEAN,
                                   name : Names \cup {NoConn}, socket_fd : Int]]
    PROVE  ServerInv'
<1>1. TypeOK' /\ Types'
  BY DEF ServerInv, TypeOK, Types, Open
<1>2. Holds(c) = HoldsAt(thread[c], game[c]) /\ Holds(c) \subseteq Slots
  BY HoldsIsHoldsAt, HeldSlots DEF ServerInv, Types, GameInv
<1>3. \A i \in HoldsAt(p, g) :
        /\ clients'[i].taken /\ clients'[i].playing
        /\ \A d \in Conns \ {c} : i \notin Holds(d)
  BY <1>2 DEF ServerInv, SlotsAreHeld
<1>4. GameInv' /\ SlotsAreHeld' /\ NoSlotLeaks'
  <2>1. \A i \in Slots \ (Holds(c) \cup HoldsAt(p, g)) : clients'[i] = clients[i]
    BY <1>2
  <2>2. \A i \in Holds(c) \ HoldsAt(p, g) : ~clients'[i].taken \/ ~clients'[i].playing
    BY <1>2
  <2> QED
    BY <1>3, <2>1, <2>2, TableStep
<1>5. NamesDiffer'
  BY NamesKept
<1>6. NameInv'
  BY DEF ServerInv, NameInv, Types
<1> QED
  BY <1>1, <1>4, <1>5, <1>6 DEF ServerInv

\* The same, when no slot is given up.
LEMMA QuietStep ==
    ASSUME ServerInv, NEW c \in Conns, thread[c] \notin {"none", "create", "marked", "pair"},
           NEW p \in Places \ {"none", "create", "marked", "pair"}, NEW g \in Games, GameAt(p, g),
           thread' = [thread EXCEPT ![c] = p], game' = [game EXCEPT ![c] = g],
           HoldsAt(p, g) = HoldsAt(thread[c], game[c]),
           UNCHANGED <<clients, clients_mutex, pinger, client, name>>,
           fd' \in [Conns -> Int], \A d \in Conns : fd'[d] \in {fd[d], -1},
           server' \in {"up", "down"},
           slot_mutex' \in [Slots -> Conns \cup {NoConn, "pinger"}]
    PROVE  ServerInv'
<1>1. clients' \in [Slots -> [taken : BOOLEAN, playing : BOOLEAN,
                              name : Names \cup {NoConn}, socket_fd : Int]]
  BY DEF ServerInv, TypeOK
<1>2. /\ \A i \in HoldsAt(thread[c], game[c]) \ HoldsAt(p, g) : ~clients'[i].taken
      /\ \A i \in Slots \ (HoldsAt(thread[c], game[c]) \ HoldsAt(p, g)) :
           clients'[i] = clients[i]
  OBVIOUS
<1>3. HoldsAt(p, g) \subseteq HoldsAt(thread[c], game[c])
  OBVIOUS
<1> QED
  BY <1>1, <1>2, <1>3, GameStep

LEMMA Writes == \A fs, type : Write(fs, type) => server' \in {server, "down"}
  BY DEF Write

\* A game with another turn, or at another step of disconnect_client.
LEMMA Turned ==
    \A g \in Games, k \in 0 .. 2 :
      /\ [g EXCEPT !.turn = k] \in Games /\ [g EXCEPT !.turn = k].slots = g.slots
      /\ [g EXCEPT !.turn = k].turn = k /\ [g EXCEPT !.turn = k].closing = g.closing
<1>1. \A g \in Games, k \in 0 .. 2 : [g EXCEPT !.turn = k] \in Games
  BY DEF Games
<1>2. \A g \in Games, k \in 0 .. 2 :
        [g EXCEPT !.turn = k].slots = g.slots /\ [g EXCEPT !.turn = k].turn = k
  BY DEF Games
<1>3. \A g \in Games, k \in 0 .. 2 : [g EXCEPT !.turn = k].closing = g.closing
  BY DEF Games
<1> QED
  BY <1>1, <1>2, <1>3

LEMMA Unlisted ==
    \A g \in Games :
      LET h == [g EXCEPT !.closing = TRUE]
      IN h \in Games /\ h.slots = g.slots /\ h.turn = g.turn /\ h.closing
<1>1. \A g \in Games : [g EXCEPT !.closing = TRUE] \in Games
  BY DEF Games
<1>2. \A g \in Games : [g EXCEPT !.closing = TRUE].slots = g.slots
                       /\ [g EXCEPT !.closing = TRUE].turn = g.turn
  BY DEF Games
<1>3. \A g \in Games : [g EXCEPT !.closing = TRUE].closing
  BY DEF Games
<1> QED
  BY <1>1, <1>2, <1>3

LEMMA Dealt ==
    \A g \in Games, s \in Seq(Slots) : ~g.closing =>
      LET h == [g EXCEPT !.slots = s]
      IN h \in Games /\ h.slots = s /\ ~h.closing
<1>1. \A g \in Games, s \in Seq(Slots) : [g EXCEPT !.slots = s] \in Games
  BY DEF Games
<1>2. \A g \in Games, s \in Seq(Slots) : [g EXCEPT !.slots = s].slots = s
  BY DEF Games
<1>3. \A g \in Games, s \in Seq(Slots) : ~g.closing => ~[g EXCEPT !.slots = s].closing
  BY DEF Games
<1> QED
  BY <1>1, <1>2, <1>3

LEMMA Closed ==
    \A g \in Games, k \in 0 .. 2 :
      LET h == [g EXCEPT !.turn = k, !.closing = FALSE]
      IN h \in Games /\ h.slots = g.slots /\ h.turn = k /\ ~h.closing
<1>1. \A g \in Games, k \in 0 .. 2 : [g EXCEPT !.turn = k, !.closing = FALSE] \in Games
  BY DEF Games
<1>2. \A g \in Games, k \in 0 .. 2 :
        /\ [g EXCEPT !.turn = k, !.closing = FALSE].slots = g.slots
        /\ [g EXCEPT !.turn = k, !.closing = FALSE].turn = k
  BY DEF Games
<1>3. \A g \in Games, k \in 0 .. 2 : ~[g EXCEPT !.turn = k, !.closing = FALSE].closing
  BY DEF Games
<1> QED
  BY <1>1, <1>2, <1>3

LEMMA Marked ==
    \A e \in Entries, b \in BOOLEAN :
      /\ [e EXCEPT !.playing = b] \in Entries
      /\ [e EXCEPT !.playing = b].taken = e.taken /\ [e EXCEPT !.playing = b].name = e.name
      /\ [e EXCEPT !.playing = b].playing = b
<1>1. \A e \in Entries, b \in BOOLEAN : [e EXCEPT !.playing = b] \in Entries
  BY DEF Entries
<1>2. \A e \in Entries, b \in BOOLEAN :
        [e EXCEPT !.playing = b].taken = e.taken /\ [e EXCEPT !.playing = b].name = e.name
  BY DEF Entries
<1>3. \A e \in Entries, b \in BOOLEAN : [e EXCEPT !.playing = b].playing = b
  BY Zenon DEF Entries
<1> QED
  BY <1>1, <1>2, <1>3

LEMMA Stored ==
    \A e \in Entries, f \in Int :
      LET s == [e EXCEPT !.socket_fd = f]
      IN s \in Entries /\ s.taken = e.taken /\ s.playing = e.playing /\ s.name = e.name
<1>1. \A e \in Entries, f \in Int : [e EXCEPT !.socket_fd = f] \in Entries
  BY DEF Entries
<1>2. \A e \in Entries, f \in Int :
        LET s == [e EXCEPT !.socket_fd = f]
        IN s.taken = e.taken /\ s.playing = e.playing /\ s.name = e.name
  BY DEF Entries
<1> QED
  BY <1>1, <1>2

LEMMA Struck ==
    \A e \in Entries :
      LET s == [e EXCEPT !.taken = FALSE, !.name = NoConn]
      IN s \in Entries /\ ~s.taken
<1>1. \A e \in Entries : [e EXCEPT !.taken = FALSE, !.name = NoConn] \in Entries
  BY DEF Entries
<1>2. \A e \in Entries : ~[e EXCEPT !.taken = FALSE, !.name = NoConn].taken
  BY DEF Entries
<1> QED
  BY <1>1, <1>2

LEMMA GamePreserves ==
    ASSUME ServerInv, NEW c \in Conns, Game(c)
    PROVE  ServerInv'
<1> DEFINE p == thread[c]
           g == game[c]
<1>1. /\ p \in Places /\ g \in Games /\ GameAt(p, g)
      /\ server \in {"up", "down"} /\ fd \in [Conns -> Int]
      /\ slot_mutex \in [Slots -> Conns \cup {NoConn, "pinger"}]
      /\ thread \in [Conns -> Places] /\ game \in [Conns -> Games]
  BY DEF ServerInv, TypeOK, Types, GameInv
<1>0. g.turn \in 0 .. 2 /\ 1 \in 0 .. 2 /\ 2 \in 0 .. 2
  BY <1>1 DEF Games
<1>2. \A x : [slot_mutex EXCEPT ![OnTurn(c)] = x] \in [Slots -> Conns \cup {NoConn, "pinger", x}]
  BY <1>1
<1>3. CASE Start(c)
  <2> DEFINE h == [g EXCEPT !.turn = 1]
  <2>1. /\ p = "start" /\ server' \in {"up", "down"}
        /\ thread' = [thread EXCEPT ![c] = "turn"]
        /\ game' = [game EXCEPT ![c] = h]
        /\ UNCHANGED <<clients, clients_mutex, pinger, client, name, fd, slot_mutex>>
    BY <1>1, <1>3, Writes DEF Start, At, Goes, gameUnchanged
  <2>2. h \in Games /\ h.slots = g.slots /\ h.turn = 1 /\ h.closing = g.closing
    BY <1>0, <1>1, Turned, Zenon
  <2> HIDE DEF h
  <2>3. GameAt("turn", h) /\ HoldsAt("turn", h) = HoldsAt(p, g)
    BY <1>1, <2>1, <2>2 DEF GameAt, Playing, HoldsAt
  <2> QED
    BY <1>1, <2>1, <2>2, <2>3, QuietStep DEF Places
<1>4. CASE AskMove(c)
  <2>1. /\ p = "turn" /\ server' \in {"up", "down"}
        /\ thread' = [thread EXCEPT ![c] = "asked"]
        /\ game' = [game EXCEPT ![c] = g]
        /\ slot_mutex' = [slot_mutex EXCEPT ![OnTurn(c)] = c]
        /\ UNCHANGED <<clients, clients_mutex, pinger, client, name, fd>>
    BY <1>1, <1>4, Writes DEF AskMove, At, Goes, gameUnchanged
  <2>2. GameAt("asked", g) /\ HoldsAt("asked", g) = HoldsAt(p, g)
    BY <1>1, <2>1 DEF GameAt, Playing, HoldsAt
  <2> QED
    BY <1>1, <1>2, <2>1, <2>2, QuietStep DEF Places
<1>5. CASE ReadMove(c)
  <2>1. \E q \in {"left", "answered"} : thread' = [thread EXCEPT ![c] = q]
    BY <1>5 DEF ReadMove, Read, Goes
  <2>2. /\ p = "asked" /\ server' \in {"up", "down"}
        /\ game' = [game EXCEPT ![c] = g]
        /\ slot_mutex' = [slot_mutex EXCEPT ![OnTurn(c)] = NoConn]
        /\ UNCHANGED <<clients, clients_mutex, pinger, client, name, fd>>
    BY <1>1, <1>5 DEF ReadMove, At, gameUnchanged
  <2>3. \A q \in {"left", "answered"} : GameAt(q, g) /\ HoldsAt(q, g) = HoldsAt(p, g)
    BY <1>1, <2>2 DEF GameAt, Playing, HoldsAt
  <2> QED
    BY <1>1, <1>2, <2>1, <2>2, <2>3, QuietStep DEF Places
<1>6. CASE Refuse(c)
  <2>1. /\ p = "answered" /\ server' \in {"up", "down"}
        /\ thread' = [thread EXCEPT ![c] = "turn"]
        /\ game' = [game EXCEPT ![c] = g]
        /\ UNCHANGED <<clients, clients_mutex, pinger, client, name, fd, slot_mutex>>
    BY <1>1, <1>6 DEF Refuse, At, Goes, gameUnchanged
  <2>2. GameAt("turn", g) /\ HoldsAt("turn", g) = HoldsAt(p, g)
    BY <1>1, <2>1 DEF GameAt, Playing, HoldsAt
  <2> QED
    BY <1>1, <2>1, <2>2, QuietStep DEF Places
<1>7. CASE Update(c)
  <2> DEFINE h == [g EXCEPT !.turn = 3 - g.turn]
  <2>1. p = "answered" /\ 3 - g.turn \in {1, 2}
    BY <1>0, <1>1, <1>7 DEF Update, At, GameAt, Playing
  <2>2. /\ server' \in {"up", "down"}
        /\ thread' = [thread EXCEPT ![c] = "turn"]
        /\ game' = [game EXCEPT ![c] = h]
        /\ UNCHANGED <<clients, clients_mutex, pinger, client, name, fd, slot_mutex>>
    BY <1>1, <1>7, Writes DEF Update, At, Goes, gameUnchanged
  <2>3. h \in Games /\ h.slots = g.slots /\ h.turn \in {1, 2} /\ h.closing = g.closing
    <3>1. 3 - g.turn \in 0 .. 2
      BY <2>1
    <3> QED
      BY <1>1, <2>1, <3>1, Turned, Zenon
  <2> HIDE DEF h
  <2>4. GameAt("turn", h) /\ HoldsAt("turn", h) = HoldsAt(p, g)
    BY <1>1, <2>1, <2>3 DEF GameAt, Playing, HoldsAt
  <2> QED
    BY <1>1, <2>1, <2>2, <2>3, <2>4, QuietStep DEF Places
<1>8. CASE End(c)
  <2> DEFINE h == [g EXCEPT !.turn = 1]
  <2>1. /\ p = "answered" /\ server' \in {"up", "down"}
        /\ thread' = [thread EXCEPT ![c] = "ended"]
        /\ game' = [game EXCEPT ![c] = h]
        /\ UNCHANGED <<clients, clients_mutex, pinger, client, name, fd, slot_mutex>>
    BY <1>1, <1>8, Writes DEF End, At, Goes, gameUnchanged
  <2>2. h \in Games /\ h.slots = g.slots /\ h.turn = 1 /\ h.closing = g.closing
    BY <1>0, <1>1, Turned, Zenon
  <2> HIDE DEF h
  <2>3. GameAt("ended", h) /\ HoldsAt("ended", h) = HoldsAt(p, g)
    <3>1. 1 .. 2 = {1, 2}
      OBVIOUS
    <3> QED
      BY <1>1, <2>1, <2>2, <3>1 DEF GameAt, Playing, HoldsAt
  <2> QED
    BY <1>1, <2>1, <2>2, <2>3, QuietStep DEF Places
<1>9. CASE Unlist(c)
  <2> DEFINE h == [g EXCEPT !.closing = TRUE]
             o == OnTurn(c)
  <2>1. /\ p \in {"left", "told", "ended"} /\ ~g.closing
        /\ UNCHANGED <<clients_mutex, pinger, client, name, fd, server>>
        /\ game' = [game EXCEPT ![c] = h]
        /\ thread' = [thread EXCEPT ![c] = p]
    BY <1>1, <1>9 DEF Unlist, gameUnchanged
  <2>2. slot_mutex' \in [Slots -> Conns \cup {NoConn, "pinger"}]
    BY <1>1, <1>2, <1>9 DEF Unlist
  <2>3. h \in Games /\ h.slots = g.slots /\ h.turn = g.turn /\ h.closing
    BY <1>1, Unlisted
  <2>4. /\ o = g.slots[g.turn] /\ o \in Slots
        /\ Len(g.slots) = 2 /\ g.slots[1] # g.slots[2] /\ g.turn \in {1, 2}
    BY <1>1, <2>1 DEF OnTurn, GameAt, Playing, Games
  <2>5. clients' = [clients EXCEPT ![o].taken = FALSE, ![o].name = NoConn]
    BY <1>9 DEF Unlist
  <2> HIDE DEF h, o
  <2>6. GameAt(p, h) /\ HoldsAt(p, h) = HoldsAt(p, g) \ {o} /\ o \in HoldsAt(p, g)
    <3>1. 1 .. 2 = {1, 2} /\ 2 .. 2 = {2}
      OBVIOUS
    <3>2. GameAt(p, h)
      BY <2>1, <2>3, <2>4 DEF GameAt, Playing
    <3> QED
      BY <2>1, <2>3, <2>4, <3>1, <3>2 DEF HoldsAt
  <2>7. /\ clients' \in [Slots -> [taken : BOOLEAN, playing : BOOLEAN,
                              name : Names \cup {NoConn}, socket_fd : Int]]
        /\ \A i \in Slots : IF i = o THEN ~clients'[i].taken ELSE clients'[i] = clients[i]
    <3>1. clients \in [Slots -> Entries]
      BY DEF ServerInv, TypeOK, Entries
    <3>2. clients' = [clients EXCEPT ![o] = [clients[o] EXCEPT !.taken = FALSE, !.name = NoConn]]
      BY <2>5, Zenon
    <3>3. [clients[o] EXCEPT !.taken = FALSE, !.name = NoConn] \in Entries
          /\ ~[clients[o] EXCEPT !.taken = FALSE, !.name = NoConn].taken
      BY <2>4, <3>1, Struck
    <3> QED
      BY <2>4, <3>1, <3>2, <3>3 DEF Entries
  <2>8. /\ \A i \in HoldsAt(p, g) \ HoldsAt(p, h) : ~clients'[i].taken
        /\ \A i \in Slots \ (HoldsAt(p, g) \ HoldsAt(p, h)) : clients'[i] = clients[i]
    BY <2>4, <2>6, <2>7
  <2>9. /\ HoldsAt(p, h) \subseteq HoldsAt(p, g) /\ p \in Places \ {"none", "create", "marked", "pair"}
        /\ server' \in {"up", "down"} /\ fd' \in [Conns -> Int]
        /\ \A d \in Conns : fd'[d] \in {fd[d], -1}
    BY <1>1, <2>1, <2>6
  <2>10. clients' \in [Slots -> [taken : BOOLEAN, playing : BOOLEAN,
                              name : Names \cup {NoConn}, socket_fd : Int]]
    BY <2>7
  <2> HIDE DEF p, g
  <2> QED
    BY <2>1, <2>2, <2>3, <2>6, <2>8, <2>9, <2>10, GameStep DEF p, g
<1>10. CASE Close(c)
  <2>1. /\ g.closing /\ p \in {"left", "told", "ended"} /\ Len(g.slots) = 2
        /\ g.slots[1] # g.slots[2] /\ g.turn \in {1, 2} /\ 3 - g.turn \in 0 .. 2
    BY <1>0, <1>1, <1>10 DEF Close, GameAt, Playing
  <2>2. /\ UNCHANGED <<clients, clients_mutex, pinger, client, name, server>>
        /\ server' \in {"up", "down"}
    BY <1>1, <1>10 DEF Close, gameUnchanged
  <2>3. fd' \in [Conns -> Int] /\ \A d \in Conns : fd'[d] \in {fd[d], -1}
    BY <1>1, <1>10 DEF Close
  <2>4. slot_mutex' \in [Slots -> Conns \cup {NoConn, "pinger"}]
    BY <1>1, <1>2, <1>10 DEF Close
  <2>5. 1 .. 2 = {1, 2} /\ 2 .. 2 = {2}
    OBVIOUS
  <2>6. CASE p = "left" /\ Goes(c, "tell") /\ Turn(c, 3 - g.turn)
    <3> DEFINE h == [g EXCEPT !.turn = 3 - g.turn, !.closing = FALSE]
    <3>1. game' = [game EXCEPT ![c] = h] /\ thread' = [thread EXCEPT ![c] = "tell"]
      BY <1>1, <2>6 DEF Turn, Goes
    <3>2. h \in Games /\ h.slots = g.slots /\ h.turn = 3 - g.turn /\ ~h.closing
      BY <1>1, <2>1, Closed, Zenon
    <3> HIDE DEF h
    <3>3. GameAt("tell", h) /\ HoldsAt("tell", h) = HoldsAt(p, g)
      BY <1>1, <2>1, <2>6, <3>2 DEF GameAt, Playing, HoldsAt
    <3> QED
      BY <1>1, <2>1, <2>2, <2>3, <2>4, <3>1, <3>2, <3>3, QuietStep DEF Places
  <2>7. CASE p = "told" /\ Goes(c, "wait") /\ Turn(c, g.turn)
    <3> DEFINE h == [g EXCEPT !.turn = g.turn, !.closing = FALSE]
    <3>1. game' = [game EXCEPT ![c] = h] /\ thread' = [thread EXCEPT ![c] = "wait"]
      BY <1>1, <2>7 DEF Turn, Goes
    <3>2. h \in Games /\ h.slots = g.slots /\ h.turn = g.turn /\ ~h.closing
      BY <1>0, <1>1, Closed, Zenon
    <3> HIDE DEF h
    <3>3. GameAt("wait", h) /\ HoldsAt("wait", h) = HoldsAt(p, g)
      BY <1>1, <2>1, <2>7, <3>2 DEF GameAt, Playing, HoldsAt
    <3> QED
      BY <1>1, <2>1, <2>2, <2>3, <2>4, <3>1, <3>2, <3>3, QuietStep DEF Places
  <2>8. CASE p = "ended" /\ g.turn = 1 /\ Turn(c, 2) /\ UNCHANGED thread
    <3> DEFINE h == [g EXCEPT !.turn = 2, !.closing = FALSE]
    <3>1. game' = [game EXCEPT ![c] = h] /\ thread' = [thread EXCEPT ![c] = "ended"]
      BY <1>1, <2>8 DEF Turn
    <3>2. h \in Games /\ h.slots = g.slots /\ h.turn = 2 /\ ~h.closing
      BY <1>0, <1>1, Closed, Zenon
    <3> HIDE DEF h
    <3>3. GameAt("ended", h) /\ HoldsAt("ended", h) = HoldsAt(p, g)
      BY <1>1, <2>1, <2>5, <2>8, <3>2 DEF GameAt, Playing, HoldsAt
    <3> QED
      BY <1>1, <2>1, <2>2, <2>3, <2>4, <3>1, <3>2, <3>3, QuietStep DEF Places
  <2>9. CASE p = "ended" /\ g.turn = 2 /\ Goes(c, "done") /\ game' = [game EXCEPT ![c] = NoGame]
    <3>1. NoGame \in Games /\ GameAt("done", NoGame) /\ HoldsAt("done", NoGame) = HoldsAt(p, g)
      BY <1>1, <2>1, <2>5, <2>9 DEF NoGame, Games, GameAt, Playing, HoldsAt
    <3> QED
      BY <1>1, <2>1, <2>2, <2>3, <2>4, <2>9, <3>1, QuietStep DEF Places, Goes
  <2> QED
    BY <1>10, <2>6, <2>7, <2>8, <2>9, Zenon DEF Close
<1>11. CASE Tell(c)
  <2>1. /\ p = "tell" /\ server' \in {"up", "down"}
        /\ thread' = [thread EXCEPT ![c] = "told"]
        /\ game' = [game EXCEPT ![c] = g]
        /\ UNCHANGED <<clients, clients_mutex, pinger, client, name, fd, slot_mutex>>
    BY <1>1, <1>11, Writes DEF Tell, At, Goes, gameUnchanged
  <2>2. GameAt("told", g) /\ HoldsAt("told", g) = HoldsAt(p, g)
    BY <1>1, <2>1 DEF GameAt, Playing, HoldsAt
  <2> QED
    BY <1>1, <2>1, <2>2, QuietStep DEF Places
<1>12. CASE TellToWait(c)
  <2>1. /\ p = "wait" /\ server' \in {"up", "down"}
        /\ thread' = [thread EXCEPT ![c] = "done"]
        /\ game' = [game EXCEPT ![c] = NoGame]
        /\ UNCHANGED <<clients, clients_mutex, pinger, client, name, fd, slot_mutex>>
    BY <1>1, <1>12, Writes DEF TellToWait, At, Goes, gameUnchanged
  <2>2. NoGame \in Games /\ GameAt("done", NoGame) /\ HoldsAt("done", NoGame) = HoldsAt(p, g)
    BY <1>1, <2>1 DEF NoGame, Games, GameAt, Playing, HoldsAt
  <2> QED
    BY <1>1, <2>1, <2>2, QuietStep DEF Places
<1> QED
  BY <1>3, <1>4, <1>5, <1>6, <1>7, <1>8, <1>9, <1>10, <1>11, <1>12 DEF Game
------------------------------------------------------------------------------
(* The other steps.                                                        *)

LEMMA Untouched ==
    ASSUME ServerInv, UNCHANGED <<clients, thread, game>>
    PROVE  GameInv' /\ NamesDiffer' /\ SlotsAreHeld' /\ NoSlotLeaks'
<1>1. \A c \in Conns : Holds(c)' = Holds(c)
  BY DEF Holds, OnTurn
<1>2. GameInv' /\ NamesDiffer'
  BY DEF ServerInv, GameInv, NamesDiffer
<1>3. SlotsAreHeld'
  BY <1>1 DEF ServerInv, SlotsAreHeld
<1>4. NoSlotLeaks'
  BY <1>1 DEF ServerInv, NoSlotLeaks, Waits
<1> QED
  BY <1>2, <1>3, <1>4

LEMMA ClientPreserves ==
    ASSUME ServerInv, NEW c \in Conns, ClientStep(c)
    PROVE  ServerInv'
<1>1. UNCHANGED serverVars
  BY DEF ClientStep, Connect, Handle, Interrupt
<1>2. \A d \in Conns : client[d] # "off" => client'[d] # "off" /\ name'[d] = name[d]
  BY DEF ClientStep, Connect, Handle, Interrupt, Exits, ServerInv, TypeOK, Types
<1>3. TypeOK'
  BY <1>1 DEF serverVars, tableVars, ServerInv, TypeOK, Open
<1>4. Types'
  BY <1>1 DEF serverVars, ServerInv, Types, ClientStep, Connect, Handle, Interrupt, Exits
<1>5. NameInv'
  BY <1>1, <1>2 DEF serverVars, tableVars, ServerInv, NameInv
<1>6. GameInv' /\ NamesDiffer' /\ SlotsAreHeld' /\ NoSlotLeaks'
  BY <1>1, Untouched DEF serverVars, tableVars
<1> QED
  BY <1>3, <1>4, <1>5, <1>6 DEF ServerInv

LEMMA PingerPreserves ==
    ASSUME ServerInv, Ping \/ PingRead
    PROVE  ServerInv'
<1>1. UNCHANGED <<clients, clients_mutex, thread, game, fd, client, name>>
  BY DEF Ping, PingRead, pingerUnchanged, tableVars
<1>2. server' \in {"up", "down"}
  BY Writes DEF Ping, PingRead, ServerInv, TypeOK
<1>3. slot_mutex' \in [Slots -> Conns \cup {NoConn, "pinger"}]
  BY DEF Ping, PingRead, ServerInv, TypeOK
<1>4. pinger'.slot \in {pinger.slot, NextSlot}
  BY DEF Ping, PingRead, Read, PingerGoes
<1>5. NextSlot \in Slots /\ pinger.slot \in Slots
  BY TableAssumption DEF NextSlot, Slots, ServerInv, TypeOK
<1>6. TypeOK' /\ Types' /\ NameInv'
  BY <1>1, <1>2, <1>3, <1>4, <1>5 DEF ServerInv, TypeOK, Types, NameInv, Open
<1> QED
  BY <1>1, <1>6, Untouched DEF ServerInv

LEMMA AcceptorPreserves ==
    ASSUME ServerInv, NEW c \in Conns, Acceptor(c)
    PROVE  ServerInv'
<1> DEFINE p == thread[c]
           g == game[c]
<1>1. /\ p \in Places /\ g \in Games /\ GameAt(p, g)
      /\ server \in {"up", "down"} /\ fd \in [Conns -> Int]
      /\ slot_mutex \in [Slots -> Conns \cup {NoConn, "pinger"}]
      /\ thread \in [Conns -> Places] /\ game \in [Conns -> Games]
  BY DEF ServerInv, TypeOK, Types, GameInv
<1>2. CASE Accept(c)
  <2>1. /\ p = "none" /\ client[c] # "off"
        /\ thread' = [thread EXCEPT ![c] = "read"] /\ game' = [game EXCEPT ![c] = g]
        /\ fd' = [fd EXCEPT ![c] = LowestFree]
        /\ UNCHANGED <<server, clients, clients_mutex, slot_mutex, pinger, client, name>>
    BY <1>1, <1>2 DEF Accept, At, Goes, tableVars, clientVars
  <2>2. LowestFree \in Nat /\ Open(LowestFree) = {}
    BY FreeDescriptor DEF ServerInv
  <2>3. Types' /\ NamesDiffer' /\ NameInv'
    BY <2>1, <2>2 DEF ServerInv, Types, NamesDiffer, NameInv, Places
  <2>6. TypeOK'
    <3>1. \A d \in Conns : Open(fd[d])' \subseteq {d}
      BY <1>1, <2>1, <2>2 DEF ServerInv, TypeOK, Open
    <3> QED
      BY <2>1, <3>1 DEF ServerInv, TypeOK
  <2>4. GameAt("read", g) /\ HoldsAt("read", g) = {} /\ Holds(c) = {}
    BY <1>1, <2>1, HoldsIsHoldsAt DEF GameAt, HoldsAt, Playing
  <2>5. GameInv' /\ SlotsAreHeld' /\ NoSlotLeaks'
    BY <1>1, <2>1, <2>4, TableStep DEF Places
  <2> QED
    BY <2>3, <2>5, <2>6 DEF ServerInv
<1>3. CASE ReadConnect(c)
  <2>1. \E q \in {"read", "lock"} : thread' = [thread EXCEPT ![c] = q]
    BY <1>1, <1>3 DEF ReadConnect, Read, Goes, At, ServerExits
  <2>2. server' \in {"up", "down"}
    BY <1>1, <1>3 DEF ReadConnect, Read, ServerExits
  <2>3. /\ p = "read" /\ game' = [game EXCEPT ![c] = g]
        /\ UNCHANGED <<clients, clients_mutex, slot_mutex, pinger, client, name, fd>>
    BY <1>1, <1>3 DEF ReadConnect, At, tableVars
  <2>4. \A q \in {"read", "lock"} : GameAt(q, g) /\ HoldsAt(q, g) = HoldsAt(p, g)
    BY <1>1, <2>3 DEF GameAt, Playing, HoldsAt
  <2> QED
    BY <1>1, <2>1, <2>2, <2>3, <2>4, QuietStep DEF Places
<1>4. CASE check_username(c)
  <2>1. /\ p = "lock" /\ game' = [game EXCEPT ![c] = g]
        /\ UNCHANGED <<clients, slot_mutex, pinger, client, name, fd>>
        /\ clients_mutex = NoConn
    BY <1>1, <1>4 DEF check_username, At, clientVars
  <2>2. \A q \in {"done", "create"} : GameAt(q, g) /\ HoldsAt(q, g) = {} /\ HoldsAt(p, g) = {}
    BY <1>1, <2>1 DEF GameAt, Playing, HoldsAt
  <2>3. CASE thread' = [thread EXCEPT ![c] = "done"] /\ UNCHANGED clients_mutex
             /\ server' \in {"up", "down"}
    BY <1>1, <2>1, <2>2, <2>3, QuietStep DEF Places
  <2>4. CASE /\ ~\E i \in Slots : clients[i].taken /\ clients[i].name = name[c]
             /\ thread' = [thread EXCEPT ![c] = "create"] /\ clients_mutex' = c
             /\ UNCHANGED server
    <3>1. TypeOK' /\ NamesDiffer'
      BY <2>1, <2>4 DEF ServerInv, TypeOK, NamesDiffer, Open
    <3>2. Types' /\ NameInv'
      BY <1>1, <2>1, <2>4, TableAssumption DEF ServerInv, Types, NameInv, Places
    <3>3. Holds(c) = {}
      BY <2>2, HoldsIsHoldsAt
    <3>4. GameInv' /\ SlotsAreHeld' /\ NoSlotLeaks'
      BY <1>1, <2>1, <2>2, <2>4, <3>3, TableStep DEF Places
    <3> QED
      BY <3>1, <3>2, <3>4 DEF ServerInv
  <2> QED
    BY <1>1, <1>4, <2>3, <2>4, Writes DEF check_username, Goes
<1>5. CASE create_client(c)
  <2> DEFINE free == {i \in Slots : ~clients[i].taken}
             id == Min(free)
             h == [g EXCEPT !.slots = <<id>>]
             e == [taken |-> TRUE, playing |-> TRUE, name |-> name[c],
                   socket_fd |-> clients[id].socket_fd]
  <2>1. /\ p = "create" /\ UNCHANGED <<clients_mutex, slot_mutex, pinger, client, name, fd>>
    BY <1>5 DEF create_client, At, clientVars
  <2>2. CASE server' = "down" /\ UNCHANGED <<thread, clients, game>>
    <3>1. TypeOK' /\ Types' /\ NameInv'
      BY <2>1, <2>2 DEF ServerInv, TypeOK, Types, NameInv, Open
    <3> QED
      BY <2>2, <3>1, Untouched DEF ServerInv
  <2>3. CASE /\ free # {} /\ clients' = [clients EXCEPT ![id] = e]
             /\ game' = [game EXCEPT ![c].slots = <<id>>]
             /\ thread' = [thread EXCEPT ![c] = "marked"] /\ UNCHANGED server
    <3>1. id \in Slots /\ ~clients[id].taken
      <4>1. free \in SUBSET Nat
        BY DEF Slots
      <4>2. id \in free
        BY <2>3, <4>1, MinIn
      <4> QED
        BY <4>2
    <3> HIDE DEF id, free
    <3>2. game' = [game EXCEPT ![c] = h] /\ h \in Games /\ h.slots = <<id>> /\ ~h.closing
      <4>1. ~g.closing
        BY <1>1, <2>1 DEF GameAt
      <4>2. <<id>> \in Seq(Slots)
        BY <3>1
      <4>3. game' = [game EXCEPT ![c] = h]
        BY <1>1, <2>3
      <4> QED
        BY <1>1, <4>1, <4>2, <4>3, Dealt, Zenon
    <3> HIDE DEF h
    <3>3. GameAt("marked", h) /\ HoldsAt("marked", h) = {id} /\ Holds(c) = {}
      <4>1. GameAt("marked", h) /\ HoldsAt("marked", h) = {id}
        BY <3>2 DEF GameAt, HoldsAt, Playing
      <4>2. Holds(c) = {}
        BY <2>1, HoldsIsHoldsAt DEF HoldsAt
      <4> QED
        BY <4>1, <4>2
    <3>4. \A d \in Conns : id \notin Holds(d)
      BY <3>1 DEF ServerInv, SlotsAreHeld
    <3>5. e \in Entries /\ clients \in [Slots -> Entries] /\ name[c] \in Names \cup {NoConn}
          /\ e.taken /\ e.playing /\ e.name = name[c]
      BY <1>1, <3>1 DEF ServerInv, TypeOK, Types, Entries
    <3> HIDE DEF e
    <3>6. /\ clients' \in [Slots -> Entries] /\ clients'[id] = e
          /\ \A i \in Slots \ {id} : clients'[i] = clients[i]
      BY <2>3, <3>1, <3>5
    <3>7. TypeOK' /\ Types'
      <4>1. TypeOK'
        BY <2>1, <2>3, <3>6 DEF ServerInv, TypeOK, Open, Entries
      <4>2. Types'
        BY <1>1, <2>1, <2>3, <3>2 DEF ServerInv, Types, Places
      <4> QED
        BY <4>1, <4>2
    <3>8. \A i \in Slots : clients[i].taken => clients[i].name # name[c]
      BY <2>1 DEF ServerInv, NameInv
    <3>9. NamesDiffer'
      BY <3>5, <3>6, <3>8 DEF ServerInv, NamesDiffer
    <3>10. NameInv'
      BY <1>1, <2>1, <2>3 DEF ServerInv, NameInv
    <3>11. GameInv' /\ SlotsAreHeld' /\ NoSlotLeaks'
      <4>1. /\ \A i \in Slots \ (Holds(c) \cup HoldsAt("marked", h)) : clients'[i] = clients[i]
            /\ \A i \in Holds(c) \ HoldsAt("marked", h) :
                 ~clients'[i].taken \/ ~clients'[i].playing
        BY <3>3, <3>6
      <4>2. \A i \in HoldsAt("marked", h) :
              /\ clients'[i].taken /\ clients'[i].playing
              /\ \A d \in Conns \ {c} : i \notin Holds(d)
        BY <3>3, <3>4, <3>5, <3>6
      <4>3. "marked" \in Places
        BY DEF Places
      <4> QED
        BY <2>3, <3>2, <3>3, <4>1, <4>2, <4>3, TableStep
    <3> QED
      BY <3>7, <3>9, <3>10, <3>11 DEF ServerInv
  <2> QED
    BY <1>5, <2>2, <2>3 DEF create_client, Goes, ServerExits
<1>8. CASE StoreDescriptor(c)
  <2> DEFINE id == g.slots[1]
             e == [clients[id] EXCEPT !.socket_fd = fd[c]]
  <2>1. /\ p = "marked" /\ game' = [game EXCEPT ![c] = g]
        /\ thread' = [thread EXCEPT ![c] = "pair"]
        /\ clients' = [clients EXCEPT ![Head(g.slots)].socket_fd = fd[c]]
        /\ UNCHANGED <<server, clients_mutex, slot_mutex, pinger, client, name, fd>>
    BY <1>1, <1>8 DEF StoreDescriptor, At, Goes, clientVars
  <2>2. /\ id \in Slots /\ Head(g.slots) = id /\ Holds(c) = {id}
        /\ GameAt("pair", g) /\ HoldsAt("pair", g) = {id}
    <3>1. Len(g.slots) = 1 /\ g.slots \in Seq(Slots)
      BY <1>1, <2>1 DEF GameAt, Games
    <3>2. Holds(c) = {id}
      BY <1>1, <2>1, HoldsIsHoldsAt DEF HoldsAt, GameAt
    <3>3. GameAt("pair", g) /\ HoldsAt("pair", g) = {id}
      BY <1>1, <2>1 DEF GameAt, HoldsAt, Playing
    <3> QED
      BY <3>1, <3>2, <3>3
  <2>3. clients[id].taken /\ clients[id].playing
    BY <2>2 DEF ServerInv, SlotsAreHeld
  <2> HIDE DEF id
  <2>4. e \in Entries /\ e.taken /\ e.playing /\ e.name = clients[id].name
    <3>1. clients[id] \in Entries /\ fd[c] \in Int
      BY <1>1, <2>2 DEF ServerInv, TypeOK, Entries
    <3> QED
      BY <2>3, <3>1, Stored, Zenon
  <2>5. clients' = [clients EXCEPT ![id] = e]
    BY <2>1, <2>2
  <2> HIDE DEF e
  <2>6. /\ clients' \in [Slots -> Entries] /\ clients'[id] = e
        /\ \A i \in Slots \ {id} : clients'[i] = clients[i]
    BY <2>2, <2>4, <2>5 DEF ServerInv, TypeOK, Entries
  <2>7. TypeOK' /\ Types'
    <3>1. TypeOK'
      BY <2>1, <2>6 DEF ServerInv, TypeOK, Open, Entries
    <3>2. Types'
      BY <1>1, <2>1 DEF ServerInv, Types, Places
    <3> QED
      BY <3>1, <3>2
  <2>8. NamesDiffer'
    BY <2>3, <2>4, <2>6, NamesKept
  <2>9. NameInv'
    BY <1>1, <2>1, <2>6 DEF ServerInv, NameInv
  <2>10. GameInv' /\ SlotsAreHeld' /\ NoSlotLeaks'
    <3>1. \A d \in Conns \ {c} : id \notin Holds(d)
      BY <2>2 DEF ServerInv, SlotsAreHeld
    <3>2. "pair" \in Places
      BY DEF Places
    <3>3. /\ \A i \in Slots \ (Holds(c) \cup HoldsAt("pair", g)) : clients'[i] = clients[i]
          /\ \A i \in Holds(c) \ HoldsAt("pair", g) :
               ~clients'[i].taken \/ ~clients'[i].playing
      BY <2>2, <2>6
    <3>4. \A i \in HoldsAt("pair", g) :
            /\ clients'[i].taken /\ clients'[i].playing
            /\ \A d \in Conns \ {c} : i \notin Holds(d)
      BY <2>2, <2>4, <2>6, <3>1
    <3> HIDE DEF g
    <3> QED
      BY <1>1, <2>1, <2>2, <3>2, <3>3, <3>4, TableStep
  <2> QED
    BY <2>7, <2>8, <2>9, <2>10 DEF ServerInv
<1>6. CASE connect_pending(c)
  <2> DEFINE pending == {i \in Slots : clients[i].taken /\ ~clients[i].playing}
             i == Min(pending)
             id == Head(g.slots)
             h == [g EXCEPT !.slots = <<i, id>>]
  <2>1. /\ p = "pair" /\ clients_mutex' = NoConn /\ clients_mutex = c
        /\ UNCHANGED <<server, slot_mutex, pinger, client, name, fd>>
    BY <1>6 DEF connect_pending, At, clientVars, ServerInv, NameInv
  <2>2. /\ Len(g.slots) = 1 /\ ~g.closing /\ id = g.slots[1] /\ id \in Slots
        /\ Holds(c) = {id}
    <3>1. Len(g.slots) = 1 /\ ~g.closing
      BY <1>1, <2>1 DEF GameAt
    <3>2. g.slots \in Seq(Slots)
      BY <1>1 DEF Games
    <3>3. Holds(c) = {g.slots[1]}
      BY <2>1, HoldsIsHoldsAt DEF HoldsAt
    <3> QED
      BY <3>1, <3>2, <3>3
  <2>3. clients[id].taken /\ clients[id].playing
    BY <2>2 DEF ServerInv, SlotsAreHeld
  <2>4. clients \in [Slots -> Entries]
    BY DEF ServerInv, TypeOK, Entries
  <2> HIDE DEF id
  <2>5. CASE /\ pending # {} /\ clients' = [clients EXCEPT ![i].playing = TRUE]
             /\ game' = [game EXCEPT ![c].slots = <<i, id>>]
             /\ thread' = [thread EXCEPT ![c] = "start"]
    <3>1. i \in Slots /\ clients[i].taken /\ ~clients[i].playing
      <4>1. pending \in SUBSET Nat
        BY DEF Slots
      <4>2. i \in pending
        BY <2>5, <4>1, MinIn
      <4> QED
        BY <4>2
    <3> HIDE DEF i, pending
    <3>2. i # id
      BY <2>3, <3>1
    <3>3. game' = [game EXCEPT ![c] = h] /\ h \in Games /\ h.slots = <<i, id>> /\ ~h.closing
      <4>1. <<i, id>> \in Seq(Slots)
        BY <2>2, <3>1
      <4>2. game' = [game EXCEPT ![c] = h]
        BY <1>1, <2>5
      <4> QED
        BY <1>1, <2>2, <4>1, <4>2, Dealt, Zenon
    <3> HIDE DEF h
    <3>4. GameAt("start", h) /\ HoldsAt("start", h) = {i, id}
      BY <3>2, <3>3 DEF GameAt, HoldsAt, Playing
    <3>5. \A d \in Conns : i \notin Holds(d)
      BY <3>1 DEF ServerInv, SlotsAreHeld
    <3>6. /\ clients' \in [Slots -> Entries]
          /\ clients'[i].taken /\ clients'[i].playing /\ clients'[i].name = clients[i].name
          /\ \A j \in Slots \ {i} : clients'[j] = clients[j]
      <4> DEFINE e == [clients[i] EXCEPT !.playing = TRUE]
      <4>1. clients' = [clients EXCEPT ![i] = e]
        BY <2>5, Zenon
      <4>2. e \in Entries /\ e.taken /\ e.playing /\ e.name = clients[i].name
        <5>1. clients[i] \in Entries /\ TRUE \in BOOLEAN /\ clients[i].taken
          BY <2>4, <3>1
        <5>2. /\ [clients[i] EXCEPT !.playing = TRUE].taken = clients[i].taken
              /\ [clients[i] EXCEPT !.playing = TRUE].playing = TRUE
          BY <5>1, Marked, Zenon
        <5> QED
          BY <5>1, <5>2, Marked, Zenon
      <4> HIDE DEF e
      <4> QED
        BY <2>4, <3>1, <4>1, <4>2
    <3>7. TypeOK' /\ Types'
      <4>1. TypeOK'
        BY <2>1, <3>6, TableAssumption DEF ServerInv, TypeOK, Open, Entries
      <4>2. Types'
        BY <1>1, <2>1, <2>5, <3>3 DEF ServerInv, Types, Places
      <4> QED
        BY <4>1, <4>2
    <3>8. NamesDiffer'
      BY <3>1, <3>6 DEF ServerInv, NamesDiffer
    <3>9. NameInv'
      BY <1>1, <2>1, <2>5, <3>6, TableAssumption DEF ServerInv, NameInv
    <3>10. GameInv' /\ SlotsAreHeld' /\ NoSlotLeaks'
      <4>1. /\ \A j \in Slots \ (Holds(c) \cup HoldsAt("start", h)) : clients'[j] = clients[j]
            /\ \A j \in Holds(c) \ HoldsAt("start", h) :
                 ~clients'[j].taken \/ ~clients'[j].playing
        BY <2>2, <3>4, <3>6
      <4>2. \A d \in Conns \ {c} : id \notin Holds(d)
        BY <2>2 DEF ServerInv, SlotsAreHeld
      <4>3. \A j \in HoldsAt("start", h) :
              /\ clients'[j].taken /\ clients'[j].playing
              /\ \A d \in Conns \ {c} : j \notin Holds(d)
        BY <2>2, <2>3, <3>2, <3>4, <3>5, <3>6, <4>2
      <4>4. "start" \in Places
        BY DEF Places
      <4> QED
        BY <2>5, <3>3, <3>4, <4>1, <4>3, <4>4, TableStep
    <3> QED
      BY <3>7, <3>8, <3>9, <3>10 DEF ServerInv
  <2>6. CASE /\ clients' = [clients EXCEPT ![id].playing = FALSE]
             /\ game' = [game EXCEPT ![c] = g]
             /\ thread' = [thread EXCEPT ![c] = "waiting"]
    <3>1. /\ clients' \in [Slots -> Entries]
          /\ clients'[id].taken /\ ~clients'[id].playing /\ clients'[id].name = clients[id].name
          /\ \A j \in Slots \ {id} : clients'[j] = clients[j]
      <4> DEFINE e == [clients[id] EXCEPT !.playing = FALSE]
      <4>1. clients' = [clients EXCEPT ![id] = e]
        BY <2>6, Zenon
      <4>2. e \in Entries /\ e.taken /\ ~e.playing /\ e.name = clients[id].name
        BY <2>2, <2>3, <2>4, Marked
      <4> HIDE DEF e
      <4> QED
        BY <2>2, <2>4, <4>1, <4>2
    <3>2. TypeOK' /\ Types'
      <4>1. TypeOK'
        BY <2>1, <3>1, TableAssumption DEF ServerInv, TypeOK, Open, Entries
      <4>2. Types'
        BY <1>1, <2>1, <2>6 DEF ServerInv, Types, Places
      <4> QED
        BY <4>1, <4>2
    <3>3. NamesDiffer'
      BY <2>3, <3>1 DEF ServerInv, NamesDiffer
    <3>4. NameInv'
      BY <1>1, <2>1, <2>6, <3>1, TableAssumption DEF ServerInv, NameInv
    <3>5. GameAt("waiting", g) /\ HoldsAt("waiting", g) = {}
      BY <2>2 DEF GameAt, HoldsAt, Playing
    <3>6. GameInv' /\ SlotsAreHeld' /\ NoSlotLeaks'
      <4>1. /\ \A j \in Slots \ (Holds(c) \cup HoldsAt("waiting", g)) : clients'[j] = clients[j]
            /\ \A j \in Holds(c) \ HoldsAt("waiting", g) :
                 ~clients'[j].taken \/ ~clients'[j].playing
        BY <2>2, <3>1, <3>5
      <4>2. "waiting" \in Places
        BY DEF Places
      <4> QED
        BY <1>1, <2>6, <3>5, <4>1, <4>2, TableStep
    <3> QED
      BY <3>2, <3>3, <3>4, <3>6 DEF ServerInv
  <2> QED
    BY <1>1, <1>6, <2>5, <2>6 DEF connect_pending, Goes, id
<1>7. CASE WriteWaiting(c)
  <2>1. /\ p = "waiting" /\ server' \in {"up", "down"}
        /\ thread' = [thread EXCEPT ![c] = "done"] /\ game' = [game EXCEPT ![c] = g]
        /\ UNCHANGED <<clients, clients_mutex, slot_mutex, pinger, client, name, fd>>
    BY <1>1, <1>7, Writes DEF WriteWaiting, At, Goes, tableVars, clientVars
  <2>2. GameAt("done", g) /\ HoldsAt("done", g) = HoldsAt(p, g)
    BY <1>1, <2>1 DEF GameAt, Playing, HoldsAt
  <2> QED
    BY <1>1, <2>1, <2>2, QuietStep DEF Places
<1> QED
  BY <1>2, <1>3, <1>4, <1>5, <1>6, <1>7, <1>8 DEF Acceptor

LEMMA Initially == Init => ServerInv
<1> SUFFICES ASSUME Init PROVE ServerInv
  OBVIOUS
<1>1. TypeOK
  BY TableAssumption DEF Init, TypeOK, Slots, Open
<1>2. Types
  BY DEF Init, Types, NoGame, Games, Places
<1>3. GameInv /\ NameInv
  BY TableAssumption DEF Init, GameInv, GameAt, Playing, NameInv, NoGame
<1>4. \A c \in Conns : Holds(c) = {}
  BY DEF Init, Holds
<1>5. \A i \in Slots : ~clients[i].taken
  BY DEF Init
<1>6. NamesDiffer /\ SlotsAreHeld /\ NoSlotLeaks
  BY <1>4, <1>5 DEF Init, NamesDiffer, SlotsAreHeld, NoSlotLeaks
<1> QED
  BY <1>1, <1>2, <1>3, <1>6 DEF ServerInv

LEMMA ServerInvariant == Spec => []ServerInv
<1>1. ServerInv /\ [Next]_vars => ServerInv'
  <2> SUFFICES ASSUME ServerInv, [Next]_vars PROVE ServerInv'
    OBVIOUS
  <2>1. CASE UNCHANGED vars
    <3>1. TypeOK' /\ Types' /\ NameInv'
      BY <2>1 DEF vars, tableVars, ServerInv, TypeOK, Types, NameInv, Open
    <3> QED
      BY <2>1, <3>1, Untouched DEF vars, ServerInv
  <2> QED
    BY <2>1, PingerPreserves, ClientPreserves, AcceptorPreserves, GamePreserves DEF Next
<1> QED
  BY <1>1, Initially, PTL DEF Spec
------------------------------------------------------------------------------
\* Every variable keeps its type, no descriptor is open twice, and the pinger goes
\* round inside the table, for any number of connections and slots (server.c:222).
THEOREM TypeCorrect == Spec => []TypeOK
  BY ServerInvariant, PTL DEF ServerInv

\* No two clients in the table have the same name, although other threads free
\* slots between the check and the entry (check_username, create_client).
THEOREM NamesDifferTheorem == Spec => []NamesDiffer
  BY ServerInvariant, PTL DEF ServerInv

\* disconnect_client frees only slots of its own thread, and none of them is given
\* to another client before (server.c:365-369, which takes no clients_mutex).
THEOREM SlotsAreHeldTheorem == Spec => []SlotsAreHeld
  BY ServerInvariant, PTL DEF ServerInv

\* A taken slot waits for an opponent or will be freed by some thread.
THEOREM NoSlotLeaksTheorem == Spec => []NoSlotLeaks
  BY ServerInvariant, PTL DEF ServerInv
==============================================================================
