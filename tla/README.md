# TLA+ models of the sysopy laboratories

The repository holds the exercises of an operating systems course in C: ten
laboratories and two exams, each a small program of its own. This directory
models the ones whose difficulty is concurrency -- processes around semaphores
and shared memory, threads around condition variables, processes around message
queues, sockets, pipes and signals -- and says what holds of them, what does not, and why.
Paths below are relative to `src/`.

## 1. The programs

| program | actors and state | operations | how they interact | what is hard |
|---|---|---|---|---|
| `lab07/src/SystemV` pizzeria | N cooks, M suppliers; `struct pizzeria` in shared memory; five System V semaphores | `make_pizza`, `deliver`; `main` sets up, `handle_stop` ends | shared memory, `semop` on one or two semaphores at once | counters and slots updated by several processes, unbounded scans, a place returned too early, shutdown under running processes |
| `lab07/src/POSIX` pizzeria | the same, with named POSIX semaphores | the same | `sem_wait`, `sem_post` one at a time | as above, and a `sem_post` in place of a `sem_wait` |
| `lab09` Santa | one Santa, 9 reindeers, 10 elves (threads); two counters, a workshop of three places; a mutex, three conditions | `start_routine_santa`, `_reindeer`, `_elf`; `main`, `close_threads`, `stophandler` | condition variables | lost, early and unbidden wake-ups, one condition for two purposes, a mutex held by a finished thread |
| `lab06/src/SystemV` chat | a server with a list of clients; clients; one message queue each | `handle_init/connect/list/disconnect/stop`, `exit_handler`; `connect`, `list`, `disconnect`, `stop`, `direct_connection` | System V message queues | crossing requests, answers taken for other answers, sends to queues that are gone, uninitialized messages |
| `lab06/src/POSIX` chat | the same over POSIX queues | the same | `mq_send` with the type as priority | reordering by priority, sends that wait for room, queues that go on without a name, no check for busy clients |
| `lab10/tcp` tic-tac-toe | server: an acceptor thread per connection (which then plays the game), a pinger, 32 client slots; clients | `accepting_routine`, `pinger_routine`, `game_connection`, `check_board`, `disconnect_client`; one handler per message in the client | stream sockets, mutexes per client and for the table | the pinger reads answers that are not to it; slots freed without the table's mutex; descriptors that are used again; writes to clients that are gone; a board checked incompletely |
| `lab10/udp` | the same over datagram sockets | the same | datagrams into one local variable; `accept` fails on a datagram socket | a message overwritten while a thread copies it; nothing is ever sent to a client |
| `lab08` negate | threads over one image | `start_routine_numbers`, `start_routine_blocks` | shared array without locks | each cell exactly once |
| `lab05` | pipelines (`ex1`), producers and consumers over a fifo | `exec`; `producer`, `consumer` | pipes, `flock` | ends of pipes left open; records written in pieces; positions computed from lengths; a temporary file that is not emptied |
| `lab04` | signal senders and catchers | `ex1`, `ex2`, `ex3/a`, `ex3/b` | standard, queued and real-time signals | coalescing, overtaking, handlers that interrupt each other; an answer that precedes the wait for it |
| `kol2` | `CondVar`, `semFile_V`, datagram calculator | | condition variable, semaphore around a file, sockets | lost wake-up |
| `kol1` | `ForkWait`, `Signals`, `FileDescriptors` | | fork/wait, signals, descriptors | exit statuses of eight bits |
| `lab01`, `lab02`, `lab03` | merge library, file filters, process trees | | sequential; fork | index arithmetic, a temporary file shared by children |

What makes each modelled program correct:

- *Pizzeria*: a slot has one pizza; counts are exact and within capacity; no
  semaphore unit is lost; every pizza prepared is eventually placed and taken
  once.
- *Santa*: nobody sleeps through what he waits for; Santa drives with the whole
  team and helps the elves who are in the workshop; all deliveries are made and
  the program ends.
- *Chat*: requests come from clients the server knows; a client is busy only
  while it talks; each request gets its answer.
- *Tic-tac-toe*: players move in turn; a complete line ends the game; the winner
  is the one who has it; names in the table are unique, a slot belongs to one
  game until that game frees it, and none is lost.
- *The others*: signals sent back are those that were counted; the shell sees
  the end of its pipeline; a record is in its line, whole; every cell is negated
  once; the thread that waits for a count is joined with the right sum.

## 2. Modules

| module | models |
|---|---|
| `SlotStore` | abstract: users who each hold at most one slot, a slot with at most one holder |
| `Pizzeria` | `struct pizzeria` and every step of cooks and suppliers on it (both programs) |
| `PizzeriaSysV` | the System V program: `semop`, `make_pizza`, `deliver`; its properties |
| `PizzeriaPosix` | the POSIX program: `sem_wait`/`sem_post`, the same memory steps |
| `Santa` | `lab09/src/main.c` |
| `ChatSysV` | `lab06/src/SystemV/{server,client}.c` |
| `TicTacToe` | one game: `game_connection`, `check_board` of `lab10/tcp/src/server.c` and `handle_end` of the client |
| `TicTacToeServer` | the rest of `lab10/tcp`: clients, acceptors, the threads of games, the pinger |
| `TicTacToeUdp` | the server's loop, threads and table in `lab10/udp`, and the clients |
| `ChatPosix` | `lab06/src/POSIX/{server,client}.c` |
| `Signals` | `lab04/src/ex3/{a,b}/{sender,catcher}.c` |
| `Pipeline` | `exec` of `lab05/src/ex1.c`, and the commands it runs |
| `Fifo` | `lab05/src/{producer,consumer}.c` |
| `Negate` | `negate` and the two routines of `lab08/src/negate.c` |
| `CondVar` | `kol2/.../CondVar/main.c` |
| `Programs` | the small programs side by side: `TicTacToe`, `TicTacToeUdp`, `Signals`, `Pipeline`, `Fifo`, `Negate` and `CondVar`, one of them per behaviour; their properties |
| `MC*` | instances for TLC |
| `*Proofs` | the proofs about the module they are named after; `ProgramsProofs` is about `Negate`, `TicTacToeUdp` and `Signals` within `Programs` |

Operators named as faulty variants in comments (`EnterOvenUnlocked`, ...) are
not part of any specification. Each is a plausible slip in one definition, and
serves to see that a property notices it (`mutants` in `PROJECT.json`).

### State and actions

**Pizzeria.** The variables `oven`, `ovens_taken`, `table`, `tables_taken`,
`table_queue_start` are the fields of the struct; `sem` holds the five
semaphores; `pc`, `scan`, `index`, `loaded`, `pizza` are the locals of each
process. A memory access is a step: `ovens_taken++` is `LoadOvens` then
`StoreOvens`, a scan looks at one word per step (`LookOven`, `LookTable`,
`LookForPizza`), a slot is claimed in a step of its own. `ReadPizza` covers both
builds: the one that keeps the word it tested and the one that reads it again.
The scan for a free table slot can leave the array, so `Word` says what lies
behind it: the two counters, then the zeroes of the page. A pizza put there
only makes a later scan end a word later and is read by nothing else, so it is not
kept. `made` and
`delivered` count pizzas and are seen by no action but the bound on `made`.

`PizzeriaSysV` adds the seven `semop` calls, each with its set of operations,
and composes the steps in program order (`BakePizza`, `PlacePizza`,
`SupplyPizza`). `PizzeriaPosix` composes the same steps with single-semaphore
calls; `ReenterOven` is the `sem_post` of `POSIX/cook.c:94`.

**Santa.** All data is accessed with the mutex held, so a stretch from obtaining
the mutex to giving it up is one action: `SantaChecks` is the test before and
after `cond_wait`, `SantaReturns` the stretch after the delivery, and so on. A
waiting thread that is woken moves to a `woken` state and must obtain the mutex
again. `WakesUnbidden` is the return of a `cond_wait` that nobody signalled, of any
thread; three of the four waits are in a loop, the elf's in the workshop is not.
`unbidden` is a history variable: the elves of the present group whose wait there
ended so. `abandoned` records that Santa's thread has ended with the mutex.

**ChatSysV.** `clients` is the server's list, `srvq` and `queue` are the message
queues, `pc` says in which call each client is. Every handler is an action, with
the exit of a process whose send fails; `handle_connect` is two actions since it
sends twice (`HandleConnect`, `TellSecond`), and so are the ends of a direct
connection and `stop`. The server's SIGINT handler sends STOP to one client per
step. `buffer` is the message that `direct_connection` leaves uninitialized:
until something is received into it, a line goes out with any type, or fails.

**TicTacToe.** One action per answer of the player on turn; an answer that is
refused leaves everything as it is. Characters are numbers in a signed `char`;
`check_board` has the order of the code, with its early returns.

**TicTacToeServer.** `clients` is the table; `thread` says where the acceptor of
each connection is, which is also the thread of the game it starts (`game`);
`pinger` is at one slot. Each critical section under `clients_mutex` is split
where a thread that does not take it could come between: `check_username`,
`create_client` (the slot is marked), `StoreDescriptor` (until then the pinger finds
the descriptor of the client before), `connect_pending`. `disconnect_client` takes no lock and is two
actions, `Unlist` (the slot) and `Close` (the descriptor), since another client
may have the slot by the time it is closed. `fd` gives descriptors out again,
lowest first. Messages that a client only prints are not kept in `toClient`.
What clients send is a stream of pieces of eight bytes:
a message is three, with its type in the last; an answer to a ping or a question
is one (`sizeof(msg)` of a pointer). `Read` takes what is there, three pieces at
most, wherever messages begin: less than three leave the type that was there; of
three, the last is the type, and a piece of data in its place may name any type: here
one that a client goes on with and one that ends it. So a message read behind an answer is torn, and its rest is
read as the next one. At the end of the stream nothing is changed. A write to a
client that has gone is lost, or ends the server by SIGPIPE. The outcome of a
move (refused, counted, the last one) is a free choice; `TicTacToe` says which
it is. The model ends with the server.

**TicTacToeUdp.** `args` is the variable of the main loop that each datagram is
received into; a thread copies name and type from it in two steps (`Copy`), in
either order, and may find another message there by then. Since `accept` fails
(and `read` of descriptor -1 leaves the copied message as it is), a client is
entered with descriptor -1: no send to it succeeds, the pinger changes nothing,
and a game reads the spaces of its own board for a move and refuses it for
ever. What remains are the same three steps under `clients_mutex` as over TCP,
and no slot is ever freed.

**ChatPosix.** As `ChatSysV`, with `out`: what a process has still to send, in
order. A process with something in `out` does nothing else, and `MqSend` takes
one message out when there is room. `Enqueue` orders a queue by priority.
`missed` is a history variable: the client took an invitation for the answer to
INIT or LIST.

**Signals.** A process is a stack of frames, `main` and the handlers that have
interrupted it. `Deliver` puts a frame on top, with the mask that `sigaction`
and `SA_NODEFER` give it; a frame in `sigsuspend` is `asleep` and lets both
signals in. Standard signals that are pending already are not kept twice.

**Pipeline, Fifo, Negate, CondVar.** One action per system call or per access to
shared data. `Pipeline` follows which process holds which end of which pipe;
`Fifo` moves records character by character, a text being one character, and
takes texts short enough for `realloc` in `readtosep` not to move them (its
caller goes on with the old pointer). Its `tmp` is the temporary file, which is
there at the start or is not, with any of `Leftovers` in it: `writeaddline` writes
over its beginning and copies all of it back, and without it the consumer crashes,
after which a producer that writes is killed. In `Negate` a cell is read two or three
times and written once, modulo 256, each in a step of its own; in `CondVar` a wait may also
end without a signal.

## 3. Runs

| run | instance | what it shows |
|---|---|---|
| `pizzeria_sysv` | 3 cooks, 2 suppliers, oven 2, table 2, 3 pizzas of two kinds | `TypeOK`, `OvenCountExact`, `OvenSlotsOwned`, `OvenScanInBounds`, `TableUnits`, `PizzasAccounted`, `NoOverwrite`, and that the oven implements `SlotStore` |
| `pizzeria_sysv_live` | 2 cooks, 1 supplier, oven 1, table 1, 4 pizzas, fairness | `PizzaLeavesOven`, `PizzaIsPlaced`, `SoleSupplierCarriesPizza` |
| `pizzeria_sysv_table` | 1 cook, 1 supplier, the real capacities | **violated**: `TableCountBounded` |
| `pizzeria_posix` | 3 cooks, 1 supplier, oven 2, table 2, 3 pizzas of two kinds | `OvenScanInBounds`, `TableUnits`, `NoOverwrite` hold in spite of the wrong `sem_post` |
| `pizzeria_posix_oven` | 2 cooks | **violated**: `OvenCountBounded` |
| `santa` | 2 reindeers, 3 elves, groups of 2, 2 deliveries, waits that may end unbidden, fairness | `NoLostWakeUp`, `GroupIsSound`, `NoElfForgotten`, `WholeTeamDrives`, `AllJobsDone` |
| `santa_ends` | the same | **violated**: `CancelledReindeerEnds` |
| `chat_sysv` | 2 clients, 4 typed lines | `SendersAreListed`, `BusyHasReason`, `AnswerIsComing` |
| `chat_posix` | 2 clients, queues of 2 messages, 3 typed lines | `SendersAreListed`, `BusyHasReason`, `AnswerIsComing` |
| `tictactoe_server` | 3 connections, 2 slots, 2 names | `NamesDiffer`, `SlotsAreHeld`, `NoSlotLeaks` |
| `tictactoe_ping` | the same | **violated**: `OpponentHasLeft` |
| `programs` | whole games with answers 0..10; 3 signals in both programs and all modes; 3 commands, 2 lines, pipes of one line; 2 producers of 2 texts for lines 3 and 1, with no temporary file, an empty one, or one with newlines or with newlines and other characters; an image of 3 by 2 cells, one of them above `pixel_max`, one or two threads; a count to 4 with threshold 3; the UDP table with 2 clients and 2 slots; fairness | `TurnsAlternate`, `WinnersHaveLine`, `ColumnEndsGame`, `CountsAreSound`, `TextsInPlace`, `NegatedOnce`, `TableIsSound`, `ProgramsEnd` |

**Why the bounds are enough.** Three cooks over two slots give the crowded oven
and a cook that waits at each door; two suppliers give the race for a pizza. The
invariants that TLC checks on the two pizzerias, on Santa, on both chats, on the
game and on its server are proved for all sizes (section 4), so there the bounds
matter for liveness and for the violations only. With one-slot stores each semaphore blocks at once, which is
what liveness is about. One elf more than a group makes one of them queue.
Two clients suffice to cross requests, to be connected to themselves, to leave a
line or a DISCONNECT behind in a queue and to take it for an answer, which needs
four lines; a third client adds a partner but no new handler. Over POSIX queues
three lines and two messages per queue already make every send wait, the
server's included, and let a reply overtake an invitation. Three connections
over two slots with two names give a game and a latecomer that is refused its
name, finds the table full, or gets a slot and a descriptor that were just
freed. The tic-tac-toe games are not bounded: 0 and 10 stand for every number
that is no field. Three signals coalesce, overtake and nest; a pipeline of three
has a command with pipes on both sides; two producers of two records interleave
in every place where a record may be cut, and line 3 is written before lines 1
and 2 exist, while what was left in the temporary file shifts the lines; three columns are no multiple of two threads; two
clients over UDP are up to four threads, one of which can copy a message that
both have had a part in, and a third entry finds the table full.
`MaxPizzas` and `MaxCommands` end behaviours, so deadlock is not checked in
those runs; in the others the system may stop (game over, Santa finished, the
server of the game down, a program at its end).

**Fairness.** `PizzeriaSysV!Fairness` is strong fairness for each process: the
kernel serves those who wait for a semaphore in turn, so a cook is not passed
over for ever. `Santa!Fairness` is weak fairness of each thread: sleeps end and
a mutex that stays free is obtained; no wait has to end without a signal. `Prepare` is in a fair action and so is
fair, but bounded. `MCFairness` is weak fairness of each process and thread of the
small programs, with all their steps: the kernel runs what can run. What need
not happen has none: a command that ends early, a wait that ends without a
signal.

### What the violations show

1. `deliver` returns the place on the table in the `semop` that takes the pizza's
   announcement, while the slot is still occupied. A sixth pizza is placed and
   the count becomes 6, against `lab07/wnioski.txt:2`.
2. The POSIX cook posts `oven_place` where it must wait for it. Updates of
   `ovens_taken` are lost and the count exceeds the oven, against the same line.
   The array is still safe: see `OvenScanInBounds`.
3. Santa ends with the mutex held (`lab09/src/main.c:94`), a woken reindeer waits
   for it for ever, and so does `main`, who joins it.
4. The pinger reads answers into the message it pings with
   (`lab10/tcp/src/server.c:237`). A client that leaves while it is pinged leaves
   its MSG_DISCONNECT there, and the client in the next slot, still waiting for
   its first opponent, is told that its opponent has left and exits.

### What else the models show

Each of the following is a behaviour of the models. The first three go against
what the repository says:

- `check_board` returns before it comes to what its comments announce, "check
  rows" and "check diagonals" (`lab10/tcp/src/server.c:334`): a game goes on over a
  complete row or diagonal.
- The consumer opens its temporary file without emptying it
  (`lab05/src/consumer.c:45`) and copies all of it back (line 68). With what a run
  before has left, and the repository has such files (`lab05/test1.out.tmp`), the
  first text brings newlines with it, and later texts come into lines of others,
  against `lab05/wnioski.txt:1`. What holds even then is `TextsInPlace`: no text
  is lost, torn or mixed, and each has the right number of other characters before it.
- Two threads that divide an image by value may both negate a cell, as it is read
  again after its value has been looked at (`lab08/src/negate.c:169`), against the
  comment in lines 167 and 168.

No statement of the repository speaks of the others:

- A full board without a column is no draw: the game asks for ever.
- An elf may be woken by the broadcast of the one that completed the group and
  report help it has not got (`lab09/src/main.c:155`). If its wait ends without a
  signal before the group is complete, it may come back and fill a second place.
- A consumer that finds no temporary file crashes at its first text
  (`lab05/src/consumer.c:46`), and its producers with it.
- Program b of lab04 hangs if the acknowledgement arrives between `kill` and
  `sigsuspend`; program a may hang with real-time signals, whose order lets the
  answer be interrupted by a handler that never returns.
- The POSIX chat's server that stops may wait for room in the queue of a client
  that waits for room in the server's.
- Over UDP the first client that exits ends the server (its message is not
  MSG_CONNECT), and no client is ever told anything.
- A client refused for its name keeps its connection and no slot; a player who
  never answers holds its slot's mutex, and the pinger with it; a write to a
  client that has gone may end the server by SIGPIPE.

`AllJobsDone` has an exception built in, `LeftOut`: a reindeer too slow to see
the count reset waits on, and is not counted in the next team, which then never
is complete. This is so in the code; nothing there says it may not be.

In the chat, `FromBusy` in `BusyHasReason` is a request that is going to end the
server: two clients that ask for each other at the same time are enough.

## 4. Proofs

Every invariant and action property that a passing run checks on `PizzeriaSysV`,
`PizzeriaPosix`, `Santa`, `ChatSysV`, `ChatPosix`, `TicTacToe` and
`TicTacToeServer` is a theorem about the module's `Spec`, and so is the
refinement of `SlotStore`; of the four invariants on `Programs` three are
theorems about `ProgramsSpec`. Hardly any of them is inductive. Each proofs module
starts with the invariant that is, has a lemma for each action (or for a family
of actions that leave alone what matters), and derives the theorems at its end.

The constants are arbitrary but for these assumptions:

| assumption | says | because |
|---|---|---|
| `PizzeriaAssumption` | finitely many cooks and suppliers, none both; stores of one slot or more; pizzas are numbers | `main` starts given numbers of each; `utils.h` has the sizes |
| `SantaAssumption` | a team is all reindeers; a group is one elf or more and not more than there are | the `#define`s of `main.c` |
| `ChatAssumption`, `ChatPosixAssumption` | clients are not called `Nobody` or `Server`; a POSIX queue holds one message or more | both are values of the models' own; `utils.h` has the size |
| `TicTacToeAssumption` | the fields are among the answers, which are integers | a player answers with an `int` |
| `TableAssumption` | one slot or more, finitely many connections, none called `NoConn` or "pinger" | as for clients; a process has finitely many descriptors |
| `NegateAssumption` | an image has a column or more; its rows, the greatest value and the bound on threads are natural numbers, its cells are 0 to 255 | numbers that `load_image` and `main` read; cells are unsigned chars, and need not keep to the greatest value; there are one thread or more |
| `UdpAssumption` | the number of slots is a natural number | the `#define` of `utils.h` |
| `SignalsAssumption` | the number of signals is a natural number | the loop of the sender, with no turn for 0 and below |

**`PizzeriaSysVProofs`: the oven.**

- `TypeCorrect`: the index kept by a supplier needs the range of the modulo
  (`ModuloInSlots`), the semaphores `SemopTypes`.
- `OvenInvariant`: the inductive invariant `OvenInv`. That an update of the
  counter is not lost depends on nobody else being between load and store.
  `OvenInv` is the conjunction of `DoorInv` (`OVEN_PLACE` is 1 and nobody is at
  the door, or 0 and exactly one cook is), `UnitsInv` (`OVEN_IN` plus the cooks
  in the oven is `OVEN_CAP`), `CountInv` (the counter, and the value loaded by
  the cook at the door), `SlotInv` (who holds which slot) and `ScanInv` (slots
  the scan has passed are taken). `QuietStep` disposes of the steps that touch
  nothing of this.
- `OvenCountTheorem`, `OvenSlotsTheorem`, `OvenScanTheorem` follow. The last
  needs `FreeSlotExists`: fewer cooks hold slots than there are slots, by
  counting (`FiniteSetTheorems`).
- `OvenImplementsStore`: every step of the program is a step of `SlotStore` or
  a stutter, under the mapping of `held` to the index of a cook who holds a
  slot; `ClaimOven` is `Acquire`, `FreeOven` is `Release`.

**`PizzeriaSysVProofs`: the table.** `TableInv` says that one cook at most is at
the table and holds `TABLE_PLACE`, that the units add up, and that the slot a
cook is about to fill is still free. From it `TableUnitsTheorem` and
`NoOverwriteTheorem`. `PizzasAccounted` is inductive with the types; each step
moves a process from one of its sets to another. `SoleSupplierTheorem` needs
`SoleInv`: from the look that finds a pizza to the read of its number nothing
empties the slot, as cooks empty none and there is no other supplier.

**`PizzeriaPosixProofs`.** Since `oven_place` does not exclude, two cooks may claim
one slot, and one may free what another still uses: nothing like `SlotInv` holds.
`OvenScanInBounds` rests on `oven_in` alone. `TakenInv` says that a slot that is
taken still has a holder (perhaps not the first), and `BeyondInv` that at most
`OVEN_CAP - i` cooks scan or hold a slot at `i` or beyond: a cook that passes a
taken slot leaves its holder behind. At the end of the array there is nobody.
The table is as in System V, but with a `sem_wait` and `sem_post` for each unit
and other processes in between.

**`SantaProofs`.** `SantaIInv`: when Santa drives or helps, the count that made him
do so is still there, since nobody changes it meanwhile (`SantaInv`); counted
reindeers have not left (`TeamInv`), so a full count is the whole team; no elf
of an incomplete group has been woken by another (`GroupInv`): who has been
woken otherwise is in `unbidden`. That an elf is in two places of the workshop only
if it is in `unbidden` needs this, since an elf that has been woken leaves. `NoLostWakeUp`,
`GroupIsSound` and `NoElfForgotten` are parts of it, and
`WholeTeamTheorem` is the action property that follows.

**`ChatSysVProofs`.** `OrderInv`: in the public queue, INIT is a client's first
request and STOP its last, a client with requests is listed or has its INIT
among them, and nobody is listed before that. This is what makes the list right
about each request that is taken. `AnswerInv` and `BusyInv` restate the two
other properties client by client; the step in which a client takes a message
for the answer to INIT or LIST, and with it perhaps its invitation, needs to
know what else there is: in `wait_list` the last request is LIST (`AskedInv`),
and a busy client has a second reason (`WaitInv`).

**`ChatPosixProofs`.** What a process has still to send is part of the state, and
any send may wait. `OutInv` says which requests can be on the way out, by where
the client is. `OrderInv` is about the public queue with what clients have in
`out` behind it: a client that has sent nothing yet is `Fresh` and not listed, one
whose STOP is in the queue is `Done`. Messages overtake each other in the queues
of clients; `Enqueued` shows that a queue stays sorted (`PlaceExists`: a sorted
queue has one place for a message, by the least index of lower priority) and
keeps what was in it, which is all that `AnswerInv` and `BusyInv` need, as a
client that took its invitation for another answer has `missed` set.

**`TicTacToeProofs`.** `GameInv` is the types, that ticks alternate and
reports agree, and what is said of columns. The work is in
`check_board`, which adds characters in eight bits. While the game goes on nobody
has a column, so a move completes at most one; further lines complete with it
have the same tick and at most six are added; no multiple up to the sixth of 79
or 88 is 0 modulo 256, so the sum does not hide the column. Nor is it the other's
tick or 'd': the winner is who has the column, hence a line (`WinnersHaveLine`;
that it is a column, `WinnersHaveColumn`, is a step of the proof and no property: it is the early
return's doing). `Count` counts the
ticks of a board field by field, for `TurnsAlternate`.

**`TicTacToeServerProofs`.** `ServerInv`: what a thread may rely on by where it is
(`GameInv`), which slots it holds (`HoldsAt`), and that who holds
`clients_mutex` between `check_username` and `create_client` has a name that is
in no slot (`NameInv`). `disconnect_client` takes no lock, but `TableStep` shows that
a thread changes no slot of another, so names only disappear meanwhile and a
slot is not given away before it has been freed. `FreeDescriptor` (there are
more numbers than connections, `FS_PigeonHole`) keeps descriptors distinct.

**`ProgramsProofs`.** As a behaviour of `Programs` is one of a single program, each
invariant is that of a component under the guard `program = ...`; steps of the
others leave its variables alone.

- `NegateInv`. Threads take no lock, so it must be that no two of them ever have
  the same cell: `Owns` says which cells are a thread's (columns from
  `t * coeff` to `(t + 1) * coeff - 1`; the last block may be short, or empty
  when there are more threads than columns), `Passed` which of these lie behind it
  in the order of `NextCell`. A cell is negated exactly if some thread has passed
  it. That the blocks cover the image and do not overlap is arithmetic about
  quotients and remainders with unknown divisors, in lemmas of its own. With the
  method "numbers" and several threads the statement is false (end of section 3);
  it holds for one thread.
- `UdpInv`. What a thread has copied may be a mixture of two messages, so the
  invariant says nothing about whose message it is, only what each can be made of
  (`UdpTypes`), and that what is no MSG_CONNECT comes from a client that has left
  (`LeaversToBlame`). The table rests on the mutex, held from the check of a name
  to the pairing (`MutexHeld`, `EntriesDiffer`), and on who holds which slots
  (`SlotsPlaced`, `PlayersHeld`).
- `SignalsInv`. In program a nothing is lost sight of: an s1 is pending, or its
  handler is on the stack and has not counted (`Uncounted`, one at most as such a
  handler blocks s1: `Blocked`), or it has been counted. Standard signals that
  coalesce only make the sum smaller (`SentCounted`). What comes back is bounded
  by the index of the one handler of s2 (`OneS2`), which stays below the count it
  read last (`BackCounted`). In program b one s1 is under way at most, on one side
  or the other (`OneUnderWay`); the sender sends s2 only when there is none, and
  nothing is uncounted from then on (`AllCounted`). Handlers of s1 do not block
  s1 there, but with one under way they cannot pile up uncounted
  (`OnlyTopFresh`). A handler that interrupts another is an element of a
  sequence, hence the lemmas `SignalsAlters`, `SignalsPushes` and `SignalsPops`
  about what a step does to a stack.

**Only model-checked.** Liveness: `PizzaLeavesOven`, `PizzaIsPlaced`,
`AllJobsDone`, `ProgramsEnd`. They rest on fairness, which the prover does not
handle. `TextsInPlace`: the consumer inserts at a position that is a sum over
the lengths of lines, and the property counts what precedes a text; both
are folds over sets of unknown size, and what a fold yields is proved by
induction over data, which is out of reach of the installed provers. The four
violations are counterexamples and need no proof.

## 5. What is not modelled

Within the modelled programs: the shutdown of the pizzeria; the joins after
the first in Santa; the capacity of System V queues (about
eight messages of this size) and the instant between `handle_init`'s append and
its reply; numbers that users type as chat lines and that happen to be queue
ids; in the tic-tac-toe server its set-up, its own SIGINT and the pointer that
acceptors get into the events array; several consumers on one fifo, and texts
for which `realloc` moves the buffer; file formats and command lines everywhere. Output is left out
except where a finding is about it.

Not modelled at all: lab01 to lab03 (sequential libraries and process trees, in
which the work is done by the file system), `kol1`, and the rest of `kol2`.
`PROJECT.json` lists them with reasons under `components`.

## 6. What could come next

1. `TextsInPlace`, with a prover that does induction on sequences.
2. A module for the lemmas on lists and queues that the two chats share.
3. The pizzeria's shutdown, if it can be stated what it promises.
