------------------------------- MODULE Programs -------------------------------
(***************************************************************************)
(* The small programs of the repository side by side: games of TicTacToe,  *)
(* TicTacToeUdp, Signals, Pipeline, Fifo, Negate and CondVar.  A behaviour *)
(* is one of one of them; nothing is shared.                               *)
(***************************************************************************)
EXTENDS TicTacToe, Sequences

CONSTANTS to_send,
          command_size, Lines, PipeCapacity,
          Producers, RowOf, Chunks, Leftovers, NoFile,
          width, height, pixel_max, Picture, MaxThreads,
          reps, Threshold, Added,
          Clients, NameOf, MAX_CLIENT_COUNT

VARIABLES program,
          variant, rt, pending, frames, received,
          shell, ends, command, pipe,
          producer, flock, fifo, consumer, file, tmp, len,
          method, threads_no, cells, negater,
          count, mutex, waiter, main,
          server, clients, clients_mutex, args, acceptor, client, datagrams

S == INSTANCE Signals
P == INSTANCE Pipeline
F == INSTANCE Fifo
N == INSTANCE Negate
C == INSTANCE CondVar
U == INSTANCE TicTacToeUdp

ASSUME NegateAssumption == N!NegateParameters
ASSUME SignalsAssumption == S!SignalsParameters
ASSUME UdpAssumption == U!UdpParameters

signals  == <<variant, rt, pending, frames, received>>
pipeline == <<shell, ends, command, pipe>>
fifos    == <<producer, flock, fifo, consumer, file, tmp, len>>
negate   == <<method, threads_no, cells, negater>>
condvar  == <<count, mutex, waiter, main>>
udp      == <<server, clients, clients_mutex, args, acceptor, client, datagrams>>
allVars  == <<program, vars, signals, pipeline, fifos, negate, condvar, udp>>

ProgramsInit ==
    /\ program \in {"tictactoe", "signals", "pipeline", "fifo", "negate", "condvar", "udp"}
    /\ Init /\ S!Init /\ P!Init /\ F!Init /\ N!Init /\ C!Init /\ U!Init
    /\ program # "signals" => variant = "a" /\ ~rt
    /\ program # "negate" => method = "block" /\ threads_no = 1

\* Steps of the programs; the others keep their initial state.
Game == Next /\ UNCHANGED <<program, signals, pipeline, fifos, negate, condvar, udp>>
Signal(step) ==
    /\ step /\ UNCHANGED <<program, variant, rt>>
    /\ UNCHANGED <<vars, pipeline, fifos, negate, condvar, udp>>
Pipe(step) == step /\ UNCHANGED <<program, vars, signals, fifos, negate, condvar, udp>>
FifoStep(step) == step /\ UNCHANGED <<program, vars, signals, pipeline, negate, condvar, udp>>
Negates(step) ==
    /\ step /\ UNCHANGED <<program, method, threads_no>>
    /\ UNCHANGED <<vars, signals, pipeline, fifos, condvar, udp>>
Counting(step) == step /\ UNCHANGED <<program, vars, signals, pipeline, fifos, negate, udp>>
Udp(step) == step /\ UNCHANGED <<program, vars, signals, pipeline, fifos, negate, condvar>>

ProgramsNext ==
    \/ program = "tictactoe" /\ Game
    \/ program = "signals" /\ Signal(S!Next)
    \/ program = "pipeline" /\ Pipe(P!Next)
    \/ program = "fifo" /\ FifoStep(F!Next)
    \/ program = "negate" /\ Negates(N!Next)
    \/ program = "condvar" /\ Counting(C!Next)
    \/ program = "udp" /\ Udp(U!Next)

\* Every process and thread goes on when it can; no command has to end early and
\* no wait has to end without a signal.
ProgramsFairness ==
    /\ WF_allVars(program = "signals" /\ Signal(S!SenderStep))
    /\ WF_allVars(program = "signals" /\ Signal(S!CatcherStep))
    /\ WF_allVars(program = "pipeline" /\ Pipe(P!ShellStep))
    /\ \A c \in 1 .. command_size : WF_allVars(program = "pipeline" /\ Pipe(P!CommandStep(c)))
    /\ WF_allVars(program = "fifo" /\ FifoStep(F!Read))
    /\ \A p \in Producers : WF_allVars(program = "fifo" /\ FifoStep(F!ProducerStep(p)))
    /\ \A t \in 0 .. MaxThreads - 1 :
         WF_allVars(program = "negate" /\ t < threads_no /\ Negates(N!ThreadStep(t)))
    /\ WF_allVars(program = "condvar" /\ Counting(C!MainStep))
    /\ WF_allVars(program = "condvar" /\ Counting(C!WaiterStep))

ProgramsSpec == ProgramsInit /\ [][ProgramsNext]_allVars /\ ProgramsFairness

\* What a sender and a catcher count (Signals).
CountsAreSound == program = "signals" => S!CountsAreSound
\* What the consumer of a fifo writes (Fifo).
TextsInPlace == program = "fifo" => F!TextsInPlace
\* What threads that negate an image do to it (Negate).
NegatedOnce == program = "negate" => N!NegatedOnce
\* What the server of the UDP game enters into its table (TicTacToeUdp).
TableIsSound == program = "udp" => U!TableIsSound

\* Nobody waits for ever: the signals of program a with standard signals are sent
\* back and both processes end; the shell sees every command of a pipeline end;
\* the consumer of a fifo sees the end of all producers, or has crashed and they
\* end with it; main joins its threads and finds the right sum.
ProgramsEnd ==
    <>(CASE program = "signals" -> S!Finished \/ variant = "b" \/ rt
         [] program = "pipeline" -> P!Finished
         [] program = "fifo" -> F!Ended
         [] program = "negate" -> N!Finished
         [] program = "condvar" -> C!Finished
         [] OTHER -> TRUE)
==============================================================================
