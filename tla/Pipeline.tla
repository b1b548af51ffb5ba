------------------------------ MODULE Pipeline ------------------------------
(***************************************************************************)
(* lab05 ex1, exec: a shell forks the commands of a pipeline, connects     *)
(* them with pipes and waits for all of them.  Pipe i leads from command i *)
(* to command i + 1.  A reader is told the end of the file only when no    *)
(* process has the pipe's write end open.                                  *)
(***************************************************************************)
EXTENDS Integers

CONSTANTS command_size,
          Lines,           \* lines the first command writes
          PipeCapacity

VARIABLES shell,    \* the loop's i, and what the shell does
          ends,     \* the ends of pipes each process holds; 0 is the shell
          command,  \* the state of each command, and the lines it has written
          pipe      \* the lines in each pipe

pipeVars == <<shell, ends, command, pipe>>

Commands == 1 .. command_size
Pipes == 1 .. command_size - 1

Init ==
    /\ shell = [i |-> 1, at |-> "fork"]
    /\ ends = [p \in 0 .. command_size |-> {}]
    /\ command = [c \in Commands |-> [at |-> "none", written |-> 0]]
    /\ pipe = [i \in Pipes |-> 0]

BothEnds(i) == {i} \X {"read", "write"}

\* pipe, unless the command is the last one, and fork.
Fork ==
    /\ shell.at = "fork" /\ shell.i <= command_size
    /\ LET i == shell.i
           held == ends[0] \cup (IF i < command_size THEN BothEnds(i) ELSE {})
       IN /\ ends' = [ends EXCEPT ![0] = held, ![i] = held]
          /\ command' = [command EXCEPT ![i].at = "forked"]
    /\ shell' = [shell EXCEPT !.at = "close"]
    /\ UNCHANGED pipe

\* The shell closes the pipe that leads to the command; the other one is the next
\* command's.
CloseOld ==
    /\ shell.at = "close"
    /\ ends' = [ends EXCEPT ![0] = @ \ BothEnds(shell.i - 1)]
    /\ shell' = [i |-> shell.i + 1, at |-> "fork"]
    /\ UNCHANGED <<command, pipe>>

\* waitpid, one command after the other.
WaitForAll ==
    /\ shell = [i |-> command_size + 1, at |-> "fork"]
    /\ \A c \in Commands : command[c].at = "ended"
    /\ shell' = [shell EXCEPT !.at = "done"]
    /\ UNCHANGED <<ends, command, pipe>>

\* Faulty variant: the child does not close the end that the pipe it reads from
\* is written to.
RedirectKeeping(c) ==
    /\ command[c].at = "forked"
    /\ ends' = [ends EXCEPT ![c] = @ \ {<<c, "read">>}]
    /\ command' = [command EXCEPT ![c].at = "runs"]
    /\ UNCHANGED <<shell, pipe>>

\* dup2 and close: what is left is the command's input and output; then exec.
Redirect(c) ==
    /\ command[c].at = "forked"
    /\ ends' = [ends EXCEPT ![c] = (@ \ (BothEnds(c - 1) \cup BothEnds(c)))
                                   \cup (@ \cap {<<c - 1, "read">>, <<c, "write">>})]
    /\ command' = [command EXCEPT ![c].at = "runs"]
    /\ UNCHANGED <<shell, pipe>>
------------------------------------------------------------------------------
(* The commands: the first writes, the others write a line for each line   *)
(* they read.  Any may end early.                                          *)

Held(end) == \E p \in DOMAIN ends : end \in ends[p]

Ends(c) ==
    /\ command' = [command EXCEPT ![c].at = "ended"]
    /\ ends' = [ends EXCEPT ![c] = {}]
    /\ UNCHANGED <<shell, pipe>>

Reads(c) ==
    /\ command[c].at = "runs" /\ c > 1
    /\ \/ /\ pipe[c - 1] > 0
          /\ pipe' = [pipe EXCEPT ![c - 1] = @ - 1]
          /\ command' = [command EXCEPT ![c].at = "writes"]
          /\ UNCHANGED <<shell, ends>>
       \/ pipe[c - 1] = 0 /\ ~Held(<<c - 1, "write">>) /\ Ends(c)

Writes(c) ==
    /\ \/ command[c].at = "writes"
       \/ c = 1 /\ command[c].at = "runs" /\ command[c].written < Lines
    /\ \/ /\ c < command_size /\ pipe[c] < PipeCapacity
          /\ pipe' = [pipe EXCEPT ![c] = @ + 1]
          /\ command' = [command EXCEPT ![c] = [at |-> "runs", written |-> @.written + 1]]
          /\ UNCHANGED <<shell, ends>>
       \/ /\ c = command_size
          /\ command' = [command EXCEPT ![c] = [at |-> "runs", written |-> @.written + 1]]
          /\ UNCHANGED <<shell, ends, pipe>>
       \/ c < command_size /\ ~Held(<<c, "read">>) /\ Ends(c)

HasWritten == command[1].at = "runs" /\ command[1].written = Lines /\ Ends(1)

EndsEarly(c) == command[c].at = "runs" /\ Ends(c)

CommandStep(c) == Redirect(c) \/ Reads(c) \/ Writes(c) \/ (c = 1 /\ HasWritten)
ShellStep == Fork \/ CloseOld \/ WaitForAll

Next == ShellStep \/ \E c \in Commands : CommandStep(c) \/ EndsEarly(c)

Finished == shell.at = "done"
==============================================================================
