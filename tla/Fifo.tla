-------------------------------- MODULE Fifo --------------------------------
(***************************************************************************)
(* lab05 ex3: producers send chunks of text to one consumer through a      *)
(* fifo, each chunk with the number of the line it belongs to; the         *)
(* consumer inserts it into its file at the end of that line, by means of  *)
(* a temporary file, which it opens for each chunk, writes over and never  *)
(* empties.  The producers have all opened the fifo before any of them has *)
(* finished, or the consumer has crashed (a producer sleeps before its     *)
(* first write).                                                           *)
(*                                                                         *)
(* A chunk and a number are one character each, <<"text", p, k>> and       *)
(* <<"row", n>>.                                                           *)
(***************************************************************************)
EXTENDS Integers, SequencesExt, FiniteSetsExt

CONSTANTS Producers,
          RowOf,       \* the line of each producer, from 1
          Chunks,      \* chunks in the file of each
          Leftovers,   \* what the temporary file may hold at the start
          NoFile       \* there is none

VARIABLES producer,    \* chunks read; how much of the current one is written
          flock,       \* who has the lock
          fifo,        \* characters on the way
          consumer,    \* what it reads, and the number it has read before
          file,        \* the consumer's file
          tmp,         \* the temporary file
          len          \* fileinfo: what each line has got so far

Init ==
    /\ producer = [p \in Producers |-> [k |-> 0, at |-> "open"]]
    /\ flock = {}
    /\ fifo = <<>>
    /\ consumer = [part |-> "row", data |-> <<>>, rowno |-> 0]
    /\ file = <<>>
    /\ tmp \in Leftovers
    /\ len = <<0>>
------------------------------------------------------------------------------
Sep == <<"sep">>
consumerSide == <<consumer, file, tmp, len>>

\* What follows the position within a record; the fourth write ends it.
Written == [row |-> "sep1", sep1 |-> "text", text |-> "sep2", sep2 |-> "unlock"]
Character(p) ==
    CASE producer[p].at = "row" -> <<"row", RowOf[p]>>
      [] producer[p].at = "text" -> <<"text", p, producer[p].k>>
      [] OTHER -> Sep

\* Faulty variant: a producer writes without waiting for the lock.
LockAnyway(p) ==
    /\ producer[p].at = "open" /\ producer[p].k < Chunks
    /\ flock' = {p}
    /\ producer' = [producer EXCEPT ![p] = [k |-> @.k + 1, at |-> "row"]]
    /\ UNCHANGED <<fifo, consumerSide>>

\* fread of the next chunk, and flock.
Lock(p) ==
    /\ producer[p].at = "open" /\ producer[p].k < Chunks
    /\ flock = {}
    /\ flock' = {p}
    /\ producer' = [producer EXCEPT ![p] = [k |-> @.k + 1, at |-> "row"]]
    /\ UNCHANGED <<fifo, consumerSide>>

\* Nobody left to read: the writer is killed, and the lock goes with its file.
Write(p) ==
    /\ producer[p].at \in DOMAIN Written
    /\ IF consumer.part \in {"done", "crashed"}
         THEN /\ producer' = [producer EXCEPT ![p].at = "killed"]
              /\ flock' = {}
              /\ UNCHANGED fifo
         ELSE /\ fifo' = Append(fifo, Character(p))
              /\ producer' = [producer EXCEPT ![p].at = Written[@]]
              /\ UNCHANGED flock
    /\ UNCHANGED consumerSide

Unlock(p) ==
    /\ producer[p].at = "unlock"
    /\ flock' = {}
    /\ producer' = [producer EXCEPT ![p].at = "open"]
    /\ UNCHANGED <<fifo, consumerSide>>

\* At the end of its file.
Close(p) ==
    /\ producer[p].at = "open" /\ producer[p].k = Chunks
    /\ producer' = [producer EXCEPT ![p].at = "closed"]
    /\ UNCHANGED <<flock, fifo, consumerSide>>
------------------------------------------------------------------------------
\* strtol of what was read as a number.
Number(data) == IF data # <<>> /\ data[1][1] = "row" THEN data[1][2] ELSE 0

\* writeaddline: lines are added until there is one after rowno, the text is
\* inserted behind what the first rowno lines have got, all this is written over
\* the beginning of the temporary file, and the whole of that is copied back.
writeaddline(text, rowno) ==
    LET more == IF rowno < Len(len) THEN 0 ELSE rowno + 1 - Len(len)
        lens == len \o [i \in 1 .. more |-> 0]
        original == file \o [i \in 1 .. more |-> <<"newline">>]
        pos  == MapThenSumSet(LAMBDA i : lens[i], 1 .. rowno) + rowno
        copy == SubSeq(original, 1, pos) \o text \o SubSeq(original, pos + 1, Len(original))
    IN /\ tmp' = copy \o SubSeq(tmp, Len(copy) + 1, Len(tmp))
       /\ file' = tmp'
       /\ len' = IF rowno = 0 THEN lens ELSE [lens EXCEPT ![rowno] = @ + Len(text)]

\* readtosep: a character is kept until a separator, or the end of the fifo, ends
\* the number or the text.  An empty text ends the consumer; so does a temporary
\* file that cannot be opened, once there is a text to insert.
Read ==
    /\ consumer.part \in {"row", "text"}
    /\ LET end == fifo = <<>> /\ \A p \in Producers : producer[p].at = "closed"
       IN \/ /\ fifo # <<>> /\ Head(fifo) # Sep
             /\ consumer' = [consumer EXCEPT !.data = Append(@, Head(fifo))]
             /\ fifo' = Tail(fifo)
             /\ UNCHANGED <<file, tmp, len>>
          \/ /\ end \/ (fifo # <<>> /\ Head(fifo) = Sep)
             /\ fifo' = IF end THEN fifo ELSE Tail(fifo)
             /\ \/ /\ consumer.part = "row"
                   /\ consumer' = [part |-> "text", data |-> <<>>,
                                   rowno |-> Number(consumer.data)]
                   /\ UNCHANGED <<file, tmp, len>>
                \/ /\ consumer.part = "text" /\ tmp = NoFile
                   /\ consumer' = [consumer EXCEPT !.part = "crashed"]
                   /\ UNCHANGED <<file, tmp, len>>
                \/ /\ consumer.part = "text" /\ tmp # NoFile
                   /\ writeaddline(consumer.data, consumer.rowno)
                   /\ consumer' = [part |-> IF consumer.data = <<>> THEN "done" ELSE "row",
                                   data |-> <<>>, rowno |-> 0]
    /\ UNCHANGED <<producer, flock>>

ProducerStep(p) == Lock(p) \/ Write(p) \/ Unlock(p) \/ Close(p)
Next == Read \/ \E p \in Producers : ProducerStep(p)

Finished == consumer.part = "done"
\* Without a temporary file the consumer crashes, and every producer with it that
\* has something to write.
Ended ==
    \/ Finished
    \/ tmp = NoFile /\ consumer.part = "crashed"
          /\ \A p \in Producers : producer[p].at \in {"closed", "killed"}
------------------------------------------------------------------------------
\* The positions in the file of the texts behind n other characters.
InLine(n) ==
    LET other(i) == Cardinality({j \in 1 .. i : file[j][1] # "text"})
    IN SetToSortSeq({i \in DOMAIN file : other(i) = n /\ file[i][1] = "text"},
                    LAMBDA i, j : i < j)

\* Though producers write in four pieces and positions are computed from lengths,
\* no text is lost, torn apart, overtaken or put with another producer's, whatever
\* the temporary file held: the texts for line n come, in their order, behind n
\* characters that are no texts, which are newlines unless others were left in the
\* temporary file (consumer.c:43-72, producer.c:31-36).
TextsInPlace ==
    \A p \in Producers :
      LET line == InLine(RowOf[p])
      IN /\ \A i \in DOMAIN line : file[line[i]] = <<"text", p, i>>
         /\ Finished => Len(line) = Chunks
==============================================================================
