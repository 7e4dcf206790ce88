--------------------------- MODULE ProverbServer ---------------------------
(***************************************************************************)
(* proverb_server.py: whoever opens the named pipe reads the next proverb. *)
(* The server cannot tell its clients apart: the pipe has one buffer, and  *)
(* opening it for writing succeeds as long as anybody has it open for      *)
(* reading, also a client that has had its proverb.  The clients run cat.  *)
(* The k-th line sent stands for proverbs[k % len(proverbs)].              *)
(***************************************************************************)
EXTENDS Integers, Sequences

CONSTANTS
  Reader,
  MaxProverbs  \* bound on the lines sent

VARIABLES
  fdw,      \* the server: "closed", "open" or "written", "died", "stopped"
  proverb,  \* the lines sent
  fifo,     \* the lines in the pipe
  reader,   \* each client: "away", "opening", "reading", "at end", "ended"
  heard     \* what each has read

vars == <<fdw, proverb, fifo, reader, heard>>

HasOpen == {c \in Reader : reader[c] \in {"opening", "reading", "at end"}}
Writing == fdw \in {"open", "written"}

Init ==
  /\ fdw = "closed" /\ proverb = 0 /\ fifo = <<>>
  /\ reader = [c \in Reader |-> "away"] /\ heard = [c \in Reader |-> <<>>]

-----------------------------------------------------------------------------
\* Mutant: open does not wait for a reader.
OpenAtOnce ==
  /\ fdw = "closed" /\ proverb < MaxProverbs
  /\ fdw' = "open"
  /\ reader' = [c \in Reader |-> IF reader[c] = "opening" THEN "reading" ELSE reader[c]]
  /\ UNCHANGED <<proverb, fifo, heard>>

\* open blocks until there is a reader, and lets in those that wait.
OpenForWriting ==
  /\ fdw = "closed" /\ HasOpen # {} /\ proverb < MaxProverbs
  /\ fdw' = "open"
  /\ reader' = [c \in Reader |-> IF reader[c] = "opening" THEN "reading" ELSE reader[c]]
  /\ UNCHANGED <<proverb, fifo, heard>>

\* Mutant: the number of the proverb stays.
WriteSame ==
  /\ fdw = "open" /\ HasOpen # {}
  /\ fifo' = Append(fifo, proverb)
  /\ fdw' = "written"
  /\ UNCHANGED <<proverb, reader, heard>>

\* The line is in the buffer of the file until close writes it.
Write ==
  /\ fdw = "open" /\ HasOpen # {}
  /\ fifo' = Append(fifo, proverb)
  /\ fdw' = "written" /\ proverb' = proverb + 1
  /\ UNCHANGED <<reader, heard>>

\* The last reader has left in the meantime: BrokenPipeError, and the named
\* pipe stays behind.
WriteFails ==
  /\ fdw = "open" /\ HasOpen = {}
  /\ fdw' = "died"
  /\ UNCHANGED <<proverb, fifo, reader, heard>>

\* The pipe forgets its contents when nobody has it open.
CloseWritten ==
  /\ fdw = "written"
  /\ fdw' = "closed"
  /\ fifo' = IF HasOpen = {} THEN <<>> ELSE fifo
  /\ UNCHANGED <<proverb, reader, heard>>

\* Ctrl+C: the end of the program closes the pipe, and its name is removed.
Stop ==
  /\ fdw \in {"closed", "open", "written"}
  /\ fdw' = "stopped"
  /\ fifo' = IF HasOpen = {} THEN <<>> ELSE fifo
  /\ UNCHANGED <<proverb, reader, heard>>

-----------------------------------------------------------------------------
OpenForReading(c) ==
  /\ reader[c] = "away" /\ fdw # "stopped"
  /\ reader' = [reader EXCEPT ![c] = IF Writing THEN "reading" ELSE "opening"]
  /\ UNCHANGED <<fdw, proverb, fifo, heard>>

Read(c) ==
  /\ reader[c] = "reading" /\ fifo # <<>>
  /\ heard' = [heard EXCEPT ![c] = @ \o fifo] /\ fifo' = <<>>
  /\ UNCHANGED <<fdw, proverb, reader>>

ReadsEnd(c) ==
  /\ reader[c] = "reading" /\ fifo = <<>> /\ ~Writing
  /\ reader' = [reader EXCEPT ![c] = "at end"]
  /\ UNCHANGED <<fdw, proverb, fifo, heard>>

Leave(c) ==
  /\ reader[c] = "at end"
  /\ reader' = [reader EXCEPT ![c] = "ended"]
  /\ fifo' = IF HasOpen = {c} /\ ~Writing THEN <<>> ELSE fifo
  /\ UNCHANGED <<fdw, proverb, heard>>

ServerStep == OpenForWriting \/ Write \/ WriteFails \/ CloseWritten
ReaderStep(c) == Read(c) \/ ReadsEnd(c) \/ Leave(c)
Next ==
  \/ ServerStep \/ Stop
  \/ \E c \in Reader : OpenForReading(c) \/ ReaderStep(c)

-----------------------------------------------------------------------------
\* A proverb is read by one client, once, and each client reads in the order
\* of sending; a client that leaves with nothing shared its connection with
\* another, or the server was stopped.
ProverbsAreSentOnce ==
  /\ \A c, d \in Reader : \A i \in 1 .. Len(heard[c]), j \in 1 .. Len(heard[d]) :
       heard[c][i] = heard[d][j] => c = d /\ i = j
  /\ \A c \in Reader : \A i \in 1 .. Len(heard[c]) - 1 : heard[c][i] < heard[c][i + 1]
  /\ \A c \in Reader : reader[c] \in {"at end", "ended"} /\ heard[c] = <<>> =>
       fdw = "stopped" \/ \E d \in Reader \ {c} : reader[d] # "away"

\* Only a client that had the end of an earlier connection ahead of it and
\* leaves during the next one makes the server die.
DiesOfALateLeave ==
  fdw = "died" => proverb > 0 /\ \E c \in Reader : reader[c] = "ended"

\* Whoever gets the pipe open leaves again; whoever waits for it does too,
\* unless the server is gone or has sent all that the bound allows.
ReadersLeave ==
  \A c \in Reader :
    /\ reader[c] = "reading" ~> reader[c] = "ended"
    /\ reader[c] = "opening" ~> reader[c] = "ended" \/ fdw \in {"died", "stopped"}
                                 \/ proverb = MaxProverbs
=============================================================================
