----------------------------- MODULE WorkerPool -----------------------------
(***************************************************************************)
(* socketpair.c: a parent, its workers and a pair of sockets for each; the *)
(* parent polls the sockets for results until it has enough of them, sends *)
(* FF to the other workers and ends.  A worker inherits the parent's       *)
(* sockets to the workers before it, and keeps them open.                  *)
(***************************************************************************)
EXTENDS Integers, FiniteSets

CONSTANTS
  Workers,    \* 10
  Need,       \* 5
  Bytes       \* of a result: 4

Worker == 1 .. Workers

VARIABLES
  main,            \* "spawn"; "poll"; "finish"; "ended"; "failed"; "killed" by SIGPIPE
  i, results,      \* of main
  open,            \* workers[i].s is not -1
  data_received,   \* bytes of each result
  to_main,         \* bytes in the socket, sent by the worker
  to_worker,       \* FF is in the socket
  worker,          \* "unborn"; "compute"; "send"; "ended"; "killed" by SIGPIPE
  to_send          \* of child_main

mainVars == <<main, i, results, open, data_received>>
vars == <<mainVars, to_main, to_worker, worker, to_send>>

Init ==
  /\ main = "spawn" /\ i = 1 /\ results = 0
  /\ open = [w \in Worker |-> FALSE] /\ data_received = [w \in Worker |-> 0]
  /\ to_main = [w \in Worker |-> 0] /\ to_worker = [w \in Worker |-> FALSE]
  /\ worker = [w \in Worker |-> "unborn"] /\ to_send = [w \in Worker |-> Bytes]

Gone(w) == worker[w] \in {"ended", "killed"}
Lives(w) == worker[w] \in {"compute", "send"}

\* Mutant: a worker keeps the parent's end of its own socket.
MainEndIsOpenToo(w) == open[w] \/ \E v \in w .. Workers : Lives(v)

\* Somebody has the parent's end of the socket of w open.
MainEndIsOpen(w) == open[w] \/ \E v \in w + 1 .. Workers : Lives(v)

-----------------------------------------------------------------------------
\* main, the loop with spawn_worker, which does not look whether fork fails.
Spawn ==
  /\ main = "spawn" /\ i <= Workers
  /\ \E life \in {"compute", "ended"} : worker' = [worker EXCEPT ![i] = life]
  /\ open' = [open EXCEPT ![i] = TRUE] /\ i' = i + 1
  /\ UNCHANGED <<main, results, data_received, to_main, to_worker, to_send>>

SpawnEnds ==
  /\ main = "spawn" /\ i = Workers + 1
  /\ main' = "poll" /\ i' = 1
  /\ UNCHANGED <<results, open, data_received, to_main, to_worker, worker, to_send>>

\* socketpair fails: err.
SpawnFails ==
  /\ main = "spawn" /\ i <= Workers
  /\ main' = "failed" /\ open' = [w \in Worker |-> FALSE]
  /\ UNCHANGED <<i, results, data_received, to_main, to_worker, worker, to_send>>

\* Mutant: whatever has arrived is taken for a result.
ReceiveAnything ==
  /\ main = "poll" /\ i <= Workers /\ i' = i + 1
  /\ LET got == IF open[i] THEN to_main[i] ELSE 0
     IN  /\ data_received' = [data_received EXCEPT ![i] = @ + got]
         /\ to_main' = [to_main EXCEPT ![i] = @ - got]
         /\ results' = IF got > 0 THEN results + 1 ELSE results
         /\ open' = [open EXCEPT ![i] = @ /\ got = 0 /\ ~Gone(i)]
  /\ UNCHANGED <<main, to_worker, worker, to_send>>

\* The polling of worker i: bytes, the end of the connection, or nothing.
Receive ==
  /\ main = "poll" /\ i <= Workers /\ i' = i + 1
  /\ LET got == IF open[i] THEN to_main[i] ELSE 0
         whole == got > 0 /\ data_received[i] + got = Bytes
     IN  /\ data_received' = [data_received EXCEPT ![i] = @ + got]
         /\ to_main' = [to_main EXCEPT ![i] = @ - got]
         /\ results' = IF whole THEN results + 1 ELSE results
         /\ open' = [open EXCEPT ![i] = @ /\ ~whole /\ ~(got = 0 /\ Gone(i))]
  /\ UNCHANGED <<main, to_worker, worker, to_send>>

\* The number of results is looked at after each round.
RoundEnds ==
  /\ main = "poll" /\ i = Workers + 1
  /\ i' = 1 /\ main' = IF results < Need THEN "poll" ELSE "finish"
  /\ UNCHANGED <<results, open, data_received, to_main, to_worker, worker, to_send>>

\* FF to the worker i.  A send to a worker that has closed its end raises SIGPIPE.
SendFF ==
  /\ main = "finish" /\ i <= Workers
  /\ IF open[i] /\ Gone(i)
     THEN /\ main' = "killed" /\ open' = [w \in Worker |-> FALSE]
          /\ UNCHANGED <<i, to_worker>>
     ELSE /\ i' = i + 1 /\ open' = [open EXCEPT ![i] = FALSE]
          /\ to_worker' = [to_worker EXCEPT ![i] = open[i]]
          /\ UNCHANGED main
  /\ UNCHANGED <<results, data_received, to_main, worker, to_send>>

Exit ==
  /\ main = "finish" /\ i = Workers + 1
  /\ main' = "ended"
  /\ UNCHANGED <<i, results, open, data_received, to_main, to_worker, worker, to_send>>

-----------------------------------------------------------------------------
\* child_main, once in so many rounds: the socket has FF, or it is at its end.
Check(w) ==
  /\ worker[w] = "compute" /\ (to_worker[w] \/ ~MainEndIsOpen(w))
  /\ worker' = [worker EXCEPT ![w] = "ended"]
  /\ to_worker' = [to_worker EXCEPT ![w] = FALSE]
  /\ UNCHANGED <<mainVars, to_main, to_send>>

\* The end of its loop, and a last look at the socket.
Computed(w) ==
  /\ worker[w] = "compute"
  /\ worker' = [worker EXCEPT ![w] =
                  IF to_worker[w] \/ ~MainEndIsOpen(w) THEN "ended" ELSE "send"]
  /\ to_worker' = [to_worker EXCEPT ![w] = FALSE]
  /\ UNCHANGED <<mainVars, to_main, to_send>>

\* send takes some of the bytes, or raises SIGPIPE.
Send(w) ==
  /\ worker[w] = "send"
  /\ IF MainEndIsOpen(w)
     THEN \E n \in 1 .. to_send[w] :
            /\ to_main' = [to_main EXCEPT ![w] = @ + n]
            /\ to_send' = [to_send EXCEPT ![w] = @ - n]
            /\ worker' = [worker EXCEPT ![w] = IF n = to_send[w] THEN "ended" ELSE "send"]
     ELSE worker' = [worker EXCEPT ![w] = "killed"] /\ UNCHANGED <<to_main, to_send>>
  /\ UNCHANGED <<mainVars, to_worker>>

MainStep == Spawn \/ SpawnEnds \/ SpawnFails \/ Receive \/ RoundEnds \/ SendFF \/ Exit
Next == MainStep \/ \E w \in Worker : Check(w) \/ Computed(w) \/ Send(w)
Spec == Init /\ [][Next]_vars
\* The processes run.  A worker's computation may take for ever.
FairSpec ==
  Spec /\ WF_vars(MainStep) /\ \A w \in Worker : WF_vars(Check(w)) /\ WF_vars(Send(w))

-----------------------------------------------------------------------------
Over == main \in {"ended", "failed", "killed"}
Sent == {w \in Worker : to_send[w] = 0}

\* The parent does not go on before it has enough results, each of them all
\* that its worker had to send, in however many pieces they arrived.
EnoughResults ==
  main \in {"finish", "ended", "killed"} =>
    Cardinality({w \in Sent : data_received[w] = Bytes}) >= Need

\* When the parent has come to an end, in whatever way, so do the workers,
\* told by FF or by the end of the connection, however long they would compute.
WorkersEnd == Over ~> \A w \in Worker : worker[w] = "unborn" \/ Gone(w)

\* The parent tells the other workers and leaves: line 227 of socketpair.c.
NotKilled == main # "killed"
=============================================================================
