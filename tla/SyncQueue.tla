----------------------------- MODULE SyncQueue -----------------------------
(***************************************************************************)
(* syncqueue.py: a producer and several consumers with a Queue of the      *)
(* library, which counts the jobs that are not done and lets the producer  *)
(* wait for the last one.  Consumers poll a global flag.                   *)
(***************************************************************************)
EXTENDS Integers, Sequences

CONSTANTS Consumer, Jobs

VARIABLES
  work, unfinished,    \* of the library's Queue
  done,                \* the global flag
  made,                \* i of MyProducer
  pro,                 \* "next"; "joined": before done = True; "ended"
  con,                 \* "next": at the loop's test; "get"; "working"; "task_done"; "ended"
  data, finished       \* as in CondQueue

vars == <<work, unfinished, done, made, pro, con, data, finished>>
NoJob == -1

Init ==
  /\ work = <<>> /\ unfinished = 0 /\ done = FALSE /\ made = 0 /\ pro = "next"
  /\ con = [c \in Consumer |-> "next"] /\ data = [c \in Consumer |-> NoJob]
  /\ finished = {}

-----------------------------------------------------------------------------
\* MyProducer.run: put, join, done = True.
Put ==
  /\ pro = "next" /\ made < Jobs
  /\ work' = Append(work, made) /\ unfinished' = unfinished + 1 /\ made' = made + 1
  /\ UNCHANGED <<done, pro, con, data, finished>>

\* Mutant: an empty queue is enough.
JoinEmpty ==
  /\ pro = "next" /\ made = Jobs /\ work = <<>>
  /\ pro' = "joined"
  /\ UNCHANGED <<work, unfinished, done, made, con, data, finished>>

Join ==
  /\ pro = "next" /\ made = Jobs /\ unfinished = 0
  /\ pro' = "joined"
  /\ UNCHANGED <<work, unfinished, done, made, con, data, finished>>

SetDone ==
  /\ pro = "joined"
  /\ done' = TRUE /\ pro' = "ended"
  /\ UNCHANGED <<work, unfinished, made, con, data, finished>>

-----------------------------------------------------------------------------
\* MyConsumer.run: the test of the loop ...
Test(c) ==
  /\ con[c] = "next"
  /\ con' = [con EXCEPT ![c] = IF done THEN "ended" ELSE "get"]
  /\ UNCHANGED <<work, unfinished, done, made, pro, data, finished>>

\* ... q.get, which gives a job or, with none there for a while, Queue.Empty ...
Get(c) ==
  /\ con[c] = "get" /\ work # <<>>
  /\ work' = Tail(work) /\ data' = [data EXCEPT ![c] = Head(work)]
  /\ con' = [con EXCEPT ![c] = "working"]
  /\ UNCHANGED <<unfinished, done, made, pro, finished>>

GetEmpty(c) ==
  /\ con[c] = "get" /\ work = <<>>
  /\ con' = [con EXCEPT ![c] = "next"]
  /\ UNCHANGED <<work, unfinished, done, made, pro, data, finished>>

\* ... the work, and q.task_done.
Work(c) ==
  /\ con[c] = "working"
  /\ finished' = finished \cup {data[c]} /\ data' = [data EXCEPT ![c] = NoJob]
  /\ con' = [con EXCEPT ![c] = "task_done"]
  /\ UNCHANGED <<work, unfinished, done, made, pro>>

\* Mutant: the job is called done once more when nothing else is there.
TaskDoneTwice(c) ==
  /\ con[c] = "task_done"
  /\ unfinished' = unfinished - (IF work = <<>> THEN 2 ELSE 1)
  /\ con' = [con EXCEPT ![c] = "next"]
  /\ UNCHANGED <<work, done, made, pro, data, finished>>

TaskDone(c) ==
  /\ con[c] = "task_done"
  /\ unfinished' = unfinished - 1 /\ con' = [con EXCEPT ![c] = "next"]
  /\ UNCHANGED <<work, done, made, pro, data, finished>>

ProducerStep == Put \/ Join \/ SetDone
ConsumerStep(c) == Test(c) \/ Get(c) \/ GetEmpty(c) \/ Work(c) \/ TaskDone(c)

Next == ProducerStep \/ \E c \in Consumer : ConsumerStep(c)
Spec == Init /\ [][Next]_vars
FairSpec == Spec /\ WF_vars(ProducerStep) /\ \A c \in Consumer : WF_vars(ConsumerStep(c))

-----------------------------------------------------------------------------
TypeOK ==
  /\ work \in Seq(0 .. Jobs - 1) /\ unfinished \in Nat /\ done \in BOOLEAN
  /\ made \in 0 .. Jobs /\ pro \in {"next", "joined", "ended"}
  /\ con \in [Consumer -> {"next", "get", "working", "task_done", "ended"}]
  /\ data \in [Consumer -> {NoJob} \cup 0 .. Jobs - 1]
  /\ finished \in SUBSET (0 .. Jobs - 1)
=============================================================================
