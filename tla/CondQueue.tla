----------------------------- MODULE CondQueue -----------------------------
(***************************************************************************)
(* cond.py: a producer and a consumer with a list, a mutex and a condition *)
(* variable.  Whoever holds the mutex changes nothing that another thread  *)
(* may see before giving it back, so a critical section is one action.     *)
(* wait() gives the mutex back and falls asleep at once; a thread that is  *)
(* woken takes the mutex again and goes through its loop.                  *)
(***************************************************************************)
EXTENDS Integers, Sequences

CONSTANTS Consumer, Jobs

VARIABLES
  work, work_complete,   \* the fields of WorkContainer
  made,                  \* i of the producer
  pro,                   \* "next": in the loop; "ended"
  con,                   \* "next": about to take the mutex; "asleep"; "working"; "ended"
  data,                  \* what a consumer works on
  finished               \* history: the jobs worked on

vars == <<work, work_complete, made, pro, con, data, finished>>
NoJob == -1              \* None

Init ==
  /\ work = <<>> /\ work_complete = FALSE /\ made = 0 /\ pro = "next"
  /\ con = [c \in Consumer |-> "next"] /\ data = [c \in Consumer |-> NoJob]
  /\ finished = {}

-----------------------------------------------------------------------------
Asleep == {c \in Consumer : con[c] = "asleep"}

\* notify(1) wakes one of those that sleep, if there are any.
Notify ==
  IF Asleep = {} THEN con' = con
  ELSE \E c \in Asleep : con' = [con EXCEPT ![c] = "next"]

\* notifyAll()
NotifyAll == con' = [c \in Consumer |-> IF c \in Asleep THEN "next" ELSE con[c]]

\* ProducerThread.run, the loop.
Produce ==
  /\ pro = "next" /\ made < Jobs
  /\ work' = Append(work, made) /\ made' = made + 1
  /\ Notify
  /\ UNCHANGED <<work_complete, pro, data, finished>>

\* Mutant: nobody is woken at the end.
CompleteSilently ==
  /\ pro = "next" /\ made = Jobs
  /\ work_complete' = TRUE /\ pro' = "ended"
  /\ UNCHANGED <<work, made, con, data, finished>>

\* ... and its end.
Complete ==
  /\ pro = "next" /\ made = Jobs
  /\ work_complete' = TRUE /\ pro' = "ended"
  /\ NotifyAll
  /\ UNCHANGED <<work, made, data, finished>>

-----------------------------------------------------------------------------
\* ConsumerThread.run: the first job is taken out of the list ...
PopWork(c) ==
  /\ con[c] = "next" /\ work # <<>>
  /\ work' = Tail(work) /\ data' = [data EXCEPT ![c] = Head(work)]
  /\ con' = [con EXCEPT ![c] = "working"]
  /\ UNCHANGED <<work_complete, made, pro, finished>>

\* Mutant: work_complete is looked at first.
LeaveEarly(c) ==
  /\ con[c] = "next" /\ work_complete
  /\ con' = [con EXCEPT ![c] = "ended"]
  /\ UNCHANGED <<work, work_complete, made, pro, data, finished>>

\* ... or there are no more to come ...
Leave(c) ==
  /\ con[c] = "next" /\ work = <<>> /\ work_complete
  /\ con' = [con EXCEPT ![c] = "ended"]
  /\ UNCHANGED <<work, work_complete, made, pro, data, finished>>

\* ... or it waits for one.
Wait(c) ==
  /\ con[c] = "next" /\ work = <<>> /\ ~work_complete
  /\ con' = [con EXCEPT ![c] = "asleep"]
  /\ UNCHANGED <<work, work_complete, made, pro, data, finished>>

\* The work, without the mutex.  Nobody is notified of jobs that come now: the
\* loop looks into the list again.
Work(c) ==
  /\ con[c] = "working"
  /\ finished' = finished \cup {data[c]} /\ data' = [data EXCEPT ![c] = NoJob]
  /\ con' = [con EXCEPT ![c] = "next"]
  /\ UNCHANGED <<work, work_complete, made, pro>>

ProducerStep == Produce \/ Complete
ConsumerStep(c) == PopWork(c) \/ Leave(c) \/ Wait(c) \/ Work(c)

Next == ProducerStep \/ \E c \in Consumer : ConsumerStep(c)
Spec == Init /\ [][Next]_vars
FairSpec == Spec /\ WF_vars(ProducerStep) /\ \A c \in Consumer : WF_vars(ConsumerStep(c))

-----------------------------------------------------------------------------
TypeOK ==
  /\ work \in Seq(0 .. Jobs - 1) /\ work_complete \in BOOLEAN
  /\ made \in 0 .. Jobs /\ pro \in {"next", "ended"}
  /\ con \in [Consumer -> {"next", "asleep", "working", "ended"}]
  /\ data \in [Consumer -> {NoJob} \cup 0 .. Jobs - 1]
  /\ finished \in SUBSET (0 .. Jobs - 1)
=============================================================================
