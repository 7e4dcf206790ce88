---------------------------- MODULE MCSync_proofs ----------------------------
(***************************************************************************)
(* Proofs about the programs of chapter 12, and the proverb server, for    *)
(* any number of threads, jobs, rounds and draws.                          *)
(***************************************************************************)
EXTENDS MCSync, FiniteSetTheorems, TLAPS

NoJob == C!NoJob

\* What the list of jobs has in common in cond.py, event.cc and syncqueue.py:
\* it holds the last of the jobs made, in order, and those taken from it are
\* finished or in the hands of one consumer.
Taken == made - Len(work)
Working == {data[c] : c \in DOMAIN data} \ {NoJob}
Ended == \E c \in DOMAIN con : con[c] = "ended"

JobsInOrder(D) ==
  /\ made \in 0 .. Jobs /\ work \in Seq(Int) /\ Len(work) <= made
  /\ \A i \in 1 .. Len(work) : work[i] = Taken + i - 1
  /\ data \in [D -> Int] /\ finished \subseteq Int
  /\ \A c, d \in D : data[c] = data[d] => c = d \/ data[c] = NoJob
  /\ \A j \in Int : j \in 0 .. Taken - 1 <=> j \in finished \/ j \in Working
  /\ \A c \in D : data[c] \notin finished

-----------------------------------------------------------------------------
(* The three things that happen to the list, and what they are in WorkQueue. *)

LEMMA NothingMade ==
  ASSUME NEW D, work = <<>>, made = 0, data = [c \in D |-> NoJob], finished = {}
  PROVE  /\ JobsInOrder(D) /\ Working = {}
         /\ \A c \in D : data[c] = NoJob
<1>1. work \in Seq(Int) /\ Len(work) = 0
  OBVIOUS
<1>2. Taken = 0
  <2>1. made - 0 = 0
    OBVIOUS
  <2>. QED  BY <1>1, <2>1, Zenon DEF Taken
<1>5. made \in 0 .. Jobs /\ Len(work) <= made
  BY <1>1, SyncAssumption
<1>3. NoJob \in Int
  BY DEF NoJob, C!NoJob
<1>4. Working = {} /\ data \in [D -> Int]
  BY <1>3 DEF Working
<1>. QED  BY <1>1, <1>2, <1>4, <1>5 DEF JobsInOrder

LEMMA MakeKeepsOrder ==
  ASSUME NEW D, JobsInOrder(D), made < Jobs, Jobs \in Nat,
         work' = Append(work, made), made' = made + 1, UNCHANGED <<data, finished>>
  PROVE  JobsInOrder(D)'
<1>1. /\ work' \in Seq(Int) /\ Len(work') = Len(work) + 1
      /\ \A i \in 1 .. Len(work) : work'[i] = work[i]
      /\ work'[Len(work) + 1] = made
  BY DEF JobsInOrder
<1>2. Taken' = Taken
  BY <1>1 DEF JobsInOrder, Taken
<1>3. \A i \in 1 .. Len(work') : work'[i] = Taken' + i - 1
  BY <1>1, <1>2 DEF JobsInOrder, Taken
<1>4. Working' = Working
  BY DEF Working, NoJob
<1>. QED  BY <1>1, <1>2, <1>3, <1>4 DEF JobsInOrder, NoJob

LEMMA TakeKeepsOrder ==
  ASSUME NEW D, JobsInOrder(D), NEW c \in D, data[c] = NoJob, work # <<>>,
         work' = Tail(work), data' = [data EXCEPT ![c] = Head(work)],
         UNCHANGED <<made, finished>>
  PROVE  /\ JobsInOrder(D)'
         /\ Working' = Working \cup {Head(work)}
         /\ data'[c] \in 0 .. made - 1
<1>1. /\ work' \in Seq(Int) /\ Len(work) \in Nat /\ Len(work') = Len(work) - 1
      /\ \A i \in 1 .. Len(work') : work'[i] = work[i + 1]
      /\ Head(work) = work[1] /\ Len(work) >= 1
  BY DEF JobsInOrder
<1>2. Taken' = Taken + 1 /\ Taken \in Nat /\ Head(work) = Taken
  BY <1>1 DEF JobsInOrder, Taken
<1>3. \A i \in 1 .. Len(work') : work'[i] = Taken' + i - 1
  BY <1>1, <1>2 DEF JobsInOrder, Taken
<1>4. /\ data' \in [D -> Int] /\ data'[c] = Taken
      /\ \A d \in D \ {c} : data'[d] = data[d]
  BY <1>2 DEF JobsInOrder
<1>5. Working' = Working \cup {Taken}
  BY <1>2, <1>4 DEF Working, NoJob, C!NoJob, JobsInOrder
<1>6. \A d \in D : data[d] # Taken
  BY <1>2 DEF JobsInOrder, Working, NoJob, C!NoJob
<1>7. \A d, e \in D : data'[d] = data'[e] => d = e \/ data'[d] = NoJob
  BY <1>4, <1>6 DEF JobsInOrder, NoJob
<1>8. \A j \in Int : j \in 0 .. Taken' - 1 <=> j \in finished' \/ j \in Working'
  BY <1>2, <1>5 DEF JobsInOrder
<1>9. \A d \in D : data'[d] \notin finished'
  BY <1>2, <1>4 DEF JobsInOrder
<1>10. JobsInOrder(D)'
  BY <1>1, <1>2, <1>3, <1>4, <1>7, <1>8, <1>9 DEF JobsInOrder, NoJob, Taken
<1>. QED  BY <1>1, <1>2, <1>4, <1>5, <1>10 DEF Taken, JobsInOrder

LEMMA FinishKeepsOrder ==
  ASSUME NEW D, JobsInOrder(D), NEW c \in D, data[c] # NoJob,
         finished' = finished \cup {data[c]}, data' = [data EXCEPT ![c] = NoJob],
         UNCHANGED <<work, made>>
  PROVE  /\ JobsInOrder(D)'
         /\ data[c] \in Working /\ Working' = Working \ {data[c]}
<1>1. /\ data' \in [D -> Int] /\ data'[c] = NoJob
      /\ \A d \in D \ {c} : data'[d] = data[d]
  BY DEF JobsInOrder, NoJob, C!NoJob
<1>2. data[c] \in Working /\ Working' = Working \ {data[c]}
  BY <1>1 DEF Working, NoJob, JobsInOrder
<1>3. \A d, e \in D : data'[d] = data'[e] => d = e \/ data'[d] = NoJob
  BY <1>1 DEF JobsInOrder, NoJob
<1>4. \A j \in Int : j \in 0 .. Taken' - 1 <=> j \in finished' \/ j \in Working'
  BY <1>2 DEF JobsInOrder, Taken
<1>5. NoJob \notin finished
  BY DEF JobsInOrder, NoJob, C!NoJob, Taken
<1>6. \A d \in D : data'[d] \notin finished'
  BY <1>1, <1>5 DEF JobsInOrder
<1>7. finished' \subseteq Int /\ UNCHANGED Taken
  BY DEF JobsInOrder, Taken
<1>. QED  BY <1>1, <1>2, <1>3, <1>4, <1>6, <1>7 DEF JobsInOrder, NoJob

LEMMA OtherStepsKeepOrder ==
  ASSUME NEW D, JobsInOrder(D), UNCHANGED <<work, made, data, finished>>
  PROVE  JobsInOrder(D)' /\ Working' = Working
BY DEF JobsInOrder, Taken, Working

LEMMA NobodyWorking ==
  ASSUME NEW D, JobsInOrder(D), work = <<>>, \A c \in D : data[c] = NoJob, made = Jobs
  PROVE  finished = 0 .. Jobs - 1
<1>1. Working = {}
  BY DEF Working, JobsInOrder
<1>2. Taken = Jobs
  BY DEF Taken, JobsInOrder
<1>3. finished \subseteq Int /\ \A j \in Int : j \in 0 .. Jobs - 1 <=> j \in finished
  BY <1>1, <1>2 DEF JobsInOrder
<1>4. 0 .. Jobs - 1 \subseteq Int
  BY SyncAssumption
<1>. QED  BY <1>3, <1>4

LEMMA OrderTypes ==
  ASSUME NEW D, JobsInOrder(D)
  PROVE  /\ work \in Seq(0 .. Jobs - 1) /\ made \in 0 .. Jobs
         /\ data \in [D -> {NoJob} \cup 0 .. Jobs - 1]
         /\ finished \in SUBSET (0 .. Jobs - 1)
<1>. Jobs \in Nat
  BY SyncAssumption
<1>1. Taken \in 0 .. Jobs /\ Len(work) \in Nat
  BY DEF Taken, JobsInOrder
<1>2. \A i \in 1 .. Len(work) : work[i] \in 0 .. Jobs - 1
  BY <1>1 DEF Taken, JobsInOrder
<1>3. \A c \in D : data[c] \in {NoJob} \cup 0 .. Jobs - 1
  BY <1>1 DEF JobsInOrder, Working
<1>4. finished \in SUBSET (0 .. Jobs - 1)
  BY <1>1 DEF JobsInOrder
<1>. QED  BY <1>2, <1>3, <1>4 DEF JobsInOrder

-----------------------------------------------------------------------------
(* cond.py, with its one consumer: when the list is complete, all is made. *)

LEMMA OneConsumer == \A c, d \in One : c = d
  BY DEF One

CondInv ==
  /\ JobsInOrder(One) /\ work_complete \in BOOLEAN /\ pro \in {"next", "ended"}
  /\ con \in [One -> {"next", "asleep", "working", "ended"}]
  /\ \A c \in One : con[c] = "working" <=> data[c] # NoJob
  /\ work_complete => made = Jobs

LEMMA CondInit == C!Init => CondInv /\ Queue!Init
<1>. SUFFICES ASSUME C!Init  PROVE CondInv /\ Queue!Init
  OBVIOUS
<1>1. data = [c \in One |-> NoJob]
  BY DEF C!Init, NoJob
<1>2. JobsInOrder(One) /\ Working = {} /\ \A c \in One : data[c] = NoJob
  BY <1>1, NothingMade DEF C!Init
<1>3. CondInv
  BY <1>2 DEF CondInv, C!Init
<1>4. Queue!Init
  BY <1>2 DEF Queue!Init, C!Init, Working, NoJob
<1>. QED  BY <1>3, <1>4

LEMMA CondNext == CondInv /\ C!Next => CondInv' /\ [Queue!Next]_Queue!vars
<1>. SUFFICES ASSUME CondInv, C!Next
              PROVE  CondInv' /\ [Queue!Next]_Queue!vars
  OBVIOUS
<1>. USE DEF CondInv
<1>0. Jobs \in Nat /\ DOMAIN con = One /\ DOMAIN data = One
  BY SyncAssumption DEF JobsInOrder
<1>1. CASE C!Produce
  <2>1. /\ con' \in [One -> {"next", "asleep", "working", "ended"}]
        /\ \A c \in One : con'[c] = con[c] \/ (con[c] = "asleep" /\ con'[c] = "next")
    <3>1. CASE con' = con
      BY <3>1
    <3>2. CASE \E c \in C!Asleep : con' = [con EXCEPT ![c] = "next"]
      BY <3>2 DEF C!Asleep
    <3>. QED  BY <1>1, <3>1, <3>2 DEF C!Produce, C!Notify
  <2>2. JobsInOrder(One)'
    BY <1>0, <1>1, MakeKeepsOrder DEF C!Produce
  <2>3. Ended' = Ended /\ Working' = Working
    BY <1>0, <1>1, <2>1 DEF Ended, Working, C!Produce
  <2>4. Queue!Make
    BY <1>1, <2>3 DEF Queue!Make, C!Produce, Ended, Working, NoJob
  <2>. QED  BY <1>0, <1>1, <2>1, <2>2, <2>4 DEF C!Produce, Queue!Next, JobsInOrder
<1>2. CASE C!Complete
  <2>1. /\ con' \in [One -> {"next", "asleep", "working", "ended"}]
        /\ \A c \in One : con'[c] = con[c] \/ (con[c] = "asleep" /\ con'[c] = "next")
    BY <1>2 DEF C!Complete, C!NotifyAll, C!Asleep
  <2>2. JobsInOrder(One)' /\ Working' = Working
    BY <1>2 DEF C!Complete, JobsInOrder, Taken, Working
  <2>3. Ended' = Ended
    BY <1>0, <2>1 DEF Ended
  <2>4. UNCHANGED Queue!vars
    BY <1>2, <2>2, <2>3 DEF Queue!vars, C!Complete, Ended, Working, NoJob
  <2>. QED  BY <1>0, <1>2, <2>1, <2>2, <2>4 DEF C!Complete
<1>3. ASSUME NEW c \in One, C!PopWork(c)
      PROVE  CondInv' /\ [Queue!Next]_Queue!vars
  <2>0. JobsInOrder(One) /\ data[c] = NoJob
    BY <1>3 DEF C!PopWork
  <2>1. /\ JobsInOrder(One)' /\ Working' = Working \cup {Head(work)}
        /\ data'[c] \in 0 .. made - 1
    BY <1>3, <2>0, TakeKeepsOrder DEF C!PopWork
  <2>2. Ended' = Ended
    BY <1>0, <1>3 DEF Ended, C!PopWork
  <2>3. Queue!Take
    BY <1>3, <2>1, <2>2 DEF Queue!Take, C!PopWork, Ended, Working, NoJob
  <2>4. \A d \in One : con'[d] = "working" <=> data'[d] # NoJob
    BY <1>0, <1>3, <2>1, OneConsumer DEF C!PopWork, NoJob, C!NoJob
  <2>. QED  BY <1>3, <2>1, <2>3, <2>4 DEF C!PopWork, Queue!Next
<1>4. ASSUME NEW c \in One, C!Leave(c)
      PROVE  CondInv' /\ [Queue!Next]_Queue!vars
  <2>1. JobsInOrder(One)' /\ Working' = Working /\ Ended'
    BY <1>0, <1>4 DEF C!Leave, JobsInOrder, Taken, Working, Ended
  <2>2. finished = 0 .. Jobs - 1
    BY <1>4, OneConsumer, NobodyWorking DEF C!Leave
  <2>3. Queue!End
    BY <1>4, <2>1, <2>2 DEF Queue!End, C!Leave, Ended, Working, NoJob
  <2>. QED  BY <1>4, <2>1, <2>3 DEF C!Leave, Queue!Next
<1>5. ASSUME NEW c \in One, C!Wait(c)
      PROVE  CondInv' /\ [Queue!Next]_Queue!vars
  <2>1. JobsInOrder(One)' /\ Working' = Working /\ Ended' = Ended
    BY <1>0, <1>5 DEF C!Wait, JobsInOrder, Taken, Working, Ended
  <2>2. UNCHANGED Queue!vars
    BY <1>5, <2>1 DEF Queue!vars, C!Wait, Ended, Working, NoJob
  <2>. QED  BY <1>5, <2>1, <2>2 DEF C!Wait
<1>6. ASSUME NEW c \in One, C!Work(c)
      PROVE  CondInv' /\ [Queue!Next]_Queue!vars
  <2>1. JobsInOrder(One)' /\ data[c] \in Working /\ Working' = Working \ {data[c]}
    BY <1>6, FinishKeepsOrder DEF C!Work, NoJob
  <2>2. Ended' = Ended
    BY <1>0, <1>6 DEF Ended, C!Work
  <2>3. Queue!Finish
    BY <1>6, <2>1, <2>2 DEF Queue!Finish, C!Work, Ended, Working, NoJob
  <2>4. \A d \in One : con'[d] = "working" <=> data'[d] # NoJob
    BY <1>0, <1>6, OneConsumer DEF C!Work, NoJob
  <2>. QED  BY <1>6, <2>1, <2>3, <2>4 DEF C!Work, Queue!Next
<1>. QED
  BY <1>1, <1>2, <1>3, <1>4, <1>5, <1>6 DEF C!Next, C!ProducerStep, C!ConsumerStep

-----------------------------------------------------------------------------
(* event.cc: while the list holds a job, the event is set, or about to be, *)
(* or the consumer is going through the list.                              *)

EventInv ==
  /\ JobsInOrder(One) /\ ready_ev \in BOOLEAN /\ completed_ev \in BOOLEAN
  /\ pro \in {"next", "signal", "ended"}
  /\ con \in [One -> {"next", "drain", "working", "ended"}]
  /\ \A c \in One : con[c] = "working" <=> data[c] # NoJob
  /\ completed_ev => pro = "ended" /\ made = Jobs
  /\ work # <<>> /\ ~ready_ev /\ pro # "signal" =>
       \A c \in One : con[c] \in {"drain", "working"}

LEMMA EventInit == E!Init => EventInv /\ Queue!Init
<1>. SUFFICES ASSUME E!Init  PROVE EventInv /\ Queue!Init
  OBVIOUS
<1>1. data = [c \in One |-> NoJob]
  BY DEF E!Init, NoJob, E!NoJob, C!NoJob
<1>2. JobsInOrder(One) /\ Working = {} /\ \A c \in One : data[c] = NoJob
  BY <1>1, NothingMade DEF E!Init
<1>3. EventInv
  BY <1>2 DEF EventInv, E!Init
<1>4. Queue!Init
  BY <1>2 DEF Queue!Init, E!Init, Working, NoJob
<1>. QED  BY <1>3, <1>4

LEMMA EventNext == EventInv /\ E!Next => EventInv' /\ [Queue!Next]_Queue!vars
<1>. SUFFICES ASSUME EventInv, E!Next
              PROVE  EventInv' /\ [Queue!Next]_Queue!vars
  OBVIOUS
<1>. USE DEF EventInv
<1>0. Jobs \in Nat /\ DOMAIN con = One /\ DOMAIN data = One
  BY SyncAssumption DEF JobsInOrder
<1>1. CASE E!Push
  <2>1. JobsInOrder(One)'
    BY <1>0, <1>1, MakeKeepsOrder DEF E!Push
  <2>2. Ended' = Ended /\ Working' = Working
    BY <1>1 DEF Ended, Working, E!Push
  <2>3. Queue!Make
    BY <1>1, <2>2 DEF Queue!Make, E!Push, Ended, Working, NoJob
  <2>. QED  BY <1>1, <2>1, <2>3 DEF E!Push, Queue!Next
<1>2. CASE E!SetReady
  <2>1. JobsInOrder(One)' /\ Working' = Working /\ Ended' = Ended
    BY <1>2, OtherStepsKeepOrder DEF E!SetReady, Ended
  <2>2. UNCHANGED Queue!vars
    BY <1>2, <2>1 DEF Queue!vars, E!SetReady, Ended, Working, NoJob
  <2>. QED  BY <1>2, <2>1, <2>2 DEF E!SetReady
<1>3. CASE E!SetCompleted
  <2>1. JobsInOrder(One)' /\ Working' = Working /\ Ended' = Ended
    BY <1>3, OtherStepsKeepOrder DEF E!SetCompleted, Ended
  <2>2. UNCHANGED Queue!vars
    BY <1>3, <2>1 DEF Queue!vars, E!SetCompleted, Ended, Working, NoJob
  <2>. QED  BY <1>3, <2>1, <2>2 DEF E!SetCompleted
<1>4. ASSUME NEW c \in One, E!WaitReady(c)
      PROVE  EventInv' /\ [Queue!Next]_Queue!vars
  <2>1. JobsInOrder(One)' /\ Working' = Working /\ Ended' = Ended
    BY <1>0, <1>4, OtherStepsKeepOrder DEF E!WaitReady, Ended
  <2>2. UNCHANGED Queue!vars
    BY <1>4, <2>1 DEF Queue!vars, E!WaitReady, Ended, Working, NoJob
  <2>. QED  BY <1>4, <2>1, <2>2, OneConsumer DEF E!WaitReady
<1>5. ASSUME NEW c \in One, E!WaitCompleted(c)
      PROVE  EventInv' /\ [Queue!Next]_Queue!vars
  <2>1. JobsInOrder(One)' /\ Working' = Working /\ Ended'
    BY <1>0, <1>5, OtherStepsKeepOrder DEF E!WaitCompleted, Ended
  <2>2. work = <<>>
    BY <1>5 DEF E!WaitCompleted
  <2>3. finished = 0 .. Jobs - 1
    BY <1>5, <2>2, OneConsumer, NobodyWorking DEF E!WaitCompleted
  <2>4. Queue!End
    BY <1>5, <2>1, <2>3 DEF Queue!End, E!WaitCompleted, Ended, Working, NoJob
  <2>. QED  BY <1>5, <2>1, <2>2, <2>4 DEF E!WaitCompleted, Queue!Next
<1>6. ASSUME NEW c \in One, E!PopWork(c)
      PROVE  EventInv' /\ [Queue!Next]_Queue!vars
  <2>0. JobsInOrder(One) /\ data[c] = NoJob
    BY <1>6 DEF E!PopWork
  <2>1. /\ JobsInOrder(One)' /\ Working' = Working \cup {Head(work)}
        /\ data'[c] \in 0 .. made - 1
    BY <1>6, <2>0, TakeKeepsOrder DEF E!PopWork
  <2>2. Ended' = Ended
    BY <1>0, <1>6 DEF Ended, E!PopWork
  <2>3. Queue!Take
    BY <1>6, <2>1, <2>2 DEF Queue!Take, E!PopWork, Ended, Working, NoJob
  <2>4. \A d \in One : con'[d] = "working" <=> data'[d] # NoJob
    BY <1>0, <1>6, <2>1, OneConsumer DEF E!PopWork, NoJob, C!NoJob
  <2>. QED  BY <1>6, <2>1, <2>3, <2>4, OneConsumer DEF E!PopWork, Queue!Next
<1>7. ASSUME NEW c \in One, E!Drained(c)
      PROVE  EventInv' /\ [Queue!Next]_Queue!vars
  <2>1. JobsInOrder(One)' /\ Working' = Working /\ Ended' = Ended
    BY <1>0, <1>7, OtherStepsKeepOrder DEF E!Drained, Ended
  <2>2. UNCHANGED Queue!vars
    BY <1>7, <2>1 DEF Queue!vars, E!Drained, Ended, Working, NoJob
  <2>. QED  BY <1>7, <2>1, <2>2 DEF E!Drained
<1>8. ASSUME NEW c \in One, E!Work(c)
      PROVE  EventInv' /\ [Queue!Next]_Queue!vars
  <2>1. data' = [data EXCEPT ![c] = NoJob]
    BY <1>8 DEF E!Work, NoJob, C!NoJob, E!NoJob
  <2>2. JobsInOrder(One)' /\ data[c] \in Working /\ Working' = Working \ {data[c]}
    BY <1>8, <2>1, FinishKeepsOrder DEF E!Work
  <2>3. Ended' = Ended
    BY <1>0, <1>8 DEF Ended, E!Work
  <2>4. Queue!Finish
    BY <1>8, <2>2, <2>3 DEF Queue!Finish, E!Work, Ended, Working, NoJob
  <2>5. \A d \in One : con'[d] = "working" <=> data'[d] # NoJob
    BY <1>0, <1>8, <2>1, OneConsumer DEF E!Work
  <2>. QED  BY <1>8, <2>2, <2>4, <2>5, OneConsumer DEF E!Work, Queue!Next
<1>. QED
  BY <1>1, <1>2, <1>3, <1>4, <1>5, <1>6, <1>7, <1>8
     DEF E!Next, E!ProducerStep, E!ConsumerStep

-----------------------------------------------------------------------------
(* syncqueue.py, with many consumers: the queue counts the jobs in it and  *)
(* those that are in the hands of somebody, up to task_done.               *)

Busy == {c \in Thread : con[c] \in {"working", "task_done"}}

SyncInv ==
  /\ JobsInOrder(Thread) /\ done \in BOOLEAN
  /\ pro \in {"next", "joined", "ended"}
  /\ con \in [Thread -> {"next", "get", "working", "task_done", "ended"}]
  /\ \A c \in Thread : con[c] = "working" <=> data[c] # NoJob
  /\ unfinished = Len(work) + Cardinality(Busy)
  /\ pro \in {"joined", "ended"} => made = Jobs /\ unfinished = 0
  /\ done => pro = "ended"

LEMMA BusyIsFinite == IsFiniteSet(Busy) /\ Cardinality(Busy) \in Nat
  BY SyncAssumption, FS_Subset, FS_CardinalityType DEF Busy

LEMMA SyncInit == S!Init => SyncInv /\ Queue!Init
<1>. SUFFICES ASSUME S!Init  PROVE SyncInv /\ Queue!Init
  OBVIOUS
<1>1. data = [c \in Thread |-> NoJob]
  BY DEF S!Init, NoJob, S!NoJob, C!NoJob
<1>2. JobsInOrder(Thread) /\ Working = {} /\ \A c \in Thread : data[c] = NoJob
  BY <1>1, NothingMade DEF S!Init
<1>3. Busy = {} /\ Cardinality({}) = 0 /\ Len(work) = 0
  BY FS_EmptySet DEF S!Init, Busy
<1>4. unfinished = Len(work) + Cardinality(Busy)
  <2>1. 0 = 0 + 0
    OBVIOUS
  <2>. QED  BY <1>3, <2>1, Zenon DEF S!Init
<1>5. SyncInv
  BY <1>2, <1>4 DEF SyncInv, S!Init
<1>6. Queue!Init
  BY <1>2 DEF Queue!Init, S!Init, Working, NoJob
<1>. QED  BY <1>5, <1>6

LEMMA SyncNext == SyncInv /\ S!Next => SyncInv' /\ [Queue!Next]_Queue!vars
<1>. SUFFICES ASSUME SyncInv, S!Next
              PROVE  SyncInv' /\ [Queue!Next]_Queue!vars
  OBVIOUS
<1>. USE DEF SyncInv
<1>0. /\ Jobs \in Nat /\ DOMAIN con = Thread /\ DOMAIN data = Thread
      /\ work \in Seq(Int) /\ Len(work) \in Nat /\ made \in 0 .. Jobs
  BY SyncAssumption DEF JobsInOrder
<1>1. CASE S!Put
  <2>1. JobsInOrder(Thread)'
    BY <1>0, <1>1, MakeKeepsOrder DEF S!Put
  <2>2. Ended' = Ended /\ Working' = Working /\ Busy' = Busy
    BY <1>1 DEF Ended, Working, Busy, S!Put
  <2>3. Queue!Make
    BY <1>1, <2>2 DEF Queue!Make, S!Put, Ended, Working, NoJob
  <2>4. Len(work') = Len(work) + 1
    BY <1>0, <1>1 DEF S!Put
  <2>5. unfinished' = Len(work') + Cardinality(Busy)
    BY <1>0, <1>1, <2>4, BusyIsFinite DEF S!Put
  <2>. QED  BY <1>1, <2>1, <2>2, <2>3, <2>5 DEF S!Put, Queue!Next
<1>2. CASE S!Join
  <2>1. JobsInOrder(Thread)' /\ Working' = Working /\ Ended' = Ended /\ Busy' = Busy
    BY <1>2, OtherStepsKeepOrder DEF S!Join, Ended, Busy
  <2>2. UNCHANGED Queue!vars
    BY <1>2, <2>1 DEF Queue!vars, S!Join, Ended, Working, NoJob
  <2>. QED  BY <1>2, <2>1, <2>2 DEF S!Join
<1>3. CASE S!SetDone
  <2>1. JobsInOrder(Thread)' /\ Working' = Working /\ Ended' = Ended /\ Busy' = Busy
    BY <1>3, OtherStepsKeepOrder DEF S!SetDone, Ended, Busy
  <2>2. UNCHANGED Queue!vars
    BY <1>3, <2>1 DEF Queue!vars, S!SetDone, Ended, Working, NoJob
  <2>. QED  BY <1>3, <2>1, <2>2 DEF S!SetDone
<1>4. ASSUME NEW c \in Thread, S!Test(c)
      PROVE  SyncInv' /\ [Queue!Next]_Queue!vars
  <2>1. JobsInOrder(Thread)' /\ Working' = Working
    BY <1>4, OtherStepsKeepOrder DEF S!Test
  <2>2. Busy' = Busy
    BY <1>0, <1>4 DEF S!Test, Busy
  <2>3. SyncInv'
    BY <1>4, <2>1, <2>2 DEF S!Test
  <2>4. CASE done
    <3>1. work = <<>> /\ made = Jobs /\ Cardinality(Busy) = 0
      BY <1>0, <2>4, BusyIsFinite
    <3>2. Busy = {}
      BY <3>1, BusyIsFinite, FS_EmptySet
    <3>3. \A d \in Thread : data[d] = NoJob
      BY <3>2 DEF Busy
    <3>4. finished = 0 .. Jobs - 1 /\ Ended'
      BY <1>0, <1>4, <2>4, <3>1, <3>3, NobodyWorking DEF S!Test, Ended
    <3>5. Queue!End
      BY <1>4, <2>1, <3>4 DEF Queue!End, S!Test, Ended, Working, NoJob
    <3>. QED  BY <2>3, <3>5 DEF Queue!Next
  <2>5. CASE ~done
    <3>1. Ended' = Ended
      BY <1>0, <1>4, <2>5 DEF S!Test, Ended
    <3>2. UNCHANGED Queue!vars
      BY <1>4, <2>1, <3>1 DEF Queue!vars, S!Test, Ended, Working, NoJob
    <3>. QED  BY <2>3, <3>2
  <2>. QED  BY <2>4, <2>5
<1>5. ASSUME NEW c \in Thread, S!Get(c)
      PROVE  SyncInv' /\ [Queue!Next]_Queue!vars
  <2>0. JobsInOrder(Thread) /\ data[c] = NoJob
    BY <1>5 DEF S!Get
  <2>1. /\ JobsInOrder(Thread)' /\ Working' = Working \cup {Head(work)}
        /\ data'[c] \in 0 .. made - 1
    BY <1>5, <2>0, TakeKeepsOrder DEF S!Get
  <2>2. Ended' = Ended
    BY <1>0, <1>5 DEF Ended, S!Get
  <2>3. Queue!Take
    BY <1>5, <2>1, <2>2 DEF Queue!Take, S!Get, Ended, Working, NoJob
  <2>4. \A d \in Thread : con'[d] = "working" <=> data'[d] # NoJob
    BY <1>0, <1>5, <2>1 DEF S!Get, NoJob, C!NoJob
  <2>5. Busy' = Busy \cup {c} /\ c \notin Busy
    BY <1>0, <1>5 DEF Busy, S!Get
  <2>6. Cardinality(Busy') = Cardinality(Busy) + 1
    BY <2>5, BusyIsFinite, FS_AddElement
  <2>7. Len(work') = Len(work) - 1 /\ Len(work) > 0
    BY <1>0, <1>5 DEF S!Get
  <2>8. unfinished' = Len(work') + Cardinality(Busy')
    BY <1>0, <1>5, <2>6, <2>7, BusyIsFinite DEF S!Get
  <2>9. pro \notin {"joined", "ended"}
    BY <1>0, <2>7, BusyIsFinite
  <2>. QED  BY <1>5, <2>1, <2>3, <2>4, <2>8, <2>9 DEF S!Get, Queue!Next
<1>6. ASSUME NEW c \in Thread, S!GetEmpty(c)
      PROVE  SyncInv' /\ [Queue!Next]_Queue!vars
  <2>1. JobsInOrder(Thread)' /\ Working' = Working
    BY <1>6, OtherStepsKeepOrder DEF S!GetEmpty
  <2>2. Busy' = Busy /\ Ended' = Ended
    BY <1>0, <1>6 DEF S!GetEmpty, Busy, Ended
  <2>3. UNCHANGED Queue!vars
    BY <1>6, <2>1, <2>2 DEF Queue!vars, S!GetEmpty, Ended, Working, NoJob
  <2>. QED  BY <1>6, <2>1, <2>2, <2>3 DEF S!GetEmpty
<1>7. ASSUME NEW c \in Thread, S!Work(c)
      PROVE  SyncInv' /\ [Queue!Next]_Queue!vars
  <2>1. data' = [data EXCEPT ![c] = NoJob]
    BY <1>7 DEF S!Work, NoJob, C!NoJob, S!NoJob
  <2>2. JobsInOrder(Thread)' /\ data[c] \in Working /\ Working' = Working \ {data[c]}
    BY <1>7, <2>1, FinishKeepsOrder DEF S!Work
  <2>3. Ended' = Ended /\ Busy' = Busy
    BY <1>0, <1>7 DEF Ended, Busy, S!Work
  <2>4. Queue!Finish
    BY <1>7, <2>2, <2>3 DEF Queue!Finish, S!Work, Ended, Working, NoJob
  <2>5. \A d \in Thread : con'[d] = "working" <=> data'[d] # NoJob
    BY <1>0, <1>7, <2>1 DEF S!Work
  <2>. QED  BY <1>7, <2>2, <2>3, <2>4, <2>5 DEF S!Work, Queue!Next
<1>8. ASSUME NEW c \in Thread, S!TaskDone(c)
      PROVE  SyncInv' /\ [Queue!Next]_Queue!vars
  <2>1. JobsInOrder(Thread)' /\ Working' = Working
    BY <1>8, OtherStepsKeepOrder DEF S!TaskDone
  <2>2. Busy' = Busy \ {c} /\ c \in Busy /\ Ended' = Ended
    BY <1>0, <1>8 DEF S!TaskDone, Busy, Ended
  <2>3. Cardinality(Busy') = Cardinality(Busy) - 1 /\ Cardinality(Busy) # 0
    BY <2>2, BusyIsFinite, FS_RemoveElement, FS_EmptySet
  <2>4. unfinished' = Len(work') + Cardinality(Busy')
    BY <1>0, <1>8, <2>3, BusyIsFinite DEF S!TaskDone
  <2>5. pro \notin {"joined", "ended"}
    BY <1>0, <2>3, BusyIsFinite
  <2>6. UNCHANGED Queue!vars
    BY <1>8, <2>1, <2>2 DEF Queue!vars, S!TaskDone, Ended, Working, NoJob
  <2>. QED  BY <1>8, <2>1, <2>4, <2>5, <2>6 DEF S!TaskDone
<1>. QED
  BY <1>1, <1>2, <1>3, <1>4, <1>5, <1>6, <1>7, <1>8
     DEF S!Next, S!ProducerStep, S!ConsumerStep

-----------------------------------------------------------------------------
(* starv.c: one thread at a time is past the lock, and the one that has    *)
(* filled its row has raised the flag itself before it gives the lock back. *)

Arrived == {t \in Thread : thread[t] # "start"}
Holds(t) == thread[t] \in {"inside", "unlock"}

SpinInv ==
  /\ thread \in [Thread -> {"start", "barrier", "test", "lock", "inside", "unlock", "ended"}]
  /\ g_poor_mans_lock = Cardinality(Arrived) /\ g_spinlock \in {0, 1}
  /\ g_counter \in [Thread -> 0 .. MaxCounter] /\ g_finish \in BOOLEAN
  /\ \A t \in Thread : Holds(t) => g_spinlock = 1
  /\ \A t, u \in Thread : Holds(t) /\ Holds(u) => t = u
  /\ \A t \in Thread :
       g_counter[t] = MaxCounter => g_finish /\ thread[t] \notin {"lock", "inside"}

LEMMA SameCardinality ==
  L!Cardinality(Thread) = Cardinality(Thread) /\ U!Cardinality(Thread) = Cardinality(Thread)
BY DEF L!Cardinality, U!Cardinality, Cardinality

LEMMA ArrivedIsFinite ==
  /\ IsFiniteSet(Arrived) /\ Cardinality(Arrived) \in 0 .. Cardinality(Thread)
<1>1. IsFiniteSet(Arrived) /\ Cardinality(Arrived) <= Cardinality(Thread)
  BY SyncAssumption, FS_Subset DEF Arrived
<1>2. Cardinality(Arrived) \in Nat /\ Cardinality(Thread) \in Nat
  BY <1>1, SyncAssumption, FS_CardinalityType
<1>. QED  BY <1>1, <1>2

LEMMA OneMoreArrives ==
  ASSUME NEW t \in Thread, thread[t] = "start", Arrived' = Arrived \cup {t}
  PROVE  Cardinality(Arrived') = Cardinality(Arrived) + 1
<1>1. t \notin Arrived
  BY DEF Arrived
<1>. QED  BY <1>1, ArrivedIsFinite, FS_AddElement

LEMMA SpinInit == L!Init => SpinInv
<1>. SUFFICES ASSUME L!Init  PROVE SpinInv
  OBVIOUS
<1>1. Arrived = {}
  BY DEF L!Init, Arrived
<1>2. Cardinality(Arrived) = 0
  BY <1>1, FS_EmptySet
<1>3. MaxCounter \in Nat /\ MaxCounter # 0
  BY SyncAssumption
<1>4. g_counter \in [Thread -> 0 .. MaxCounter] /\ \A t \in Thread : g_counter[t] # MaxCounter
  BY <1>3 DEF L!Init
<1>. QED  BY <1>2, <1>4 DEF L!Init, SpinInv, Holds

LEMMA SpinNext == SpinInv /\ L!Next => SpinInv'
<1>. SUFFICES ASSUME SpinInv, NEW t \in Thread, L!ThreadStep(t)
              PROVE  SpinInv'
  BY DEF L!Next
<1>. USE DEF SpinInv, Holds, L!At
<1>0. MaxCounter \in Nat \ {0}
  BY SyncAssumption
<1>1. CASE L!Arrive(t)
  <2>1. Arrived' = Arrived \cup {t}
    BY <1>1 DEF L!Arrive, Arrived
  <2>2. Cardinality(Arrived') = Cardinality(Arrived) + 1
    BY <1>1, <2>1, OneMoreArrives DEF L!Arrive
  <2>. QED  BY <1>1, <2>2 DEF L!Arrive
<1>2. CASE L!LeaveBarrier(t) \/ L!TestFinish(t) \/ L!Lock(t) \/ L!Count(t) \/ L!Unlock(t)
  <2>1. UNCHANGED <<Arrived, g_poor_mans_lock>>
    BY <1>2 DEF L!LeaveBarrier, L!TestFinish, L!Lock, L!Count, L!Unlock, Arrived
  <2>2. g_poor_mans_lock' = Cardinality(Arrived')
    BY <2>1
  <2>3. CASE L!LeaveBarrier(t)
    BY <2>2, <2>3 DEF L!LeaveBarrier
  <2>4. CASE L!TestFinish(t)
    BY <2>2, <2>4 DEF L!TestFinish
  <2>5. CASE L!Lock(t)
    BY <2>2, <2>5 DEF L!Lock
  <2>6. CASE L!Count(t)
    <3>1. g_counter[t] \in 0 .. MaxCounter - 1
      BY <1>0, <2>6 DEF L!Count
    <3>2. /\ g_counter' \in [Thread -> 0 .. MaxCounter]
          /\ g_counter'[t] = g_counter[t] + 1
          /\ \A u \in Thread \ {t} : g_counter'[u] = g_counter[u]
      BY <1>0, <2>6, <3>1 DEF L!Count
    <3>3. /\ thread'[t] = "unlock" /\ \A u \in Thread \ {t} : thread'[u] = thread[u]
          /\ g_finish' \in BOOLEAN /\ (g_finish => g_finish')
          /\ g_counter'[t] = MaxCounter => g_finish'
      BY <2>6, <3>2 DEF L!Count
    <3>4. \A u \in Thread :
            g_counter'[u] = MaxCounter => g_finish' /\ thread'[u] \notin {"lock", "inside"}
      BY <3>2, <3>3
    <3>. QED  BY <2>2, <2>6, <3>2, <3>3, <3>4 DEF L!Count
  <2>7. CASE L!Unlock(t)
    BY <2>2, <2>7 DEF L!Unlock
  <2>. QED  BY <1>2, <2>3, <2>4, <2>5, <2>6, <2>7
<1>. QED  BY <1>1, <1>2 DEF L!ThreadStep

LEMMA SpinIsRight == SpinInv => L!TypeOK /\ L!RoundTimeInBounds
<1>. SUFFICES ASSUME SpinInv  PROVE L!TypeOK /\ L!RoundTimeInBounds
  OBVIOUS
<1>. USE DEF SpinInv
<1>1. L!TypeOK
  BY ArrivedIsFinite, SameCardinality DEF L!TypeOK
<1>2. L!RoundTimeInBounds
  BY SyncAssumption DEF L!RoundTimeInBounds
<1>. QED  BY <1>1, <1>2

-----------------------------------------------------------------------------
(* uid.c: the draws are counted as pairs of a thread and a number.  With   *)
(* the interlocked increment the counter is how many there are; with ++ it *)
(* is never more, and a thread's second draw starts from a value that has  *)
(* been written.                                                           *)

Draws == {p \in Thread \X (1 .. IdsPerThread) : p[2] <= drawn[p[1]]}

UidInv ==
  /\ thread \in [Thread -> {"start", "barrier", "get", "write", "ended"}]
  /\ g_poor_mans_lock = Cardinality(Arrived)
  /\ get_unique_id \in {"Interlocked", "Bad"}
  /\ drawn \in [Thread -> 0 .. IdsPerThread]
  /\ next_uid \in 0 .. Cardinality(Draws) /\ read \in [Thread -> 0 .. Cardinality(Draws)]
  /\ get_unique_id = "Interlocked" => next_uid = Cardinality(Draws)
  /\ \A t \in Thread :
       /\ thread[t] = "write" => drawn[t] < IdsPerThread /\ get_unique_id = "Bad"
       /\ thread[t] = "write" /\ drawn[t] > 0 => read[t] > 0
       /\ thread[t] = "ended" => drawn[t] = IdsPerThread
       /\ drawn[t] > 0 => next_uid > 0
  /\ get_unique_id = "Bad" /\ (\A t \in Thread : drawn[t] >= 2) => next_uid >= 2

LEMMA AllDraws ==
  /\ IsFiniteSet(Thread \X (1 .. IdsPerThread))
  /\ Cardinality(Thread \X (1 .. IdsPerThread)) = Cardinality(Thread) * IdsPerThread
<1>1. IsFiniteSet(1 .. IdsPerThread) /\ Cardinality(1 .. IdsPerThread) = IdsPerThread
  BY SyncAssumption, FS_Interval
<1>. QED  BY <1>1, SyncAssumption, FS_Product

LEMMA DrawsAreFinite ==
  /\ IsFiniteSet(Draws) /\ Cardinality(Draws) \in Nat
  /\ Cardinality(Draws) <= Cardinality(Thread) * IdsPerThread
<1>1. Draws \subseteq Thread \X (1 .. IdsPerThread)
  BY DEF Draws
<1>. QED  BY <1>1, AllDraws, FS_Subset, FS_CardinalityType

LEMMA OneMoreDraw ==
  ASSUME NEW t \in Thread, drawn \in [Thread -> 0 .. IdsPerThread],
         drawn[t] < IdsPerThread, drawn' = [drawn EXCEPT ![t] = drawn[t] + 1]
  PROVE  Cardinality(Draws') = Cardinality(Draws) + 1
<1>. DEFINE new == <<t, drawn[t] + 1>>
<1>0. IdsPerThread \in Nat /\ drawn[t] \in Nat
  BY SyncAssumption
<1>1. new \in Thread \X (1 .. IdsPerThread) /\ new \notin Draws
  BY <1>0 DEF Draws
<1>2. ASSUME NEW p \in Thread \X (1 .. IdsPerThread)
      PROVE  p \in Draws' <=> p \in Draws \/ p = new
  <2>1. p[1] \in Thread /\ p[2] \in 1 .. IdsPerThread /\ p = <<p[1], p[2]>>
    OBVIOUS
  <2>2. p \in Draws' <=> p[2] <= drawn'[p[1]]
    BY DEF Draws
  <2>3. p \in Draws <=> p[2] <= drawn[p[1]]
    BY DEF Draws
  <2>4. CASE p[1] = t
    <3>1. drawn'[p[1]] = drawn[t] + 1
      BY <2>4
    <3>2. p = new <=> p[2] = drawn[t] + 1
      BY <2>1, <2>4
    <3>. QED  BY <1>0, <2>1, <2>2, <2>3, <2>4, <3>1, <3>2
  <2>5. CASE p[1] # t
    BY <2>1, <2>2, <2>3, <2>5
  <2>. QED  BY <2>4, <2>5
<1>3. Draws' = Draws \cup {new}
  BY <1>1, <1>2 DEF Draws
<1>. QED  BY <1>1, <1>3, DrawsAreFinite, FS_AddElement

LEMMA UidInit == U!Init => UidInv
<1>. SUFFICES ASSUME U!Init  PROVE UidInv
  OBVIOUS
<1>. USE DEF U!Init
<1>1. Arrived = {} /\ Draws = {}
  BY DEF Arrived, Draws
<1>2. Cardinality(Arrived) = 0 /\ Cardinality(Draws) = 0
  BY <1>1, FS_EmptySet
<1>3. /\ drawn \in [Thread -> 0 .. IdsPerThread] /\ read \in [Thread -> 0 .. 0]
      /\ next_uid \in 0 .. 0
  BY SyncAssumption
<1>4. \A t \in Thread : drawn[t] = 0 /\ thread[t] = "start"
  OBVIOUS
<1>5. ~ \A t \in Thread : drawn[t] >= 2
  BY <1>4, SyncAssumption
<1>. QED  BY <1>2, <1>3, <1>4, <1>5 DEF UidInv

LEMMA UidNext == UidInv /\ U!Next => UidInv'
<1>. SUFFICES ASSUME UidInv, NEW t \in Thread, U!ThreadStep(t)
              PROVE  UidInv'
  BY DEF U!Next
<1>. USE DEF UidInv
<1>0. IdsPerThread \in Nat /\ Cardinality(Draws) \in Nat
  BY SyncAssumption, DrawsAreFinite
<1>1. CASE U!Arrive(t)
  <2>1. Arrived' = Arrived \cup {t} /\ Draws' = Draws
    BY <1>1 DEF U!Arrive, Arrived, Draws
  <2>2. Cardinality(Arrived') = Cardinality(Arrived) + 1
    BY <1>1, <2>1, OneMoreArrives DEF U!Arrive
  <2>. QED  BY <1>1, <2>1, <2>2 DEF U!Arrive
<1>2. CASE U!LeaveBarrier(t) \/ U!Return(t)
  <2>1. Arrived' = Arrived /\ Draws' = Draws
    BY <1>2 DEF U!LeaveBarrier, U!Return, Arrived, Draws
  <2>. QED  BY <1>2, <2>1 DEF U!LeaveBarrier, U!Return
<1>3. CASE U!InterlockedGetUniqueID(t)
  <2>1. drawn[t] < IdsPerThread /\ drawn' = [drawn EXCEPT ![t] = drawn[t] + 1]
    BY <1>3 DEF U!InterlockedGetUniqueID
  <2>2. Cardinality(Draws') = Cardinality(Draws) + 1
    BY <2>1, OneMoreDraw
  <2>3. drawn' \in [Thread -> 0 .. IdsPerThread]
    BY <1>0, <2>1
  <2>4. Arrived' = Arrived /\ next_uid' = Cardinality(Draws') /\ next_uid' > 0
    BY <1>0, <1>3, <2>2 DEF U!InterlockedGetUniqueID, Arrived
  <2>5. read' \in [Thread -> 0 .. Cardinality(Draws')]
    BY <1>0, <1>3, <2>2 DEF U!InterlockedGetUniqueID
  <2>6. thread[t] = "get" /\ UNCHANGED <<thread, g_poor_mans_lock, get_unique_id>>
        /\ get_unique_id = "Interlocked"
    BY <1>3 DEF U!InterlockedGetUniqueID
  <2>7. ASSUME NEW u \in Thread
        PROVE  /\ thread'[u] # "write"
               /\ thread'[u] = "ended" => drawn'[u] = IdsPerThread
    BY <2>1, <2>6
  <2>. QED  BY <1>0, <2>2, <2>3, <2>4, <2>5, <2>6, <2>7
<1>4. CASE U!BadRead(t)
  <2>1. Arrived' = Arrived /\ Draws' = Draws
    BY <1>4 DEF U!BadRead, Arrived, Draws
  <2>2. read' \in [Thread -> 0 .. Cardinality(Draws')]
    BY <1>4, <2>1 DEF U!BadRead
  <2>. QED  BY <1>4, <2>1, <2>2 DEF U!BadRead
<1>5. CASE U!BadWrite(t)
  <2>1. drawn[t] < IdsPerThread /\ drawn' = [drawn EXCEPT ![t] = drawn[t] + 1]
    BY <1>5 DEF U!BadWrite
  <2>2. Cardinality(Draws') = Cardinality(Draws) + 1
    BY <2>1, OneMoreDraw
  <2>3. drawn' \in [Thread -> 0 .. IdsPerThread]
    BY <1>0, <2>1
  <2>4. Arrived' = Arrived /\ next_uid' \in 0 .. Cardinality(Draws') /\ next_uid' > 0
    BY <1>0, <1>5, <2>2 DEF U!BadWrite, Arrived
  <2>5. read' \in [Thread -> 0 .. Cardinality(Draws')] /\ read' = read
    BY <1>0, <1>5, <2>2 DEF U!BadWrite
  <2>6. /\ thread[t] = "write" /\ thread' = [thread EXCEPT ![t] = "get"]
        /\ UNCHANGED <<g_poor_mans_lock, get_unique_id>> /\ get_unique_id = "Bad"
        /\ next_uid' = read[t] + 1
    BY <1>5 DEF U!BadWrite
  <2>7. ASSUME NEW u \in Thread
        PROVE  /\ thread'[u] = "write" => drawn'[u] < IdsPerThread
               /\ thread'[u] = "write" /\ drawn'[u] > 0 => read'[u] > 0
               /\ thread'[u] = "ended" => drawn'[u] = IdsPerThread
    BY <2>1, <2>5, <2>6
  <2>8. (\A u \in Thread : drawn'[u] >= 2) => next_uid' >= 2
    <3>. SUFFICES ASSUME \A u \in Thread : drawn'[u] >= 2  PROVE next_uid' >= 2
      OBVIOUS
    <3>1. drawn'[t] = drawn[t] + 1 /\ drawn[t] \in Nat /\ read[t] \in Nat
      BY <2>1
    <3>2. drawn[t] > 0
      BY <3>1
    <3>3. read[t] > 0
      BY <2>6, <3>2
    <3>. QED  BY <2>6, <3>1, <3>3
  <2>. QED  BY <2>2, <2>3, <2>4, <2>5, <2>6, <2>7, <2>8
<1>. QED  BY <1>1, <1>2, <1>3, <1>4, <1>5 DEF U!ThreadStep

LEMMA UidIsRight == UidInv => U!TypeOK /\ U!NextIdShouldBe
<1>. SUFFICES ASSUME UidInv  PROVE U!TypeOK /\ U!NextIdShouldBe
  OBVIOUS
<1>. USE DEF UidInv
<1>0. /\ IdsPerThread \in Nat /\ Cardinality(Draws) \in Nat
      /\ Cardinality(Draws) <= Cardinality(Thread) * IdsPerThread
      /\ Cardinality(Thread) * IdsPerThread \in Nat
  <2>1. \A a, b \in Nat : a * b \in Nat
    OBVIOUS
  <2>2. Cardinality(Thread) \in Nat /\ IdsPerThread \in Nat
    BY SyncAssumption, FS_CardinalityType
  <2>. QED  BY <2>1, <2>2, DrawsAreFinite
<1>1. U!TypeOK
  BY <1>0, ArrivedIsFinite, SameCardinality DEF U!TypeOK
<1>2. ASSUME \A t \in Thread : thread[t] = "ended", get_unique_id = "Interlocked"
      PROVE  next_uid = Cardinality(Thread) * IdsPerThread
  <2>1. Draws = Thread \X (1 .. IdsPerThread)
    BY <1>0, <1>2 DEF Draws
  <2>. QED  BY <1>2, <2>1, AllDraws
<1>3. ASSUME \A t \in Thread : thread[t] = "ended", get_unique_id = "Bad"
      PROVE  next_uid >= IF IdsPerThread < 2 THEN IdsPerThread ELSE 2
  <2>1. \A t \in Thread : drawn[t] = IdsPerThread
    BY <1>3
  <2>2. PICK t \in Thread : TRUE
    BY SyncAssumption
  <2>3. CASE IdsPerThread = 0
    BY <2>3, <1>0
  <2>4. CASE IdsPerThread = 1
    BY <2>1, <2>2, <2>4
  <2>5. CASE IdsPerThread >= 2
    BY <1>0, <1>3, <2>1, <2>5
  <2>. QED  BY <1>0, <2>3, <2>4, <2>5
<1>. QED  BY <1>1, <1>2, <1>3, SameCardinality DEF U!NextIdShouldBe

-----------------------------------------------------------------------------
(* condpred.cc: nothing but its types is claimed here. *)

PredInv == P!TypeOK /\ (setter = "notify" => setting < Values)

LEMMA PredInit == P!Init => PredInv
<1>1. Values \in Nat
  BY SyncAssumption
<1>2. 0 \in 0 .. Values
  BY <1>1
<1>. QED  BY <1>2 DEF P!Init, PredInv, P!TypeOK

LEMMA PredNext == PredInv /\ P!Next => PredInv'
<1>. SUFFICES ASSUME PredInv, P!Next  PROVE PredInv'
  OBVIOUS
<1>. USE SyncAssumption DEF PredInv, P!TypeOK
<1>1. CASE P!SetValue
  BY <1>1 DEF P!SetValue
<1>2. CASE P!NotifyOne
  BY <1>2 DEF P!NotifyOne
<1>3. CASE P!ProducerEnds \/ P!Check \/ P!WakeSpuriously
  BY <1>3 DEF P!ProducerEnds, P!Check, P!WakeSpuriously
<1>. QED  BY <1>1, <1>2, <1>3 DEF P!Next, P!ProducerStep

-----------------------------------------------------------------------------
(* proverb_server.py.  The lines that somebody has heard come before those *)
(* in the pipe; both are numbers of lines that have been sent.  A pipe     *)
(* that is open for writing has, or had, a reader.                         *)

Came(c) == reader[c] # "away"
Inside(c) == reader[c] \in {"reading", "at end", "ended"}
Ascending(s) == \A i, j \in 1 .. Len(s) : i < j => s[i] < s[j]
Below(s, n) == \A i \in 1 .. Len(s) : s[i] < n
Before(s, q) == \A i \in 1 .. Len(s), j \in 1 .. Len(q) : s[i] < q[j]
Apart(s, q) == \A i \in 1 .. Len(s), j \in 1 .. Len(q) : s[i] # q[j]

Lines ==
  /\ proverb \in Nat /\ fifo \in Seq(Int) /\ heard \in [Thread -> Seq(Int)]
  /\ Ascending(fifo) /\ Below(fifo, proverb)
  /\ \A c \in Thread :
       Ascending(heard[c]) /\ Below(heard[c], proverb) /\ Before(heard[c], fifo)
  /\ \A c, d \in Thread : c # d => Apart(heard[c], heard[d])

Connections ==
  /\ fdw \in {"closed", "open", "written", "died", "stopped"}
  /\ reader \in [Thread -> {"away", "opening", "reading", "at end", "ended"}]
  /\ fdw \in {"open", "written", "died"} => \E c \in Thread : Came(c)
  /\ fdw \in {"written", "died"} => proverb # 0
  /\ fdw = "died" => \E c \in Thread : reader[c] = "ended"
  /\ \A c \in Thread : reader[c] \in {"at end", "ended"} => proverb # 0 \/ fdw = "stopped"
  /\ \A c \in Thread : reader[c] = "reading" /\ proverb = 0 => fdw \in {"open", "stopped"}

\* A client that is alone and has heard nothing still has a line coming.
Alone(c) == \A d \in Thread \ {c} : ~Came(d)
LineComes ==
  \A c \in Thread :
    Inside(c) /\ Alone(c) /\ heard[c] = <<>> /\ fdw # "stopped" =>
      /\ reader[c] = "reading"
      /\ fdw = "open" \/ (fdw \in {"written", "closed"} /\ fifo # <<>>)

ProverbInv == Lines /\ Connections /\ LineComes

LEMMA ConcatElements ==
  ASSUME NEW s \in Seq(Int), NEW q \in Seq(Int)
  PROVE  /\ s \o q \in Seq(Int) /\ Len(s \o q) = Len(s) + Len(q)
         /\ Len(s) \in Nat /\ Len(q) \in Nat
         /\ \A i \in 1 .. Len(s \o q) :
              \/ i <= Len(s) /\ (s \o q)[i] = s[i]
              \/ i > Len(s) /\ i - Len(s) \in 1 .. Len(q) /\ (s \o q)[i] = q[i - Len(s)]
  OBVIOUS

LEMMA ConcatNotEmpty ==
  ASSUME NEW s \in Seq(Int), NEW q \in Seq(Int), q # <<>>
  PROVE  s \o q # <<>>
<1>1. Len(q) \in Nat /\ Len(q) # 0 /\ Len(s) \in Nat
  OBVIOUS
<1>2. Len(s \o q) # 0
  BY <1>1, ConcatElements
<1>. QED  BY <1>2

LEMMA ConcatAscends ==
  ASSUME NEW s \in Seq(Int), NEW q \in Seq(Int), NEW n,
         Ascending(s), Ascending(q), Below(s, n), Below(q, n), Before(s, q)
  PROVE  Ascending(s \o q) /\ Below(s \o q, n)
<1>. DEFINE r == s \o q
<1>1. /\ Len(s) \in Nat /\ Len(q) \in Nat /\ Len(r) = Len(s) + Len(q)
      /\ \A i \in 1 .. Len(r) :
           \/ i <= Len(s) /\ r[i] = s[i]
           \/ i > Len(s) /\ i - Len(s) \in 1 .. Len(q) /\ r[i] = q[i - Len(s)]
  BY ConcatElements
<1>2. \A i \in 1 .. Len(s) : s[i] \in Int
  OBVIOUS
<1>3. \A i \in 1 .. Len(q) : q[i] \in Int
  OBVIOUS
<1>. HIDE DEF r
<1>6. \A i \in 1 .. Len(r) :
        i > Len(s) => i - Len(s) \in 1 .. Len(q) /\ r[i] = q[i - Len(s)]
  BY <1>1
<1>4. Ascending(r)
  <2>. SUFFICES ASSUME NEW i \in 1 .. Len(r), NEW j \in 1 .. Len(r), i < j
                PROVE  r[i] < r[j]
    BY DEF Ascending
  <2>1. CASE j <= Len(s)
    BY <1>1, <2>1 DEF Ascending
  <2>2. CASE i <= Len(s) /\ j > Len(s)
    <3>1. i \in 1 .. Len(s) /\ r[i] = s[i]
      BY <1>1, <2>2
    <3>2. j - Len(s) \in 1 .. Len(q) /\ r[j] = q[j - Len(s)]
      BY <1>1, <2>2
    <3>. QED  BY <3>1, <3>2 DEF Before
  <2>3. CASE i > Len(s)
    <3>1. i - Len(s) \in 1 .. Len(q) /\ r[i] = q[i - Len(s)]
      BY <1>6, <2>3
    <3>2. j - Len(s) \in 1 .. Len(q) /\ r[j] = q[j - Len(s)]
      BY <1>1, <1>6, <2>3
    <3>3. i - Len(s) < j - Len(s)
      BY <1>1
    <3>. QED  BY <3>1, <3>2, <3>3 DEF Ascending
  <2>. QED  BY <1>1, <2>1, <2>2, <2>3
<1>5. Below(r, n)
  <2>. SUFFICES ASSUME NEW i \in 1 .. Len(r) PROVE r[i] < n
    BY DEF Below
  <2>1. CASE i <= Len(s)
    <3>1. i \in 1 .. Len(s) /\ r[i] = s[i]
      BY <1>1, <2>1
    <3>. QED  BY <3>1 DEF Below
  <2>2. CASE i > Len(s)
    <3>1. i - Len(s) \in 1 .. Len(q) /\ r[i] = q[i - Len(s)]
      BY <1>6, <2>2
    <3>. QED  BY <3>1 DEF Below
  <2>. QED  BY <1>1, <2>1, <2>2
<1>. QED  BY <1>4, <1>5 DEF r

LEMMA ConcatApart ==
  ASSUME NEW s \in Seq(Int), NEW q \in Seq(Int), NEW t \in Seq(Int),
         Apart(s, t), Apart(t, s), Before(t, q)
  PROVE  Apart(s \o q, t) /\ Apart(t, s \o q)
<1>. DEFINE r == s \o q
<1>1. /\ Len(s) \in Nat /\ Len(q) \in Nat /\ Len(r) = Len(s) + Len(q)
      /\ \A i \in 1 .. Len(r) :
           \/ i <= Len(s) /\ r[i] = s[i]
           \/ i > Len(s) /\ i - Len(s) \in 1 .. Len(q) /\ r[i] = q[i - Len(s)]
  BY ConcatElements
<1>2. \A i \in 1 .. Len(t) : t[i] \in Int
  OBVIOUS
<1>3. \A i \in 1 .. Len(q) : q[i] \in Int
  OBVIOUS
<1>. HIDE DEF r
<1>4. \A i \in 1 .. Len(r), j \in 1 .. Len(t) : r[i] # t[j]
  <2>. SUFFICES ASSUME NEW i \in 1 .. Len(r), NEW j \in 1 .. Len(t)
                PROVE  r[i] # t[j]
    OBVIOUS
  <2>1. CASE i <= Len(s)
    <3>1. i \in 1 .. Len(s) /\ r[i] = s[i]
      BY <1>1, <2>1
    <3>. QED  BY <3>1 DEF Apart
  <2>2. CASE i > Len(s)
    <3>1. i - Len(s) \in 1 .. Len(q) /\ r[i] = q[i - Len(s)]
      BY <1>1, <2>2
    <3>2. t[j] < q[i - Len(s)]
      BY <3>1 DEF Before
    <3>. QED  BY <1>2, <1>3, <3>1, <3>2
  <2>. QED  BY <1>1, <2>1, <2>2
<1>. QED  BY <1>4 DEF Apart, r

LEMMA AppendAscends ==
  ASSUME NEW s \in Seq(Int), NEW n \in Nat, Ascending(s), Below(s, n)
  PROVE  /\ Append(s, n) \in Seq(Int) /\ Append(s, n) # <<>>
         /\ Ascending(Append(s, n)) /\ Below(Append(s, n), n + 1)
<1>. DEFINE r == Append(s, n)
<1>1. /\ r \in Seq(Int) /\ Len(s) \in Nat /\ Len(r) = Len(s) + 1 /\ r[Len(s) + 1] = n
      /\ \A i \in 1 .. Len(s) : r[i] = s[i] /\ s[i] \in Int
  OBVIOUS
<1>. HIDE DEF r
<1>2. Ascending(r) /\ Below(r, n + 1)
  <2>1. ASSUME NEW i \in 1 .. Len(r), NEW j \in 1 .. Len(r), i < j
        PROVE  r[i] < r[j]
    <3>1. i \in 1 .. Len(s) /\ r[i] = s[i]
      BY <1>1, <2>1
    <3>2. CASE j = Len(s) + 1
      BY <1>1, <3>1, <3>2 DEF Below
    <3>3. CASE j \in 1 .. Len(s)
      BY <1>1, <2>1, <3>1, <3>3 DEF Ascending
    <3>. QED  BY <1>1, <3>2, <3>3
  <2>2. Below(r, n + 1)
    BY <1>1 DEF Below
  <2>. QED  BY <2>1, <2>2 DEF Ascending
<1>3. r # <<>>
  BY <1>1
<1>. QED  BY <1>1, <1>2, <1>3 DEF r

LEMMA AppendAfter ==
  ASSUME NEW s \in Seq(Int), NEW q \in Seq(Int), NEW n \in Nat, Before(s, q), Below(s, n)
  PROVE  Before(s, Append(q, n)) /\ Below(s, n + 1)
<1>. DEFINE r == Append(q, n)
<1>1. /\ Len(q) \in Nat /\ Len(r) = Len(q) + 1 /\ r[Len(q) + 1] = n
      /\ \A i \in 1 .. Len(q) : r[i] = q[i]
  OBVIOUS
<1>2. \A i \in 1 .. Len(s) : s[i] \in Int
  OBVIOUS
<1>. HIDE DEF r
<1>3. ASSUME NEW i \in 1 .. Len(s), NEW j \in 1 .. Len(r)
      PROVE  s[i] < r[j]
  <2>1. CASE j = Len(q) + 1
    BY <1>1, <2>1 DEF Below
  <2>2. CASE j \in 1 .. Len(q)
    BY <1>1, <2>2 DEF Before
  <2>. QED  BY <1>1, <2>1, <2>2
<1>4. Below(s, n + 1)
  BY <1>2 DEF Below
<1>. QED  BY <1>3, <1>4 DEF r, Before

LEMMA ProverbInit == V!Init => ProverbInv
<1>. SUFFICES ASSUME V!Init  PROVE ProverbInv
  OBVIOUS
<1>. USE DEF V!Init
<1>1. <<>> \in Seq(Int) /\ Len(<<>>) = 0
  OBVIOUS
<1>2. /\ fifo = <<>> /\ proverb = 0 /\ heard \in [Thread -> Seq(Int)]
      /\ \A c \in Thread : heard[c] = <<>>
  BY <1>1
<1>3. Lines
  BY <1>1, <1>2 DEF Lines, Ascending, Below, Before, Apart
<1>4. Connections
  BY DEF Connections, Came
<1>5. LineComes
  BY DEF LineComes, Inside
<1>. QED  BY <1>3, <1>4, <1>5 DEF ProverbInv

LEMMA PipeEmptied ==
  ASSUME Lines, UNCHANGED <<proverb, heard>>, fifo' = <<>>
  PROVE  Lines'
<1>1. <<>> \in Seq(Int) /\ Len(<<>>) = 0
  OBVIOUS
<1>2. fifo' \in Seq(Int) /\ Ascending(fifo') /\ Below(fifo', proverb)
  BY <1>1 DEF Ascending, Below
<1>3. \A c \in Thread : Before(heard[c], fifo')
  BY <1>1 DEF Before
<1>. QED  BY <1>2, <1>3 DEF Lines

LEMMA LinesNext ==
  ASSUME Lines, V!Next  PROVE Lines'
<1>1. CASE UNCHANGED <<proverb, heard, fifo>>
  BY <1>1 DEF Lines
<1>2. CASE UNCHANGED <<proverb, heard>> /\ fifo' = <<>>
  BY <1>2, PipeEmptied
<1>3. CASE V!Write
  <2>1. fifo' = Append(fifo, proverb) /\ proverb' = proverb + 1 /\ heard' = heard
    BY <1>3 DEF V!Write
  <2>2. /\ fifo' \in Seq(Int) /\ Ascending(fifo') /\ Below(fifo', proverb')
    BY <2>1, AppendAscends DEF Lines
  <2>3. \A c \in Thread : Below(heard[c], proverb') /\ Before(heard[c], fifo')
    BY <2>1, AppendAfter DEF Lines
  <2>. QED  BY <2>1, <2>2, <2>3 DEF Lines
<1>4. ASSUME NEW c \in Thread, V!Read(c)
      PROVE  Lines'
  <2>1. /\ heard' = [heard EXCEPT ![c] = heard[c] \o fifo] /\ fifo' = <<>>
        /\ proverb' = proverb
    BY <1>4 DEF V!Read
  <2>. DEFINE longer == heard[c] \o fifo
  <2>2. longer \in Seq(Int) /\ Ascending(longer) /\ Below(longer, proverb)
    BY ConcatAscends DEF Lines
  <2>3. ASSUME NEW d \in Thread \ {c}
        PROVE  Apart(longer, heard[d]) /\ Apart(heard[d], longer)
    BY ConcatApart DEF Lines
  <2>. HIDE DEF longer
  <2>4. heard'[c] = longer /\ \A d \in Thread \ {c} : heard'[d] = heard[d]
    BY <2>1 DEF longer, Lines
  <2>5. heard' \in [Thread -> Seq(Int)]
    BY <2>1, <2>2 DEF longer, Lines
  <2>6. \A d \in Thread : Ascending(heard'[d]) /\ Below(heard'[d], proverb')
    BY <2>1, <2>2, <2>4 DEF Lines
  <2>7. ASSUME NEW d \in Thread, NEW e \in Thread, d # e
        PROVE  Apart(heard'[d], heard'[e])
    <3>1. CASE d = c
      BY <2>3, <2>4, <2>7, <3>1, Zenon
    <3>2. CASE e = c
      BY <2>3, <2>4, <2>7, <3>2, Zenon
    <3>3. CASE d # c /\ e # c
      <4>1. Apart(heard[d], heard[e])
        BY <2>7 DEF Lines
      <4>2. heard'[d] = heard[d] /\ heard'[e] = heard[e]
        BY <2>4, <3>3
      <4>. QED  BY <4>1, <4>2, Zenon
    <3>. QED  BY <3>1, <3>2, <3>3
  <2>8. <<>> \in Seq(Int) /\ Len(<<>>) = 0
    OBVIOUS
  <2>9. fifo' \in Seq(Int) /\ Ascending(fifo') /\ Below(fifo', proverb')
    BY <2>1, <2>8 DEF Ascending, Below
  <2>10. \A d \in Thread : Before(heard'[d], fifo')
    BY <2>1, <2>8 DEF Before
  <2>. QED  BY <2>1, <2>5, <2>6, <2>7, <2>9, <2>10 DEF Lines
<1>5. V!OpenForWriting \/ V!WriteFails \/ V!CloseWritten \/ V!Stop =>
        UNCHANGED <<proverb, heard>> /\ fifo' \in {fifo, <<>>}
  BY DEF V!OpenForWriting, V!WriteFails, V!CloseWritten, V!Stop
<1>6. ASSUME NEW c \in Thread, V!OpenForReading(c) \/ V!ReadsEnd(c) \/ V!Leave(c)
      PROVE  UNCHANGED <<proverb, heard>> /\ fifo' \in {fifo, <<>>}
  BY <1>6 DEF V!OpenForReading, V!ReadsEnd, V!Leave
<1>. QED
  BY <1>1, <1>2, <1>3, <1>4, <1>5, <1>6 DEF V!Next, V!ServerStep, V!ReaderStep

LEMMA ConnectionsNext ==
  ASSUME Lines, Connections, V!Next  PROVE Connections'
<1>0. proverb + 1 # 0
  BY DEF Lines
<1>. USE DEF Connections, Came
<1>1. CASE V!OpenForWriting
  BY <1>1 DEF V!OpenForWriting, V!HasOpen
<1>2. CASE V!Write
  <2>1. proverb' # 0 /\ reader' = reader /\ fdw' = "written"
    BY <1>0, <1>2 DEF V!Write
  <2>2. \E c \in Thread : Came(c)
    BY <1>2 DEF V!Write
  <2>. QED  BY <2>1, <2>2
<1>3. CASE V!WriteFails
  <2>1. \A c \in Thread : reader[c] \in {"away", "ended"}
    BY <1>3 DEF V!WriteFails, V!HasOpen
  <2>2. \E c \in Thread : reader[c] = "ended"
    BY <1>3, <2>1 DEF V!WriteFails
  <2>3. proverb # 0
    BY <1>3, <2>2 DEF V!WriteFails
  <2>. QED  BY <1>3, <2>1, <2>2, <2>3 DEF V!WriteFails
<1>4. CASE V!CloseWritten
  BY <1>4 DEF V!CloseWritten
<1>5. CASE V!Stop
  BY <1>5 DEF V!Stop
<1>6. ASSUME NEW c \in Thread, V!OpenForReading(c)
      PROVE  Connections'
  <2>1. /\ reader' \in [Thread -> {"away", "opening", "reading", "at end", "ended"}]
        /\ reader'[c] \in {"reading", "opening"}
        /\ reader'[c] = "reading" => fdw \in {"open", "written"}
        /\ \A d \in Thread \ {c} : reader'[d] = reader[d]
        /\ reader[c] = "away" /\ UNCHANGED <<fdw, proverb>>
    BY <1>6 DEF V!OpenForReading, V!Writing
  <2>3. fdw = "died" => \E d \in Thread : reader'[d] = "ended"
    BY <2>1
  <2>. QED  BY <2>1, <2>3
<1>7. ASSUME NEW c \in Thread, V!Read(c)
      PROVE  Connections'
  BY <1>7 DEF V!Read
<1>8. ASSUME NEW c \in Thread, V!ReadsEnd(c)
      PROVE  Connections'
  <2>1. /\ reader' \in [Thread -> {"away", "opening", "reading", "at end", "ended"}]
        /\ reader'[c] = "at end" /\ \A d \in Thread \ {c} : reader'[d] = reader[d]
        /\ reader[c] = "reading" /\ UNCHANGED <<fdw, proverb>>
        /\ fdw \notin {"open", "written"}
    BY <1>8 DEF V!ReadsEnd, V!Writing
  <2>2. proverb # 0 \/ fdw = "stopped"
    BY <2>1
  <2>3. fdw = "died" => \E d \in Thread : reader'[d] = "ended"
    BY <2>1
  <2>. QED  BY <2>1, <2>2, <2>3
<1>9. ASSUME NEW c \in Thread, V!Leave(c)
      PROVE  Connections'
  BY <1>9 DEF V!Leave
<1>. QED
  BY <1>1, <1>2, <1>3, <1>4, <1>5, <1>6, <1>7, <1>8, <1>9
     DEF V!Next, V!ServerStep, V!ReaderStep

LEMMA LineComesNext ==
  ASSUME Lines, Connections, LineComes, V!Next  PROVE LineComes'
<1>. USE DEF Connections, LineComes, Came, Inside, Alone
<1>1. CASE V!OpenForWriting
  BY <1>1 DEF V!OpenForWriting, V!HasOpen
<1>2. CASE V!Write
  <2>1. fifo' # <<>>
    BY <1>2, AppendAscends DEF V!Write, Lines
  <2>. QED  BY <1>2, <2>1 DEF V!Write
<1>3. CASE V!WriteFails
  BY <1>3 DEF V!WriteFails, V!HasOpen
<1>4. CASE V!CloseWritten
  BY <1>4 DEF V!CloseWritten, V!HasOpen
<1>5. CASE V!Stop
  BY <1>5 DEF V!Stop
<1>6. ASSUME NEW c \in Thread, V!OpenForReading(c)
      PROVE  LineComes'
  BY <1>6 DEF V!OpenForReading, V!Writing
<1>7. ASSUME NEW c \in Thread, V!Read(c)
      PROVE  LineComes'
  <2>1. heard[c] \in Seq(Int) /\ fifo \in Seq(Int) /\ fifo # <<>>
    BY <1>7 DEF V!Read, Lines
  <2>2. heard[c] \o fifo # <<>>
    BY <2>1, ConcatNotEmpty
  <2>3. heard'[c] # <<>>
    BY <1>7, <2>2 DEF V!Read, Lines
  <2>4. reader' = reader /\ reader[c] = "reading"
    BY <1>7 DEF V!Read
  <2>5. ASSUME NEW d \in Thread, Alone(d)'
        PROVE  heard'[d] # <<>>
    <3>1. CASE d # c
      BY <2>4, <2>5, <3>1
    <3>. QED  BY <2>3, <3>1
  <2>. QED  BY <2>5
<1>8. ASSUME NEW c \in Thread, V!ReadsEnd(c)
      PROVE  LineComes'
  BY <1>8 DEF V!ReadsEnd, V!Writing
<1>9. ASSUME NEW c \in Thread, V!Leave(c)
      PROVE  LineComes'
  BY <1>9 DEF V!Leave, V!HasOpen
<1>. QED
  BY <1>1, <1>2, <1>3, <1>4, <1>5, <1>6, <1>7, <1>8, <1>9
     DEF V!Next, V!ServerStep, V!ReaderStep

LEMMA ProverbNext == ProverbInv /\ V!Next => ProverbInv'
  BY LinesNext, ConnectionsNext, LineComesNext DEF ProverbInv

LEMMA ProverbIsRight == ProverbInv => V!ProverbsAreSentOnce /\ V!DiesOfALateLeave
<1>. SUFFICES ASSUME ProverbInv  PROVE V!ProverbsAreSentOnce /\ V!DiesOfALateLeave
  OBVIOUS
<1>. USE DEF ProverbInv
<1>1. ASSUME NEW c \in Thread, NEW d \in Thread,
             NEW i \in 1 .. Len(heard[c]), NEW j \in 1 .. Len(heard[d]),
             heard[c][i] = heard[d][j]
      PROVE  c = d /\ i = j
  <2>1. c = d
    <3>1. c # d => Apart(heard[c], heard[d])
      BY DEF Lines
    <3>. QED  BY <1>1, <3>1 DEF Apart
  <2>2. Ascending(heard[c]) /\ heard[c] \in Seq(Int)
    BY DEF Lines
  <2>3. heard[c][i] \in Int /\ j \in 1 .. Len(heard[c]) /\ heard[c][i] = heard[c][j]
    BY <1>1, <2>1, <2>2
  <2>4. ~(i < j) /\ ~(j < i)
    BY <2>2, <2>3 DEF Ascending
  <2>5. i \in Int /\ j \in Int
    OBVIOUS
  <2>. QED  BY <2>1, <2>4, <2>5
<1>2. ASSUME NEW c \in Thread, NEW i \in 1 .. Len(heard[c]) - 1
      PROVE  heard[c][i] < heard[c][i + 1]
  <2>1. Ascending(heard[c]) /\ Len(heard[c]) \in Nat
    BY DEF Lines
  <2>2. i \in 1 .. Len(heard[c]) /\ i + 1 \in 1 .. Len(heard[c]) /\ i < i + 1
    BY <2>1
  <2>. QED  BY <2>1, <2>2 DEF Ascending
<1>3. ASSUME NEW c \in Thread, reader[c] \in {"at end", "ended"}, heard[c] = <<>>
      PROVE  fdw = "stopped" \/ \E d \in Thread \ {c} : reader[d] # "away"
  BY <1>3 DEF LineComes, Inside, Alone, Came
<1>4. V!DiesOfALateLeave
  <2>1. proverb # 0 => proverb > 0
    BY DEF Lines
  <2>. QED  BY <2>1 DEF V!DiesOfALateLeave, Connections
<1>. QED  BY <1>1, <1>2, <1>3, <1>4 DEF V!ProverbsAreSentOnce

-----------------------------------------------------------------------------
(* All programs together. *)

IInv ==
  /\ program = "cond" => CondInv
  /\ program = "event" => EventInv
  /\ program \notin {"cond", "event"} => SyncInv
  /\ program # "uid" => SpinInv
  /\ program = "uid" => UidInv
  /\ PredInv /\ ProverbInv

LEMMA InitIInv == Init => IInv /\ Queue!Init
<1>. SUFFICES ASSUME Init  PROVE IInv /\ Queue!Init
  OBVIOUS
<1>1. SpinInv /\ UidInv /\ PredInv /\ ProverbInv
  BY SpinInit, UidInit, PredInit, ProverbInit DEF Init
<1>2. CASE program = "cond" /\ C!Init
  BY <1>1, <1>2, CondInit DEF IInv
<1>3. CASE program = "event" /\ E!Init
  BY <1>1, <1>3, EventInit DEF IInv
<1>4. CASE program \notin {"cond", "event"} /\ S!Init
  BY <1>1, <1>4, SyncInit DEF IInv
<1>. QED  BY <1>2, <1>3, <1>4 DEF Init, QueuesInit

LEMMA QueuesAlone ==
  ASSUME UNCHANGED <<queueVars, queueFlags>>
  PROVE  /\ CondInv' = CondInv /\ EventInv' = EventInv /\ SyncInv' = SyncInv
         /\ UNCHANGED Queue!vars
<1>1. /\ UNCHANGED <<work, made, pro, con, data, finished>>
      /\ UNCHANGED <<work_complete, ready_ev, completed_ev, unfinished, done>>
  BY DEF queueVars, queueFlags
<1>2. Taken' = Taken /\ Working' = Working /\ Busy' = Busy
  BY <1>1 DEF Taken, Working, Busy
<1>3. JobsInOrder(One)' = JobsInOrder(One) /\ JobsInOrder(Thread)' = JobsInOrder(Thread)
  BY <1>1, <1>2 DEF JobsInOrder
<1>4. CondInv' = CondInv
  BY <1>1, <1>3 DEF CondInv
<1>5. EventInv' = EventInv
  BY <1>1, <1>3 DEF EventInv
<1>6. SyncInv' = SyncInv
  BY <1>1, <1>2, <1>3 DEF SyncInv
<1>. QED  BY <1>1, <1>4, <1>5, <1>6 DEF Queue!vars

LEMMA ThreadsAlone ==
  /\ UNCHANGED <<threadVars, spinVars>> => SpinInv' = SpinInv
  /\ UNCHANGED <<threadVars, uidVars>> => UidInv' = UidInv
<1>1. ASSUME UNCHANGED <<threadVars, spinVars>>
      PROVE  SpinInv' = SpinInv
  BY <1>1 DEF threadVars, spinVars, SpinInv, Arrived, Holds
<1>2. ASSUME UNCHANGED <<threadVars, uidVars>>
      PROVE  UidInv' = UidInv
  BY <1>2 DEF threadVars, uidVars, UidInv, Arrived, Draws
<1>. QED  BY <1>1, <1>2

LEMMA OthersAlone ==
  /\ UNCHANGED predVars => PredInv' = PredInv
  /\ UNCHANGED proverbVars => ProverbInv' = ProverbInv
<1>1. ASSUME UNCHANGED predVars
      PROVE  PredInv' = PredInv
  BY <1>1 DEF predVars, PredInv, P!TypeOK
<1>2. ASSUME UNCHANGED proverbVars
      PROVE  ProverbInv' = ProverbInv
  BY <1>2 DEF proverbVars, ProverbInv, Lines, Connections, LineComes, Came, Inside, Alone
<1>. QED  BY <1>1, <1>2

LEMMA NextIInv == IInv /\ [Next]_vars => IInv' /\ [Queue!Next]_Queue!vars
<1>. SUFFICES ASSUME IInv, [Next]_vars
              PROVE  IInv' /\ [Queue!Next]_Queue!vars
  OBVIOUS
<1>. USE DEF IInv
<1>1. CASE CondSteps(C!Next)
  BY <1>1, CondNext, ThreadsAlone, OthersAlone DEF CondSteps
<1>2. CASE EventSteps(E!Next)
  BY <1>2, EventNext, ThreadsAlone, OthersAlone DEF EventSteps
<1>3. CASE SyncSteps(S!Next)
  BY <1>3, SyncNext, ThreadsAlone, OthersAlone DEF SyncSteps
<1>4. CASE PredSteps(P!Next)
  BY <1>4, PredNext, QueuesAlone, ThreadsAlone, OthersAlone DEF PredSteps
<1>5. CASE SpinSteps(L!Next)
  BY <1>5, SpinNext, QueuesAlone, OthersAlone DEF SpinSteps
<1>6. CASE UidSteps(U!Next)
  BY <1>6, UidNext, QueuesAlone, OthersAlone DEF UidSteps
<1>7. CASE ProverbSteps(V!Next)
  BY <1>7, ProverbNext, QueuesAlone, ThreadsAlone, OthersAlone DEF ProverbSteps
<1>8. CASE UNCHANGED vars
  BY <1>8, QueuesAlone, ThreadsAlone, OthersAlone DEF vars
<1>. QED  BY <1>1, <1>2, <1>3, <1>4, <1>5, <1>6, <1>7, <1>8 DEF Next

LEMMA Invariant == FairSpec => []IInv
<1>. QED  BY InitIInv, NextIInv, PTL DEF FairSpec

\* The variables of whichever program runs keep their types.
THEOREM SyncTypes == FairSpec => []SyncTypeOK
<1>1. IInv => SyncTypeOK
  <2>. SUFFICES ASSUME IInv  PROVE SyncTypeOK
    OBVIOUS
  <2>. USE DEF IInv
  <2>1. program = "cond" => C!TypeOK
    BY OrderTypes DEF CondInv, C!TypeOK, NoJob
  <2>2. program = "event" => E!TypeOK
    BY OrderTypes DEF EventInv, E!TypeOK, NoJob, C!NoJob, E!NoJob
  <2>3. program = "syncqueue" => S!TypeOK
    <3>1. SyncInv => unfinished \in Nat
      BY BusyIsFinite DEF SyncInv, JobsInOrder
    <3>. QED  BY <3>1, OrderTypes DEF SyncInv, S!TypeOK, NoJob, C!NoJob, S!NoJob
  <2>. QED  BY <2>1, <2>2, <2>3, SpinIsRight, UidIsRight DEF SyncTypeOK, PredInv
<1>. QED  BY <1>1, Invariant, PTL

\* starv.c writes no time outside its array, uid.c gives out as many numbers as
\* it should where the increment is interlocked, and proverb_server.py sends no
\* proverb twice.
THEOREM CountsStayRight == FairSpec => []CountsAreRight
<1>1. IInv => CountsAreRight
  <2>. SUFFICES ASSUME IInv  PROVE CountsAreRight
    OBVIOUS
  <2>. USE DEF IInv
  <2>1. CASE program = "uid"
    <3>1. L!RoundTimeInBounds
      BY <2>1 DEF UidInv, L!RoundTimeInBounds
    <3>. QED  BY <2>1, <3>1, UidIsRight, ProverbIsRight DEF CountsAreRight
  <2>2. CASE program # "uid"
    BY <2>2, SpinIsRight, ProverbIsRight DEF CountsAreRight
  <2>. QED  BY <2>1, <2>2
<1>. QED  BY <1>1, Invariant, PTL

\* cond.py, event.cc and syncqueue.py hand out each job once, in order, and
\* nobody leaves before all of them are finished.
THEOREM QueuesImplementWorkQueue == FairSpec => ImplementsWorkQueue
  BY InitIInv, NextIInv, Invariant, PTL DEF FairSpec, ImplementsWorkQueue, Queue!Spec
=============================================================================
