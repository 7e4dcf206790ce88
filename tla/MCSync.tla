------------------------------- MODULE MCSync -------------------------------
(* The programs about synchronisation, and the proverb server, for TLC: a  *)
(* behaviour is one of them.                                               *)
EXTENDS Integers, Sequences, FiniteSets

CONSTANTS Thread, Jobs, MaxCounter, IdsPerThread, Values, Wanted, MaxProverbs
ASSUME SyncAssumption ==
  /\ IsFiniteSet(Thread) /\ Thread # {}
  /\ Jobs \in Nat /\ MaxCounter \in Nat \ {0} /\ IdsPerThread \in Nat
  /\ Values \in Nat /\ Wanted \in Nat /\ MaxProverbs \in Nat

VARIABLES
  program,
  work, made, pro, con, data, finished,                   \* the three queues
  work_complete,                                          \* CondQueue
  ready_ev, completed_ev,                                 \* EventQueue
  unfinished, done,                                       \* SyncQueue
  some_number, setting, setter, waiter, late,             \* PredicateWait
  thread, g_poor_mans_lock,                               \* SpinLock, UniqueId
  g_spinlock, g_counter, g_finish,                        \* SpinLock
  get_unique_id, next_uid, drawn, read,                   \* UniqueId
  fdw, proverb, fifo, reader, heard                       \* ProverbServer

queueVars == <<work, made, pro, con, data, finished>>
queueFlags == <<work_complete, ready_ev, completed_ev, unfinished, done>>
predVars == <<some_number, setting, setter, waiter, late>>
threadVars == <<thread, g_poor_mans_lock>>
spinVars == <<g_spinlock, g_counter, g_finish>>
uidVars == <<get_unique_id, next_uid, drawn, read>>
proverbVars == <<fdw, proverb, fifo, reader, heard>>
vars == <<program, queueVars, queueFlags, predVars, threadVars, spinVars, uidVars, proverbVars>>

One == {CHOOSE t \in Thread : TRUE}
C == INSTANCE CondQueue WITH Consumer <- One
E == INSTANCE EventQueue WITH Consumer <- One
S == INSTANCE SyncQueue WITH Consumer <- Thread
P == INSTANCE PredicateWait
L == INSTANCE SpinLock
U == INSTANCE UniqueId
V == INSTANCE ProverbServer WITH Reader <- Thread

QueuesInit ==
  /\ work_complete = FALSE /\ ready_ev = FALSE /\ completed_ev = FALSE
  /\ unfinished = 0 /\ done = FALSE
  /\ \/ program = "cond" /\ C!Init
     \/ program = "event" /\ E!Init
     \/ program \notin {"cond", "event"} /\ S!Init

Init ==
  /\ program \in {"cond", "event", "syncqueue", "condpred", "starv", "uid", "proverbs"}
  /\ QueuesInit /\ P!Init /\ L!Init /\ U!Init /\ V!Init
  /\ get_unique_id = "Bad" \/ program = "uid"

CondSteps(A) ==
  /\ program = "cond" /\ A
  /\ UNCHANGED <<program, ready_ev, completed_ev, unfinished, done,
                 predVars, threadVars, spinVars, uidVars, proverbVars>>
EventSteps(A) ==
  /\ program = "event" /\ A
  /\ UNCHANGED <<program, work_complete, unfinished, done,
                 predVars, threadVars, spinVars, uidVars, proverbVars>>
SyncSteps(A) ==
  /\ program = "syncqueue" /\ A
  /\ UNCHANGED <<program, work_complete, ready_ev, completed_ev,
                 predVars, threadVars, spinVars, uidVars, proverbVars>>
PredSteps(A) ==
  /\ program = "condpred" /\ A
  /\ UNCHANGED <<program, queueVars, queueFlags, threadVars, spinVars, uidVars, proverbVars>>
SpinSteps(A) ==
  /\ program = "starv" /\ A
  /\ UNCHANGED <<program, queueVars, queueFlags, predVars, uidVars, proverbVars>>
UidSteps(A) ==
  /\ program = "uid" /\ A
  /\ UNCHANGED <<program, queueVars, queueFlags, predVars, spinVars, proverbVars>>
ProverbSteps(A) ==
  /\ program = "proverbs" /\ A
  /\ UNCHANGED <<program, queueVars, queueFlags, predVars, threadVars, spinVars, uidVars>>

Next ==
  \/ CondSteps(C!Next) \/ EventSteps(E!Next) \/ SyncSteps(S!Next)
  \/ PredSteps(P!Next) \/ SpinSteps(L!Next) \/ UidSteps(U!Next)
  \/ ProverbSteps(V!Next)

\* The fairness of each program: every thread runs.  proverb_server.py sleeps
\* after each proverb, so that its clients have a turn again and again.
FairSpec ==
  /\ Init /\ [][Next]_vars
  /\ WF_vars(CondSteps(C!ProducerStep)) /\ \A c \in One : WF_vars(CondSteps(C!ConsumerStep(c)))
  /\ WF_vars(EventSteps(E!ProducerStep)) /\ \A c \in One : WF_vars(EventSteps(E!ConsumerStep(c)))
  /\ WF_vars(SyncSteps(S!ProducerStep))
  /\ \A c \in Thread : WF_vars(SyncSteps(S!ConsumerStep(c)))
  /\ WF_vars(PredSteps(P!ProducerStep)) /\ WF_vars(PredSteps(P!Check))
  /\ \A t \in Thread : WF_vars(SpinSteps(L!ThreadStep(t))) /\ WF_vars(UidSteps(U!ThreadStep(t)))
  /\ WF_vars(ProverbSteps(V!ServerStep))
  /\ \A t \in Thread : SF_vars(ProverbSteps(V!ReaderStep(t)))

-----------------------------------------------------------------------------
\* The variables of the program that runs have their types.
SyncTypeOK ==
  /\ program = "cond" => C!TypeOK
  /\ program = "event" => E!TypeOK
  /\ program = "syncqueue" => S!TypeOK
  /\ program = "starv" => L!TypeOK
  /\ program = "uid" => U!TypeOK
  /\ P!TypeOK

\* cond.py, event.cc and syncqueue.py hand out each job once and in order, and
\* nobody ends before all jobs are finished.
Queue == INSTANCE WorkQueue WITH
  queue <- work,
  working <- {data[c] : c \in DOMAIN data} \ {C!NoJob},
  ended <- \E c \in DOMAIN con : con[c] = "ended"
ImplementsWorkQueue == Queue!Spec

\* Every thread of every program ends, except that the consumer of condpred.cc
\* hangs, and main with it, if it was awake while the value was 8 and got no
\* turn until the value was 9.  The clients of the proverb server leave; see there.
ThreadsEnd ==
  /\ program \in {"cond", "event", "syncqueue"} ~>
       pro = "ended" /\ \A c \in DOMAIN con : con[c] = "ended"
  /\ program \in {"starv", "uid"} ~> \A t \in Thread : thread[t] = "ended"
  /\ program = "condpred" ~> waiter = "ended" \/ late
  /\ V!ReadersLeave

\* No counter of starv.c is written outside its array, no number of uid.c is
\* given out twice where it is locked, no proverb is; see there.
CountsAreRight ==
  /\ L!RoundTimeInBounds /\ (program = "uid" => U!NextIdShouldBe)
  /\ V!ProverbsAreSentOnce /\ V!DiesOfALateLeave
=============================================================================
