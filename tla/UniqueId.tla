------------------------------ MODULE UniqueId ------------------------------
(***************************************************************************)
(* uid.c: threads that draw numbers from a counter, with an interlocked    *)
(* increment or with ++ on a volatile variable, which reads and writes.    *)
(* A behaviour is one call of RunTest.                                     *)
(***************************************************************************)
EXTENDS Integers, FiniteSets

CONSTANTS Thread, IdsPerThread

VARIABLES
  thread,             \* "start"; "barrier"; "get"; "write": ++ has read; "ended"
  g_poor_mans_lock,   \* how many have arrived
  get_unique_id,      \* the function: "Interlocked" or "Bad"
  next_uid,           \* its counter
  drawn,              \* i of each thread
  read                \* what ++ has read

vars == <<thread, g_poor_mans_lock, get_unique_id, next_uid, drawn, read>>

Init ==
  /\ thread = [t \in Thread |-> "start"] /\ g_poor_mans_lock = 0
  /\ get_unique_id \in {"Interlocked", "Bad"} /\ next_uid = 0
  /\ drawn = [t \in Thread |-> 0] /\ read = [t \in Thread |-> 0]

\* BruteTest, the start.
Arrive(t) ==
  /\ thread[t] = "start" /\ thread' = [thread EXCEPT ![t] = "barrier"]
  /\ g_poor_mans_lock' = g_poor_mans_lock + 1
  /\ UNCHANGED <<get_unique_id, next_uid, drawn, read>>

LeaveBarrier(t) ==
  /\ thread[t] = "barrier" /\ g_poor_mans_lock = Cardinality(Thread)
  /\ thread' = [thread EXCEPT ![t] = "get"]
  /\ UNCHANGED <<g_poor_mans_lock, get_unique_id, next_uid, drawn, read>>

\* Mutant: the increment is two instructions, of which BadWrite is the second.
GetInTwoSteps(t) ==
  /\ thread[t] = "get" /\ drawn[t] < IdsPerThread /\ get_unique_id = "Interlocked"
  /\ read' = [read EXCEPT ![t] = next_uid] /\ thread' = [thread EXCEPT ![t] = "write"]
  /\ UNCHANGED <<g_poor_mans_lock, get_unique_id, next_uid, drawn>>

InterlockedGetUniqueID(t) ==
  /\ thread[t] = "get" /\ drawn[t] < IdsPerThread /\ get_unique_id = "Interlocked"
  /\ next_uid' = next_uid + 1 /\ drawn' = [drawn EXCEPT ![t] = @ + 1]
  /\ UNCHANGED <<thread, g_poor_mans_lock, get_unique_id, read>>

\* BadGetUniqueID.
BadRead(t) ==
  /\ thread[t] = "get" /\ drawn[t] < IdsPerThread /\ get_unique_id = "Bad"
  /\ read' = [read EXCEPT ![t] = next_uid] /\ thread' = [thread EXCEPT ![t] = "write"]
  /\ UNCHANGED <<g_poor_mans_lock, get_unique_id, next_uid, drawn>>

BadWrite(t) ==
  /\ thread[t] = "write"
  /\ next_uid' = read[t] + 1 /\ drawn' = [drawn EXCEPT ![t] = @ + 1]
  /\ thread' = [thread EXCEPT ![t] = "get"]
  /\ UNCHANGED <<g_poor_mans_lock, get_unique_id, read>>

Return(t) ==
  /\ thread[t] = "get" /\ drawn[t] = IdsPerThread
  /\ thread' = [thread EXCEPT ![t] = "ended"]
  /\ UNCHANGED <<g_poor_mans_lock, get_unique_id, next_uid, drawn, read>>

ThreadStep(t) ==
  \/ Arrive(t) \/ LeaveBarrier(t)
  \/ InterlockedGetUniqueID(t) \/ BadRead(t) \/ BadWrite(t) \/ Return(t)
Next == \E t \in Thread : ThreadStep(t)
Spec == Init /\ [][Next]_vars
FairSpec == Spec /\ \A t \in Thread : WF_vars(ThreadStep(t))

-----------------------------------------------------------------------------
TypeOK ==
  /\ thread \in [Thread -> {"start", "barrier", "get", "write", "ended"}]
  /\ g_poor_mans_lock \in 0 .. Cardinality(Thread)
  /\ get_unique_id \in {"Interlocked", "Bad"}
  /\ next_uid \in 0 .. Cardinality(Thread) * IdsPerThread
  /\ drawn \in [Thread -> 0 .. IdsPerThread] /\ read \in [Thread -> Nat]

\* The number printed at the end is the one that "should be", with the
\* interlocked increment; with ++, threads may undo each other's work, but even
\* so two of the draws are never lost.
NextIdShouldBe ==
  (\A t \in Thread : thread[t] = "ended") =>
    IF get_unique_id = "Interlocked" THEN next_uid = Cardinality(Thread) * IdsPerThread
    ELSE next_uid >= IF IdsPerThread < 2 THEN IdsPerThread ELSE 2
=============================================================================
