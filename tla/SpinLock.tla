------------------------------ MODULE SpinLock ------------------------------
(***************************************************************************)
(* starv.c: threads that wait for each other at the start and then take a  *)
(* spinlock again and again, until one of them has had it MaxCounter       *)
(* times.  The times that are measured are left out, not where they go.    *)
(***************************************************************************)
EXTENDS Integers, FiniteSets

CONSTANTS Thread, MaxCounter

VARIABLES
  thread,             \* "start"; "barrier"; "test"; "lock"; "inside"; "unlock"; "ended"
  g_poor_mans_lock,   \* how many have arrived
  g_spinlock, g_counter, g_finish

vars == <<thread, g_poor_mans_lock, g_spinlock, g_counter, g_finish>>

Init ==
  /\ thread = [t \in Thread |-> "start"] /\ g_poor_mans_lock = 0
  /\ g_spinlock = 0 /\ g_counter = [t \in Thread |-> 0] /\ g_finish = FALSE

At(t, here, there) == thread[t] = here /\ thread' = [thread EXCEPT ![t] = there]

\* BruteTest, the start.
Arrive(t) ==
  /\ At(t, "start", "barrier")
  /\ g_poor_mans_lock' = g_poor_mans_lock + 1
  /\ UNCHANGED <<g_spinlock, g_counter, g_finish>>

LeaveBarrier(t) ==
  /\ At(t, "barrier", "test") /\ g_poor_mans_lock = Cardinality(Thread)
  /\ UNCHANGED <<g_poor_mans_lock, g_spinlock, g_counter, g_finish>>

\* The test of the loop.
TestFinish(t) ==
  /\ At(t, "test", IF g_finish THEN "ended" ELSE "lock")
  /\ UNCHANGED <<g_poor_mans_lock, g_spinlock, g_counter, g_finish>>

\* my_spinlock_lock: the exchange that finds a 0; those that find a 1 change nothing.
Lock(t) ==
  /\ At(t, "lock", "inside") /\ g_spinlock = 0
  /\ g_spinlock' = 1
  /\ UNCHANGED <<g_poor_mans_lock, g_counter, g_finish>>

\* Mutant: the counter is compared before it is raised.
CountLate(t) ==
  /\ At(t, "inside", "unlock")
  /\ g_counter' = [g_counter EXCEPT ![t] = @ + 1]
  /\ g_finish' = (g_finish \/ g_counter[t] = MaxCounter)
  /\ UNCHANGED <<g_poor_mans_lock, g_spinlock>>

\* The body: g_round_time[t][g_counter[t]] is written, then the counter goes up.
Count(t) ==
  /\ At(t, "inside", "unlock")
  /\ g_counter' = [g_counter EXCEPT ![t] = @ + 1]
  /\ g_finish' = (g_finish \/ g_counter[t] + 1 = MaxCounter)
  /\ UNCHANGED <<g_poor_mans_lock, g_spinlock>>

\* Mutant: who finishes keeps the lock.
UnlockUnlessFinished(t) ==
  /\ At(t, "unlock", "test")
  /\ g_spinlock' = IF g_finish THEN g_spinlock ELSE 0
  /\ UNCHANGED <<g_poor_mans_lock, g_counter, g_finish>>

Unlock(t) ==
  /\ At(t, "unlock", "test")
  /\ g_spinlock' = 0
  /\ UNCHANGED <<g_poor_mans_lock, g_counter, g_finish>>

ThreadStep(t) ==
  Arrive(t) \/ LeaveBarrier(t) \/ TestFinish(t) \/ Lock(t) \/ Count(t) \/ Unlock(t)
Next == \E t \in Thread : ThreadStep(t)
Spec == Init /\ [][Next]_vars
\* Each thread runs.  That it gets the lock is not promised: others may be faster.
FairSpec == Spec /\ \A t \in Thread : WF_vars(ThreadStep(t))

-----------------------------------------------------------------------------
TypeOK ==
  /\ thread \in [Thread -> {"start", "barrier", "test", "lock", "inside", "unlock", "ended"}]
  /\ g_poor_mans_lock \in 0 .. Cardinality(Thread) /\ g_spinlock \in {0, 1}
  /\ g_counter \in [Thread -> 0 .. MaxCounter] /\ g_finish \in BOOLEAN

\* No time is written past the end of a row of g_round_time: when a thread has
\* filled its row the others may come in once more each, and it does not.
RoundTimeInBounds == \A t \in Thread : thread[t] = "inside" => g_counter[t] < MaxCounter
=============================================================================
