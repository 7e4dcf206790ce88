--------------------------- MODULE PredicateWait ---------------------------
(***************************************************************************)
(* condpred.cc: a consumer that waits with a predicate for the value 8,    *)
(* and a producer that sets 0 to 9, a value every 15 ms, and notifies      *)
(* after it has given the mutex back.                                      *)
(***************************************************************************)
EXTENDS Integers

CONSTANTS Values, Wanted      \* 10 and 8

VARIABLES
  some_number,   \* of WorkContainer
  setting,       \* i of Producer
  setter,        \* the producer: "set"; "notify"; "ended"
  waiter,        \* the consumer: "start"; "asleep"; "woken"; "ended"
  late           \* history: it was awake and had no turn while the value was there

vars == <<some_number, setting, setter, waiter, late>>

Init == some_number = 0 /\ setting = 0 /\ setter = "set" /\ waiter = "start" /\ late = FALSE

Awake == waiter \in {"start", "woken"}

\* Producer, with the mutex.
SetValue ==
  /\ setter = "set" /\ setting < Values
  /\ some_number' = setting /\ setter' = "notify"
  /\ late' = (late \/ (some_number = Wanted /\ setting # Wanted /\ Awake))
  /\ UNCHANGED <<setting, waiter>>

\* notify_one, without it.
NotifyOne ==
  /\ setter = "notify"
  /\ waiter' = IF waiter = "asleep" THEN "woken" ELSE waiter
  /\ setting' = setting + 1 /\ setter' = "set"
  /\ UNCHANGED <<some_number, late>>

ProducerEnds ==
  /\ setter = "set" /\ setting = Values
  /\ setter' = "ended"
  /\ UNCHANGED <<some_number, setting, waiter, late>>

\* Mutant: the predicate is looked at once, and then the thread just sleeps.
CheckOnce ==
  /\ Awake
  /\ waiter' = IF waiter = "start" /\ some_number = Wanted THEN "ended" ELSE "asleep"
  /\ UNCHANGED <<some_number, setting, setter, late>>

\* Consumer, with the mutex: wait looks at the predicate before each sleep.
Check ==
  /\ Awake
  /\ waiter' = IF some_number = Wanted THEN "ended" ELSE "asleep"
  /\ UNCHANGED <<some_number, setting, setter, late>>

\* A condition variable may wake a thread that nobody has notified.
WakeSpuriously ==
  /\ waiter = "asleep"
  /\ waiter' = "woken"
  /\ UNCHANGED <<some_number, setting, setter, late>>

ProducerStep == SetValue \/ NotifyOne \/ ProducerEnds
Next == ProducerStep \/ Check \/ WakeSpuriously
Spec == Init /\ [][Next]_vars
FairSpec == Spec /\ WF_vars(ProducerStep) /\ WF_vars(Check)

TypeOK ==
  /\ some_number \in 0 .. Values /\ setting \in 0 .. Values
  /\ setter \in {"set", "notify", "ended"}
  /\ waiter \in {"start", "asleep", "woken", "ended"} /\ late \in BOOLEAN
=============================================================================
