----------------------------- MODULE EventQueue -----------------------------
(***************************************************************************)
(* event.cc: the list of cond.py, with a mutex and two Windows events.     *)
(* The ready event resets itself when a thread is released by it; setting  *)
(* it twice is setting it once.  The completed event stays set.            *)
(***************************************************************************)
EXTENDS Integers, Sequences

CONSTANTS Consumer, Jobs

VARIABLES
  work,                               \* g_work
  ready_ev, completed_ev,             \* the events: whether they are signaled
  made,                               \* i of Producer
  pro,                                \* "next"; "signal": before SetEvent; "ended"
  con,                                \* "next": waits for an event; "drain"; "working"; "ended"
  data, finished                      \* as in CondQueue

vars == <<work, ready_ev, completed_ev, made, pro, con, data, finished>>
NoJob == -1

Init ==
  /\ work = <<>> /\ ready_ev = FALSE /\ completed_ev = FALSE /\ made = 0 /\ pro = "next"
  /\ con = [c \in Consumer |-> "next"] /\ data = [c \in Consumer |-> NoJob]
  /\ finished = {}

-----------------------------------------------------------------------------
\* Producer: the critical section, and the event after it.
Push ==
  /\ pro = "next" /\ made < Jobs
  /\ work' = Append(work, made) /\ made' = made + 1 /\ pro' = "signal"
  /\ UNCHANGED <<ready_ev, completed_ev, con, data, finished>>

SetReady ==
  /\ pro = "signal"
  /\ ready_ev' = TRUE /\ pro' = "next"
  /\ UNCHANGED <<work, completed_ev, made, con, data, finished>>

SetCompleted ==
  /\ pro = "next" /\ made = Jobs
  /\ completed_ev' = TRUE /\ pro' = "ended"
  /\ UNCHANGED <<work, ready_ev, made, con, data, finished>>

-----------------------------------------------------------------------------
\* Consumer, WaitForMultipleObjects: of two signaled events it takes the first.
WaitReady(c) ==
  /\ con[c] = "next" /\ ready_ev
  /\ ready_ev' = FALSE /\ con' = [con EXCEPT ![c] = "drain"]
  /\ UNCHANGED <<work, completed_ev, made, pro, data, finished>>

\* Mutant: the events are in the other order.
WaitCompletedFirst(c) ==
  /\ con[c] = "next" /\ completed_ev
  /\ con' = [con EXCEPT ![c] = "ended"]
  /\ UNCHANGED <<work, ready_ev, completed_ev, made, pro, data, finished>>

WaitCompleted(c) ==
  /\ con[c] = "next" /\ ~ready_ev /\ completed_ev
  /\ con' = [con EXCEPT ![c] = "ended"]
  /\ UNCHANGED <<work, ready_ev, completed_ev, made, pro, data, finished>>

\* The inner loop: a job at a time, until the list is empty.
PopWork(c) ==
  /\ con[c] = "drain" /\ work # <<>>
  /\ work' = Tail(work) /\ data' = [data EXCEPT ![c] = Head(work)]
  /\ con' = [con EXCEPT ![c] = "working"]
  /\ UNCHANGED <<ready_ev, completed_ev, made, pro, finished>>

Drained(c) ==
  /\ con[c] = "drain" /\ work = <<>>
  /\ con' = [con EXCEPT ![c] = "next"]
  /\ UNCHANGED <<work, ready_ev, completed_ev, made, pro, data, finished>>

\* Mutant: one job for each event.
WorkOnce(c) ==
  /\ con[c] = "working"
  /\ finished' = finished \cup {data[c]} /\ data' = [data EXCEPT ![c] = NoJob]
  /\ con' = [con EXCEPT ![c] = "next"]
  /\ UNCHANGED <<work, ready_ev, completed_ev, made, pro>>

Work(c) ==
  /\ con[c] = "working"
  /\ finished' = finished \cup {data[c]} /\ data' = [data EXCEPT ![c] = NoJob]
  /\ con' = [con EXCEPT ![c] = "drain"]
  /\ UNCHANGED <<work, ready_ev, completed_ev, made, pro>>

ProducerStep == Push \/ SetReady \/ SetCompleted
ConsumerStep(c) == WaitReady(c) \/ WaitCompleted(c) \/ PopWork(c) \/ Drained(c) \/ Work(c)

Next == ProducerStep \/ \E c \in Consumer : ConsumerStep(c)
Spec == Init /\ [][Next]_vars
FairSpec == Spec /\ WF_vars(ProducerStep) /\ \A c \in Consumer : WF_vars(ConsumerStep(c))

-----------------------------------------------------------------------------
TypeOK ==
  /\ work \in Seq(0 .. Jobs - 1) /\ ready_ev \in BOOLEAN /\ completed_ev \in BOOLEAN
  /\ made \in 0 .. Jobs /\ pro \in {"next", "signal", "ended"}
  /\ con \in [Consumer -> {"next", "drain", "working", "ended"}]
  /\ data \in [Consumer -> {NoJob} \cup 0 .. Jobs - 1]
  /\ finished \in SUBSET (0 .. Jobs - 1)
=============================================================================
