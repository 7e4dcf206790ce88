----------------------------- MODULE WorkQueue -----------------------------
(***************************************************************************)
(* What cond.py, event.cc and syncqueue.py promise: the jobs are handed    *)
(* out in the order in which they were made, each to one consumer; all of  *)
(* them are finished before the first consumer ends.                       *)
(***************************************************************************)
EXTENDS Integers, Sequences

CONSTANT Jobs       \* how many jobs the producer makes: 0, 1, ...

VARIABLES
  made,             \* how many it has made
  queue,            \* those that nobody has taken
  working,          \* those that are being worked on
  finished,
  ended             \* a consumer has ended

vars == <<made, queue, working, finished, ended>>

Init == made = 0 /\ queue = <<>> /\ working = {} /\ finished = {} /\ ended = FALSE

Make ==
  /\ made < Jobs
  /\ made' = made + 1 /\ queue' = Append(queue, made)
  /\ UNCHANGED <<working, finished, ended>>

Take ==
  /\ queue # <<>>
  /\ queue' = Tail(queue) /\ working' = working \cup {Head(queue)}
  /\ UNCHANGED <<made, finished, ended>>

Finish ==
  /\ \E j \in working : working' = working \ {j} /\ finished' = finished \cup {j}
  /\ UNCHANGED <<made, queue, ended>>

End ==
  /\ finished = 0 .. Jobs - 1
  /\ ended' = TRUE
  /\ UNCHANGED <<made, queue, working, finished>>

Next == Make \/ Take \/ Finish \/ End
Spec == Init /\ [][Next]_vars
=============================================================================
