----------------------------- MODULE PipeSelect -----------------------------
(***************************************************************************)
(* main of pipe_select.c: the parent asks in a loop whether the child has  *)
(* ended and which pipes can be read.                                      *)
(***************************************************************************)
EXTENDS ChildPipes

VARIABLES
  child_exited,
  no_more,       \* no_more_out and no_more_err: the pipes at their end
  read_fds       \* what select has found

\* parent: "spawn"; "loop"; "select"; "out"; "err"; "ended"
vars == <<childVars, parent, child_exited, no_more, read_fds>>
Init == SpawnInit /\ child_exited = FALSE /\ no_more = {} /\ read_fds = {}

SpawnProcess == Spawned("loop") /\ UNCHANGED <<child_exited, no_more, read_fds>>

\* Mutant: the end of the child is enough.
LoopEndsEarly ==
  /\ parent = "loop" /\ child_exited
  /\ parent' = "ended"
  /\ UNCHANGED <<childVars, child_exited, no_more, read_fds>>

LoopEnds ==
  /\ parent = "loop" /\ child_exited /\ no_more = Fd
  /\ parent' = "ended"
  /\ UNCHANGED <<childVars, child_exited, no_more, read_fds>>

\* waitpid with WNOHANG.
WaitPid ==
  /\ parent = "loop" /\ ~(child_exited /\ no_more = Fd)
  /\ parent' = "select"
  /\ child_exited' = (child_exited \/ child = "exited")
  /\ child' = IF ~child_exited /\ child = "exited" THEN "reaped" ELSE child
  /\ UNCHANGED <<total, written, shown, writers, no_more, read_fds>>

\* select returns with what can be read, or after 25 ms with nothing.
Select ==
  /\ parent = "select"
  /\ read_fds' = {f \in Fd : Readable(f)}
  /\ parent' = IF read_fds' = {} THEN "loop" ELSE "out"
  /\ UNCHANGED <<childVars, child_exited, no_more>>

\* FD_ISSET and read, for one pipe and then the other.
ReadPipe(f, next) ==
  /\ parent = f /\ parent' = next
  /\ IF f \in read_fds THEN TakeFrom(f) ELSE shown' = shown
  /\ no_more' = IF f \in read_fds /\ AtEnd(f) THEN no_more \cup {f} ELSE no_more
  /\ UNCHANGED <<total, written, writers, child, child_exited, read_fds>>

ParentStep ==
  \/ SpawnProcess \/ LoopEnds \/ WaitPid \/ Select
  \/ ReadPipe("out", "err") \/ ReadPipe("err", "loop")
Next == (ChildStep /\ UNCHANGED <<child_exited, no_more, read_fds>>) \/ ParentStep
Spec == Init /\ [][Next]_vars
FairSpec ==
  Spec /\ WF_vars(ChildStep /\ UNCHANGED <<child_exited, no_more, read_fds>>) /\ WF_vars(ParentStep)

\* The parent has shown all that the child has written.
ShowsAll == parent = "ended" => shown = total
=============================================================================
