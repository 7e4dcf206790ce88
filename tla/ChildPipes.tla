----------------------------- MODULE ChildPipes -----------------------------
(***************************************************************************)
(* spawn_process of pipe.c and pipe_select.c: a child whose stdout and     *)
(* stderr are pipes to its parent.  A pipe holds so much, and ends when it *)
(* is empty and nobody has its write end open.  What the child writes is   *)
(* the other program's affair; it does not read stdin.                     *)
(***************************************************************************)
EXTENDS Integers

CONSTANTS
  Capacity,    \* of a pipe
  Chunk,       \* what the parent moves at once: 1024
  MaxOutput    \* bound on what the child writes to a pipe

Fd == {"out", "err"}

VARIABLES
  total,      \* what the child is going to write
  written,    \* what it has written
  shown,      \* what the parent has taken out and shown
  writers,    \* who has the write end open
  child,      \* "running"; "exited"; "reaped"
  parent      \* where the parent is; "spawn" at first

childVars == <<total, written, shown, writers, child>>

\* spawn_process, after pipe and fork: both have all ends.
SpawnInit ==
  /\ total \in [Fd -> 0 .. MaxOutput]
  /\ written = [f \in Fd |-> 0] /\ shown = [f \in Fd |-> 0]
  /\ writers = [f \in Fd |-> {"parent", "child"}]
  /\ child = "running" /\ parent = "spawn"

\* Mutant: the parent keeps them.
SpawnedOpen(next) ==
  /\ parent = "spawn" /\ parent' = next
  /\ UNCHANGED childVars

\* ... and in the parent: the ends it does not use are closed.
Spawned(next) ==
  /\ parent = "spawn" /\ parent' = next
  /\ writers' = [f \in Fd |-> writers[f] \ {"parent"}]
  /\ UNCHANGED <<total, written, shown, child>>

\* The child writes, and blocks on a full pipe.
ChildWrites(f) ==
  /\ child = "running" /\ written[f] < total[f]
  /\ written[f] - shown[f] < Capacity
  /\ written' = [written EXCEPT ![f] = @ + 1]
  /\ UNCHANGED <<total, shown, writers, child>>

ChildExits ==
  /\ child = "running" /\ written = total
  /\ child' = "exited" /\ writers' = [f \in Fd |-> writers[f] \ {"child"}]
  /\ UNCHANGED <<total, written, shown>>

ChildStep == (ChildExits \/ \E f \in Fd : ChildWrites(f)) /\ UNCHANGED parent

\* A read of the pipe f does not block.
Readable(f) == written[f] > shown[f] \/ writers[f] = {}
AtEnd(f) == written[f] = shown[f] /\ writers[f] = {}

\* It takes what there is, up to a chunk; nothing at the end.
TakeFrom(f) ==
  shown' = [shown EXCEPT ![f] = IF written[f] - @ < Chunk THEN written[f] ELSE @ + Chunk]
=============================================================================
