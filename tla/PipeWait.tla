------------------------------ MODULE PipeWait ------------------------------
(***************************************************************************)
(* main of pipe.c: the parent waits for the child and then shows a chunk   *)
(* of each pipe.                                                           *)
(***************************************************************************)
EXTENDS ChildPipes

\* parent: "spawn"; "wait"; "out"; "err"; "ended"
vars == <<childVars, parent>>
Init == SpawnInit

WaitPid ==
  /\ parent = "wait" /\ child = "exited"
  /\ child' = "reaped" /\ parent' = "out"
  /\ UNCHANGED <<total, written, shown, writers>>

Splice(f, next) ==
  /\ parent = f /\ parent' = next
  /\ Readable(f) /\ TakeFrom(f)
  /\ UNCHANGED <<total, written, writers, child>>

ParentStep == Spawned("wait") \/ WaitPid \/ Splice("out", "err") \/ Splice("err", "ended")
Next == ChildStep \/ ParentStep
Spec == Init /\ [][Next]_vars
FairSpec == Spec /\ WF_vars(ChildStep) /\ WF_vars(ParentStep)

\* The parent has shown the beginning of what the child has written.
ShowsOneChunk ==
  parent = "ended" =>
    \A f \in Fd : shown[f] = IF total[f] < Chunk THEN total[f] ELSE Chunk
=============================================================================
