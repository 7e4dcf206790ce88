-------------------------- MODULE VMDeviceConsole --------------------------
(***************************************************************************)
(* The console of the virtual machine (vm_dev_con.py): a worker thread     *)
(* that blocks on stdin and appends what it reads to a queue, and a port   *)
(* interface that the CPU thread calls.  The two share the queue and the   *)
(* control register, each behind its own mutex, and meet a third time in   *)
(* the interrupt queue.  Each critical section is one step.                *)
(***************************************************************************)
EXTENDS VMInterrupts

CONSTANT Typed    \* everything the user will ever type, in order
ASSUME TypedAssumption == Typed \in Seq(Byte)

VARIABLES
  stdin,          \* what is still to be read
  con_boot,       \* the attribute that __init__ will create next, or "done"
  con_worker,     \* where the worker thread is
  con_queue,      \* worker.queue
  con_control,    \* control_register
  con_held,       \* control_register_mutex is locked for good
  con_read        \* history: the characters the guest has read

conWorkerVars == <<stdin, con_worker, con_held>>
conVars == <<stdin, con_boot, con_worker, con_queue, con_control, con_held, con_read>>

Armed == con_control % 2 = 1

ConsoleInit ==
  /\ stdin = Typed
  /\ con_boot = "mutex" /\ con_worker = "read"
  /\ con_queue = <<>> /\ con_control = 0 /\ con_held = FALSE
  /\ con_read = <<>>

\* __init__ has started the worker and goes on to create the mutex, then the
\* control register.
ConsoleBoot ==
  /\ \/ con_boot = "mutex" /\ con_boot' = "register"
     \/ con_boot = "register" /\ con_boot' = "done"
  /\ UNCHANGED <<conWorkerVars, con_queue, con_control, con_read>>

-----------------------------------------------------------------------------
\* The worker thread.
\* Mutant: only a character that finds the queue empty is announced.
ReadCharacterQuietly ==
  /\ con_worker = "read" /\ stdin # <<>>
  /\ con_queue' = Append(con_queue, Head(stdin))
  /\ stdin' = Tail(stdin)
  /\ con_worker' = IF con_queue = <<>> THEN "notify" ELSE "read"
  /\ UNCHANGED <<con_boot, con_control, con_held, con_read>>

ReadCharacter ==
  /\ con_worker = "read" /\ stdin # <<>>
  /\ con_queue' = Append(con_queue, Head(stdin))
  /\ stdin' = Tail(stdin)
  /\ con_worker' = "notify"
  /\ UNCHANGED <<con_boot, con_control, con_held, con_read>>

EndOfInput ==
  /\ con_worker = "read" /\ stdin = <<>>
  /\ con_worker' = "ended"
  /\ UNCHANGED <<stdin, con_boot, con_queue, con_control, con_held, con_read>>

\* Mutants of new_data_ready: it does not look at the bit; it does not clear
\* it; it returns with the mutex locked when the bit is not set.
NewDataReadyUnchecked ==
  /\ con_worker = "notify" /\ con_boot = "done" /\ ~con_held
  /\ con_worker' = "raise" /\ con_control' = con_control - 1
  /\ UNCHANGED <<stdin, con_boot, con_queue, con_held, con_read>>
NewDataReadyKeepsBit ==
  /\ con_worker = "notify" /\ con_boot = "done" /\ ~con_held
  /\ con_worker' = IF Armed THEN "raise" ELSE "read"
  /\ UNCHANGED <<stdin, con_boot, con_queue, con_control, con_held, con_read>>
NewDataReadyKeepsMutex ==
  /\ con_worker = "notify" /\ con_boot = "done" /\ ~con_held
  /\ IF Armed THEN con_worker' = "raise" /\ con_control' = con_control - 1
              ELSE con_worker' = "read" /\ UNCHANGED con_control
  /\ con_held' = ~Armed
  /\ UNCHANGED <<stdin, con_boot, con_queue, con_read>>

\* terminate() has set shutdown: the loop ends where it would read again.
\* (A thread that blocks in the read already goes on with ReadCharacter.)
ConsoleStops ==
  /\ con_worker = "read"
  /\ con_worker' = "ended"
  /\ UNCHANGED <<stdin, con_boot, con_queue, con_control, con_held, con_read>>

\* new_data_ready takes the armed bit and releases the mutex before it raises.
NewDataReady ==
  /\ con_worker = "notify" /\ con_boot = "done" /\ ~con_held
  /\ IF Armed THEN con_worker' = "raise" /\ con_control' = con_control - 1
              ELSE con_worker' = "read" /\ UNCHANGED con_control
  /\ UNCHANGED <<stdin, con_boot, con_queue, con_held, con_read>>

\* The same before __init__ is over: an AttributeError ends the thread, and
\* keeps the mutex when that exists already.
NewDataTooEarly ==
  /\ con_worker = "notify" /\ con_boot # "done"
  /\ con_worker' = "dead"
  /\ con_held' = (con_boot = "register")
  /\ UNCHANGED <<stdin, con_boot, con_queue, con_control, con_read>>

\* Mutant: the interrupt is forgotten.
RaiseConsoleNothing ==
  /\ con_worker = "raise"
  /\ con_worker' = "read"
  /\ UNCHANGED <<stdin, con_boot, con_queue, con_control, con_held, con_read, interrupt_queue>>

RaiseConsole ==
  /\ con_worker = "raise"
  /\ Interrupt(INT_CONSOLE)
  /\ con_worker' = "read"
  /\ UNCHANGED <<stdin, con_boot, con_queue, con_control, con_held, con_read>>

\* The steps that do not touch the interrupt queue.
ConsoleQuiet == ReadCharacter \/ EndOfInput \/ NewDataReady \/ NewDataTooEarly

ConsoleWorker ==
  \/ ConsoleQuiet /\ UNCHANGED interrupt_queue
  \/ RaiseConsole

-----------------------------------------------------------------------------
\* The port interface, called by VOUTB and VINB.
ConsolePorts == {32, 33, 34}

\* handle_inbound.  Port 0x20 writes to stdout, port 0x21 is ignored.
ConsoleOut(port, byte) ==
  IF port = 34
  THEN /\ con_boot = "done" /\ ~con_held
       /\ con_control' = byte
       /\ UNCHANGED <<conWorkerVars, con_boot, con_queue, con_read>>
  ELSE UNCHANGED conVars

\* Mutants: the newest character comes first.
ConsoleInNewest(port) ==
  \/ /\ port = 32 /\ con_queue # <<>>
     /\ con_read' = Append(con_read, con_queue[Len(con_queue)])
     /\ con_queue' = SubSeq(con_queue, 1, Len(con_queue) - 1)
     /\ UNCHANGED <<conWorkerVars, con_boot, con_control>>
  \/ port = 33 /\ UNCHANGED conVars
  \/ port = 34 /\ con_boot = "done" /\ ~con_held /\ UNCHANGED conVars
ConsoleValueNewest(port) ==
  CASE port = 32 -> con_queue[Len(con_queue)]
    [] port = 33 -> IF con_queue = <<>> THEN 0 ELSE 1
    [] OTHER     -> con_control

\* handle_outbound.  Port 0x20 polls until there is a character.
ConsoleIn(port) ==
  \/ /\ port = 32 /\ con_queue # <<>>
     /\ con_read' = Append(con_read, Head(con_queue))
     /\ con_queue' = Tail(con_queue)
     /\ UNCHANGED <<conWorkerVars, con_boot, con_control>>
  \/ port = 33 /\ UNCHANGED conVars
  \/ port = 34 /\ con_boot = "done" /\ ~con_held /\ UNCHANGED conVars

ConsoleValue(port) ==
  CASE port = 32 -> Head(con_queue)
    [] port = 33 -> IF con_queue = <<>> THEN 0 ELSE 1
    [] OTHER     -> con_control

-----------------------------------------------------------------------------
ConsoleTypeOK ==
  /\ con_boot \in {"mutex", "register", "done"}
  /\ con_worker \in {"read", "notify", "raise", "ended", "dead"}
  /\ stdin \in Seq(Byte) /\ con_queue \in Seq(Byte) /\ con_read \in Seq(Byte)
  /\ con_control \in Byte
  /\ con_held \in BOOLEAN

\* Characters reach the guest once each and in the order they were typed,
\* whatever the worker and the guest do in between.
FifoDelivery == con_read \o con_queue \o stdin = Typed
=============================================================================
