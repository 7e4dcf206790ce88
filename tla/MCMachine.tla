----------------------------- MODULE MCMachine -----------------------------
(***************************************************************************)
(* The virtual machine under each guest program, for TLC.                  *)
(***************************************************************************)
EXTENDS VMMachine, GuestPrograms

VARIABLE guest   \* the program that was loaded

CONSTANTS AlarmMs, GuestNames

Guests ==
  [console |-> console_test, pit |-> pit_test(AlarmMs), upper |-> upper,
   both |-> both_test, storm |-> storm_test, all |-> all_instr(240),
   faults |-> fault_test, unhandled |-> unhandled_fault, overtaken |-> overtaken_fault,
   bottom |-> push_at_bottom, unknown |-> unknown_opcode]

AllGuests == DOMAIN Guests
MCTyped == <<97, 66>>

mcVars == <<machineVars, guest>>

Init == guest \in GuestNames /\ MachineInit(Guests[guest])
Next == MachineNext /\ UNCHANGED guest
Spec == Init /\ [][Next]_mcVars
FairSpec == Spec /\ MachineFairness

-----------------------------------------------------------------------------
Handling == {"console", "both", "storm"}
MainLoop == CASE guest = "console" -> console_infloop
              [] guest = "both"    -> both_infloop
              [] guest = "storm"   -> storm_loop
MainR1 == CASE guest = "console" -> 0
            [] guest = "both"    -> both_infloop + 3 + Len(both_int_8)
            [] guest = "storm"   -> storm_loop + 6 + Len(storm_int_1)

\* A handler leaves no trace in the program it interrupts: whenever the main
\* loop is about to run, the stack is balanced and the registers and the flags
\* are what the setup left, although the handlers use r0, r1 and the flags and
\* although they nest in "storm".
InterruptsAreTransparent ==
  (guest \in Handling /\ pc = MainLoop) =>
     /\ sp = RamSize /\ fr = 0 /\ r[0] = 1 /\ r[1] = MainR1
     /\ \A i \in 2 .. 13 : r[i] = 0

\* "vcrl 0x110; viret" turns interrupts on again without letting one in
\* before viret has removed the frame: the load is deferred past the next
\* interrupt check.  So there is never more than one frame on the stack.
HandlersNeverNest == guest \in {"console", "both"} => sp >= RamSize - 17 * DwordBytes

\* What the guest writes of the user's characters is what the user typed, in
\* order, whatever the interrupts do to the program that copies them.
Typable == {Typed[i] : i \in DOMAIN Typed}
Echoes(n) == Cardinality({m \in 1 .. n : stdout[m] \in Typable})
EchoFollowsInput ==
  guest \in Handling =>
    \A n \in DOMAIN stdout :
      stdout[n] \in Typable => Echoes(n) \in DOMAIN Typed /\ stdout[n] = Typed[Echoes(n)]

\* pit_test is woken by its alarm and turns the machine off, and does not print
\* before its alarm time has come.
AlarmWakesGuest ==
  /\ [](guest = "pit" /\ stdout # <<>> => since_alarm >= 0)
  /\ guest = "pit" ~> vm_exit = "exited"

\* A console interrupt that the device is about to raise makes console_test read
\* all there is, and one that is raised is taken in the end.
ConsoleIsServed ==
  /\ (guest = "console" /\ con_worker = "raise") ~> con_queue = <<>>
  /\ (guest = "console" /\ Count(INT_CONSOLE) > 0) ~> Count(INT_CONSOLE) = 0

\* The second part where the timer raises interrupts too.  The comment at vm.py:105
\* says that the first interrupt of the queue is returned.
NoInterruptStarves == (guest = "both" /\ Count(INT_CONSOLE) > 0) ~> Count(INT_CONSOLE) = 0

\* A fault without a handler ends the machine: each jump to the unset vector
\* is a fault too, until the context no longer fits on the stack.  The process
\* ends with it, the timer thread joined.
UnhandledFaultEndsMachine ==
  (guest \in {"unhandled", "overtaken", "unknown"} /\ Count(INT_MEMORY_ERROR) > 0)
    ~> vm_exit = "exited"

\* Every fault of the program "faults" is survived, also that of a VIRET which
\* fails half way: what it has restored by then (fr, pc and sp) stays, is saved
\* with the next context, and comes back when the handler returns.  (A console
\* mutex that was lost at the start stops the program at its VINB.)
FaultsAreSurvived ==
  LET returned == guest = "faults" /\ phase = "fetch" /\ interrupt_queue = <<>> /\ pc = fault_run_off
  IN  /\ [](returned => sp = RamSize /\ fr = fault_run_off /\ r[3] = DwordMax)
      /\ guest = "faults" => <>(returned \/ con_held)

\* A push outside the RAM raises a memory error: what the test of
\* vm_instr.py:151 asks for.
PushFaults ==
  [][VPUSH /\ ~InRam(sp - DwordBytes, DwordBytes)
       => interrupt_queue' = Append(interrupt_queue, INT_MEMORY_ERROR)]_mcVars
=============================================================================
