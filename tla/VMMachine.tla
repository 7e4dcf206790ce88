----------------------------- MODULE VMMachine -----------------------------
(***************************************************************************)
(* The whole virtual machine: the CPU thread, the console worker and the   *)
(* timer worker around one interrupt queue, from the construction of       *)
(* VMInstance through run() to os._exit.  The guest program is the initial *)
(* content of the RAM.                                                     *)
(***************************************************************************)
EXTENDS VMInstance, VMDeviceConsole, VMDeviceTimer

VARIABLES
  stdout,   \* what the guest has written to port 0x20
  vm_exit   \* how far run() has got with its exit

machineVars == <<cpuVars, conVars, pitVars, stdout, vm_exit>>

MachineInit(image) ==
  /\ CpuInit(image) /\ ConsoleInit /\ TimerInit
  /\ stdout = <<>> /\ vm_exit = "running"

OtherCpuVars == <<mem, fr, cr, defered_queue, terminated, interrupt_queue>>

\* A port with no device is ignored, and then VINB leaves its register alone.
VOUTB ==
  LET port == Arg(2)  byte == R[X] % 256
  IN  /\ Op({242})
      /\ \/ port \in ConsolePorts /\ ConsoleOut(port, byte) /\ UNCHANGED pitVars
         \/ port \in TimerPorts /\ TimerOut(port, byte) /\ UNCHANGED conVars
         \/ port \notin ConsolePorts \cup TimerPorts /\ UNCHANGED <<conVars, pitVars>>
      /\ stdout' = IF port = 32 THEN Append(stdout, byte) ELSE stdout
      /\ Advance /\ UNCHANGED OtherCpuVars

VINB ==
  LET port == Arg(2)
  IN  /\ Op({243})
      /\ \/ /\ port \in ConsolePorts /\ ConsoleIn(port) /\ UNCHANGED pitVars
            /\ Set(X, ConsoleValue(port) % 256)
         \/ /\ port \in TimerPorts /\ TimerIn(port) /\ UNCHANGED conVars
            /\ Set(X, TimerValue(port) % 256)
         \/ port \notin ConsolePorts \cup TimerPorts /\ UNCHANGED <<conVars, pitVars>> /\ Advance
      /\ UNCHANGED <<OtherCpuVars, stdout>>

\* The constructor finishes before run() starts.
Boot == ConsoleBoot /\ UNCHANGED <<cpuVars, pitVars, stdout, vm_exit>>

Cpu ==
  /\ con_boot = "done" /\ vm_exit = "running"
  /\ \/ CpuStep /\ UNCHANGED <<conVars, pitVars, stdout>>
     \/ VOUTB \/ VINB
  /\ UNCHANGED vm_exit

\* Threads act until os._exit kills them.
ConsoleThread ==
  /\ vm_exit # "exited"
  /\ \/ ConsoleWorker
     \/ vm_exit = "joining" /\ ConsoleStops /\ UNCHANGED interrupt_queue
  /\ UNCHANGED <<mem, r, fr, defered_queue, phase, terminated, cr, pitVars, stdout, vm_exit>>

TimerThread ==
  /\ vm_exit # "exited"
  /\ \/ TimerExpires /\ UNCHANGED interrupt_queue
     \/ RaisePit
     \/ vm_exit = "joining" /\ TimerExits /\ UNCHANGED interrupt_queue
  /\ UNCHANGED <<mem, r, fr, defered_queue, phase, terminated, cr, conVars, stdout, vm_exit>>

Clock == vm_exit = "running" /\ Tick /\ UNCHANGED <<cpuVars, conVars, stdout, vm_exit>>

\* run() after its loop: shut the devices down, join the timer, os._exit.
\* terminate() of the console does not wait for its worker.
BeginExit == terminated /\ vm_exit = "running" /\ vm_exit' = "joining"
Exit == vm_exit = "joining" /\ pit_worker = "exited" /\ vm_exit' = "exited"
Leave == (BeginExit \/ Exit) /\ UNCHANGED <<cpuVars, conVars, pitVars, stdout>>

MachineNext == Boot \/ Cpu \/ ConsoleThread \/ TimerThread \/ Clock \/ Leave

\* Every thread that can run does, and time goes on.  Nobody owes the machine
\* another character, or the end of stdin.
MachineFairness ==
  /\ WF_machineVars(Boot) /\ WF_machineVars(Cpu) /\ WF_machineVars(Leave)
  /\ WF_machineVars(ConsoleThread /\ con_worker # "read")
  /\ WF_machineVars(TimerThread) /\ WF_machineVars(Clock)

\* The machine with any program at all in its RAM.
MachineSpec ==
  /\ \E image \in Seq(Byte) : MachineInit(image)
  /\ [][MachineNext]_machineVars

MachineTypeOK ==
  /\ CpuTypeOK /\ ConsoleTypeOK /\ TimerTypeOK
  /\ stdout \in Seq(Byte) /\ vm_exit \in {"running", "joining", "exited"}
=============================================================================
