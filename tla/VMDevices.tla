----------------------------- MODULE VMDevices -----------------------------
(***************************************************************************)
(* The two devices of the virtual machine under any guest at all: the CPU  *)
(* thread calls the ports in any order with any byte, and takes interrupts *)
(* whenever it likes.  What holds here holds for every program.            *)
(***************************************************************************)
EXTENDS VMDeviceConsole, VMDeviceTimer

CONSTANTS
  PortBytes,   \* the bytes the guest writes
  MaxArms,     \* bound on the activations of each device
  MaxAlarm     \* bound on the alarm the guest sets
ASSUME PortBytesAssumption == PortBytes \subseteq Byte
ASSUME BoundsAssumption == MaxArms \in Nat /\ MaxAlarm \in Nat

VARIABLES
  con_arms,    \* history: how often the guest has set the console's bit
  con_seen,    \* history: how many characters had come when it did so last
  con_raised,  \* history: how many interrupts the console worker has raised
  pit_arms,    \* history: how often the guest has activated the timer
  pit_raised   \* history: how many interrupts the timer worker has raised

conHist == <<con_arms, con_seen>>
histVars == <<conHist, con_raised, pit_arms, pit_raised>>
devVars == <<conVars, pitVars, interrupt_queue, cr, histVars>>

DevInit ==
  /\ IntInit /\ ConsoleInit /\ TimerInit
  /\ con_arms = 0 /\ con_seen = 0 /\ con_raised = 0
  /\ pit_arms = 0 /\ pit_raised = 0

Arrived == Len(Typed) - Len(stdin)

DevBoot == ConsoleBoot /\ UNCHANGED <<pitVars, interrupt_queue, cr, histVars>>

\* VOUTB to and VINB from any port; run() starts after the constructor.
GuestOut ==
  /\ con_boot = "done"
  /\ \E byte \in PortBytes :
       \/ \E port \in ConsolePorts :
            /\ con_arms + (byte % 2) <= MaxArms
            /\ ConsoleOut(port, byte)
            /\ IF port = 34 /\ byte % 2 = 1
               THEN con_arms' = con_arms + 1 /\ con_seen' = Arrived
               ELSE UNCHANGED conHist
            /\ UNCHANGED <<pitVars, pit_arms>>
       \/ \E port \in TimerPorts :
            /\ pit_arms + (byte % 2) <= MaxArms
            /\ port = 113 => (alarm * 256 + byte) % WordMod <= MaxAlarm
            /\ TimerOut(port, byte)
            /\ pit_arms' = IF port = 112 THEN pit_arms + (byte % 2) ELSE pit_arms
            /\ UNCHANGED <<conVars, conHist>>
  /\ UNCHANGED <<interrupt_queue, cr, con_raised, pit_raised>>

GuestIn ==
  /\ con_boot = "done"
  /\ \/ \E port \in ConsolePorts : ConsoleIn(port) /\ UNCHANGED pitVars
     \/ \E port \in TimerPorts : TimerIn(port) /\ UNCHANGED conVars
  /\ UNCHANGED <<interrupt_queue, cr, histVars>>

\* The CPU takes an interrupt: the newest one, as when they are enabled.
GuestTakes ==
  /\ interrupt_queue # <<>>
  /\ interrupt_queue' = WithoutPosition(interrupt_queue, Len(interrupt_queue))
  /\ UNCHANGED <<conVars, pitVars, cr, histVars>>

DevConsole ==
  /\ \/ ConsoleQuiet /\ UNCHANGED <<interrupt_queue, con_raised>>
     \/ RaiseConsole /\ con_raised' = con_raised + 1
  /\ UNCHANGED <<pitVars, cr, conHist, pit_arms, pit_raised>>

DevTimer ==
  /\ \/ TimerExpires /\ UNCHANGED <<interrupt_queue, pit_raised>>
     \/ RaisePit /\ pit_raised' = pit_raised + 1
  /\ UNCHANGED <<conVars, cr, conHist, con_raised, pit_arms>>

DevTick == Tick /\ UNCHANGED <<conVars, interrupt_queue, cr, histVars>>

DevNext ==
  DevBoot \/ GuestOut \/ GuestIn \/ GuestTakes \/ DevConsole \/ DevTimer \/ DevTick

DevSpec == DevInit /\ [][DevNext]_devVars
DevFairSpec ==
  /\ DevSpec
  /\ WF_devVars(DevBoot) /\ WF_devVars(DevTick) /\ WF_devVars(DevTimer)
  /\ WF_devVars(DevConsole /\ con_worker # "read")

-----------------------------------------------------------------------------
DevTypeOK ==
  /\ ConsoleTypeOK /\ TimerTypeOK
  /\ interrupt_queue \in Seq(MASKABLE_INTS)
  /\ con_arms \in Nat /\ con_seen \in Nat /\ con_raised \in Nat
  /\ pit_arms \in Nat /\ pit_raised \in Nat

\* One write of 1 to port 0x22 pays for one console interrupt at most, although
\* the worker raises it after it has released the mutex and the guest may have
\* armed the register again by then.
ConsoleOneShot ==
  con_raised + (IF con_worker = "raise" THEN 1 ELSE 0) + (con_control % 2) <= con_arms

\* No wakeup is lost once the register is armed: while it stays armed, a
\* character that has come since is one the worker is about to notify.  (One
\* that came before the arming wakes nobody: the guest has to look first.)
NoLostWakeup == Armed /\ con_worker # "notify" => con_seen = Arrived

ActiveCount == IF active THEN 1 ELSE 0

\* One activation of the timer pays for one interrupt at most, although the
\* guest may have activated it again between the poll and the interrupt.
TimerOneShot ==
  pit_raised + (IF pit_worker = "raise" THEN 1 ELSE 0) + ActiveCount <= pit_arms

\* Neither device raises more interrupts than it was armed for.
OneShot == ConsoleOneShot /\ TimerOneShot

\* The console's mutex is lost only when the user typed before the
\* constructor had made the control register; then the worker is gone.
MutexLostOnlyAtBoot == con_held => con_worker = "dead" /\ Len(stdin) + 1 = Len(Typed)

\* An alarm that is neither cancelled nor set again fires.
AlarmFires == active ~> (pit_worker = "raise" \/ ~active)
=============================================================================
