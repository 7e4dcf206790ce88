--------------------------- MODULE VMDeviceTimer ---------------------------
(***************************************************************************)
(* The programmable interval timer of the virtual machine                  *)
(* (vm_dev_timer.py): a worker thread that polls the clock, and the port   *)
(* interface of the CPU thread.  The worker's mutex covers active and      *)
(* alarm_time; the interrupt is raised after it is released.  The clock    *)
(* and alarm_time are seen only through their difference, in milliseconds. *)
(***************************************************************************)
EXTENDS VMInterrupts

CONSTANT MaxLate   \* the clock stops this long after an alarm time
ASSUME MaxLateAssumption == MaxLate \in Nat

VARIABLES
  since_alarm,    \* time.time() - alarm_time
  alarm,          \* worker.alarm, a shift register of two bytes
  active,
  pit_worker,     \* where the worker thread is
  pit_control,    \* control_register
  pit_latched,    \* has_counter_data
  pit_high        \* remaining_counter_value

WordMod == 65536

pitGuestVars == <<alarm, pit_control, pit_latched, pit_high>>
pitVars == <<since_alarm, alarm, active, pit_worker, pit_control,
             pit_latched, pit_high>>

TimerInit ==
  /\ since_alarm \in 0 .. MaxLate /\ alarm = 0 /\ active = FALSE
  /\ pit_worker = "poll" /\ pit_control = 0
  /\ pit_latched = FALSE /\ pit_high = 0

Tick ==
  /\ since_alarm < MaxLate
  /\ since_alarm' = since_alarm + 1
  /\ UNCHANGED <<active, pit_worker, pitGuestVars>>

-----------------------------------------------------------------------------
\* Mutants: the time is not looked at; it has to be exact; the timer stays
\* active.
TimerExpiresEarly ==
  /\ pit_worker = "poll" /\ active
  /\ active' = FALSE /\ pit_worker' = "raise"
  /\ UNCHANGED <<since_alarm, pitGuestVars>>
TimerExpiresOnTheDot ==
  /\ pit_worker = "poll" /\ active /\ since_alarm = 0
  /\ active' = FALSE /\ pit_worker' = "raise"
  /\ UNCHANGED <<since_alarm, pitGuestVars>>
TimerExpiresAndStays ==
  /\ pit_worker = "poll" /\ active /\ since_alarm >= 0
  /\ pit_worker' = "raise"
  /\ UNCHANGED <<since_alarm, active, pitGuestVars>>

\* The worker thread.  A poll that finds nothing due changes nothing.
TimerExpires ==
  /\ pit_worker = "poll"
  /\ active /\ since_alarm >= 0
  /\ active' = FALSE
  /\ pit_worker' = "raise"
  /\ UNCHANGED <<since_alarm, pitGuestVars>>

\* Mutant: the interrupt is forgotten.
RaisePitNothing ==
  /\ pit_worker = "raise"
  /\ pit_worker' = "poll"
  /\ UNCHANGED <<since_alarm, active, pitGuestVars, interrupt_queue>>

RaisePit ==
  /\ pit_worker = "raise"
  /\ Interrupt(INT_PIT)
  /\ pit_worker' = "poll"
  /\ UNCHANGED <<since_alarm, active, pitGuestVars>>

\* shutdown has been set: the loop ends.
TimerExits ==
  /\ pit_worker = "poll"
  /\ pit_worker' = "exited"
  /\ UNCHANGED <<since_alarm, active, pitGuestVars>>

-----------------------------------------------------------------------------
\* The port interface, called by VOUTB and VINB.
TimerPorts == {112, 113}

TimerOut(port, byte) ==
  \/ /\ port = 113
     /\ alarm' = (alarm * 256 + byte) % WordMod
     /\ UNCHANGED <<since_alarm, active, pit_worker, pit_control,
                    pit_latched, pit_high>>
  \/ /\ port = 112 /\ byte % 2 = 1
     /\ pit_control' = 1
     /\ since_alarm' = -alarm
     /\ active' = TRUE
     /\ UNCHANGED <<alarm, pit_worker, pit_latched, pit_high>>
  \/ /\ port = 112 /\ byte % 2 = 0
     /\ pit_control' = 0
     /\ active' = FALSE
     /\ UNCHANGED <<since_alarm, alarm, pit_worker, pit_latched, pit_high>>

\* get_counter: the milliseconds since the alarm, negative before it.
Counter == since_alarm

\* The first read of port 0x71 latches the high byte for the second one.
TimerIn(port) ==
  \/ port = 112 /\ UNCHANGED pitVars
  \/ /\ port = 113
     /\ pit_latched' = ~pit_latched
     /\ pit_high' = IF pit_latched THEN pit_high ELSE (Counter \div 256) % 256
     /\ UNCHANGED <<since_alarm, alarm, active, pit_worker, pit_control>>

TimerValue(port) ==
  CASE port = 112                -> pit_control
    [] port = 113 /\ pit_latched -> pit_high
    [] OTHER                     -> Counter % 256

-----------------------------------------------------------------------------
TimerTypeOK ==
  /\ since_alarm \in Int /\ since_alarm <= MaxLate /\ alarm \in 0 .. WordMod - 1
  /\ active \in BOOLEAN /\ pit_latched \in BOOLEAN
  /\ pit_worker \in {"poll", "raise", "exited"}
  /\ pit_control \in {0, 1} /\ pit_high \in Byte
============================================================================
