---------------------------- MODULE VMInterrupts ----------------------------
(***************************************************************************)
(* The interrupt queue and the control registers of the virtual machine    *)
(* (vm.py).  The queue is the one thing that the CPU thread and the two    *)
(* device threads share: interrupt() and _fetch_pending_interrupt() hold   *)
(* interrupt_queue_mutex for their whole body, so each is one step.        *)
(***************************************************************************)
EXTENDS VMMemory

VARIABLES
  interrupt_queue,  \* the raised interrupts, oldest first
  cr                \* the control registers: 16 vectors and the control word

INT_MEMORY_ERROR   == 0
INT_DIVISION_ERROR == 1
INT_GENERAL_ERROR  == 2
INT_PIT            == 8
INT_CONSOLE        == 9
MASKABLE_INTS      == {INT_PIT, INT_CONSOLE}
Faults             == {INT_MEMORY_ERROR, INT_DIVISION_ERROR, INT_GENERAL_ERROR}

CREG_INT_FIRST   == 256
CREG_INT_LAST    == 271
CREG_INT_CONTROL == 272
Cregs == CREG_INT_FIRST .. CREG_INT_LAST \cup {CREG_INT_CONTROL}

IntInit ==
  /\ interrupt_queue = <<>>
  /\ cr = [c \in Cregs |-> IF c = CREG_INT_CONTROL THEN 0 ELSE DwordMax]

Interrupt(i) == interrupt_queue' = Append(interrupt_queue, i)

MaskableEnabled == cr[CREG_INT_CONTROL] % 2 = 1

\* Mutant: the faults are maskable too.
EligibleMasked ==
  {k \in 1 .. Len(interrupt_queue) : MaskableEnabled}

\* The queue positions that may be taken now.
Eligible ==
  {k \in 1 .. Len(interrupt_queue) :
     MaskableEnabled \/ interrupt_queue[k] \notin MASKABLE_INTS}

\* pop() of a Python list takes its last element; the search for a fault
\* stops at the first one.
IsPick(k) ==
  /\ k \in Eligible
  /\ IF MaskableEnabled THEN k = Len(interrupt_queue)
                        ELSE \A j \in Eligible : k <= j

WithoutPosition(q, k) == SubSeq(q, 1, k - 1) \o SubSeq(q, k + 1, Len(q))

Count(i) == Len(SelectSeq(interrupt_queue, LAMBDA x : x = i))
=============================================================================
