----------------------------- MODULE VMInstance -----------------------------
(***************************************************************************)
(* The CPU of the virtual machine: run_single_step of vm.py and the        *)
(* instruction handlers of vm_instr.py.  A step of the CPU thread takes an *)
(* interrupt and drains the deferred queue ("fetch"), then executes one    *)
(* instruction ("exec"); the device threads may run between the two.       *)
(* VINB and VOUTB call the devices and are in VMMachine.                   *)
(***************************************************************************)
EXTENDS VMInterrupts, FiniteSets

VARIABLES
  mem,            \* RAM
  r,              \* r0 .. r15; r14 is sp and r15 is pc
  fr,             \* flags: bit 0 is ZF, bit 1 is CF
  defered_queue,  \* the control register loads VCRL has put off
  phase,          \* where the CPU thread is in run_single_step
  terminated

cpuVars == <<mem, r, fr, defered_queue, phase, terminated, interrupt_queue, cr>>

Reg == 0 .. 15
sp == r[14]
pc == r[15]

\* A context is the 16 registers and fr, in the order they are pushed.
Slots == 0 .. 16
Context == [j \in Slots |-> IF j = 16 THEN fr ELSE r[j]]
SlotAddr(s, j) == s - (j + 1) * DwordBytes

\* RAM after the first n slots of a context are pushed below address s.
SaveContext(m, s, c, n) ==
  [x \in Addr |-> IF x \in s - n * DwordBytes .. s - 1
                  THEN LET j == (s - 1 - x) \div DwordBytes
                       IN  ByteOf(c[j], x - SlotAddr(s, j))
                  ELSE m[x]]

\* The slot that VIRET reads from address s + k * DwordBytes.
FrameSlot(s, j) == s + (16 - j) * DwordBytes

\* How many slots fit: the pushes stop at the first one outside the RAM.
Pushable(s) ==
  LET fits(n) == n = 0 \/ \A j \in {0, n - 1} : InRam(SlotAddr(s, j), DwordBytes)
  IN  CHOOSE n \in 0 .. 17 : fits(n) /\ (n < 17 => ~fits(n + 1))

\* Mutant: the deferred loads are thrown away.
DrainNothing == UNCHANGED cr

Drain == cr' = IF defered_queue = <<>> THEN cr
               ELSE [cr EXCEPT ![defered_queue[1].id] = defered_queue[1].v]

CpuInit(image) ==
  /\ IntInit
  /\ mem = StoreMany([x \in Addr |-> 0], 0, image)
  /\ r = [i \in Reg |-> IF i = 14 THEN RamSize ELSE 0]
  /\ fr = 0
  /\ defered_queue = <<>>
  /\ phase = "fetch"
  /\ terminated = FALSE

\* Mutant: the deferred queue is not emptied.
NoInterruptKeepsQueue ==
  /\ phase = "fetch" /\ ~terminated
  /\ Eligible = {}
  /\ Drain
  /\ phase' = "exec"
  /\ UNCHANGED <<mem, r, fr, defered_queue, terminated, interrupt_queue>>

\* No interrupt may be taken: only the deferred loads happen.
NoInterrupt ==
  /\ phase = "fetch" /\ ~terminated
  /\ Eligible = {}
  /\ Drain
  /\ defered_queue' = <<>>
  /\ phase' = "exec"
  /\ UNCHANGED <<mem, r, fr, terminated, interrupt_queue>>

\* The context is saved, maskable interrupts are turned off, and then the
\* deferred loads happen (they may turn them on again).
TakeInterrupt ==
  /\ phase = "fetch" /\ ~terminated
  /\ \E k \in Eligible :
       /\ IsPick(k)
       /\ Pushable(sp) = 17
       /\ interrupt_queue' = WithoutPosition(interrupt_queue, k)
       /\ r' = [r EXCEPT ![14] = SlotAddr(sp, 16),
                         ![15] = cr[CREG_INT_FIRST + (interrupt_queue[k] % 16)]]
  /\ mem' = SaveContext(mem, sp, Context, 17)
  /\ LET off == [cr EXCEPT ![CREG_INT_CONTROL] = (@ % DwordMod) - (@ % 2)]
     IN  cr' = IF defered_queue = <<>> THEN off
               ELSE [off EXCEPT ![defered_queue[1].id] = defered_queue[1].v]
  /\ defered_queue' = <<>>
  /\ phase' = "exec"
  /\ UNCHANGED <<fr, terminated>>

\* Mutant: the interrupt is dropped and the machine goes on.
CrashOnInterruptIgnored ==
  /\ phase = "fetch" /\ ~terminated
  /\ \E k \in Eligible :
       /\ IsPick(k)
       /\ Pushable(sp) < 17
       /\ interrupt_queue' = WithoutPosition(interrupt_queue, k)
  /\ mem' = SaveContext(mem, sp, Context, Pushable(sp))
  /\ UNCHANGED <<r, fr, cr, defered_queue, phase, terminated>>

\* The context does not fit on the stack: crash().  The pushes that fitted
\* stay in RAM, and run_single_step returns without draining.
CrashOnInterrupt ==
  /\ phase = "fetch" /\ ~terminated
  /\ \E k \in Eligible :
       /\ IsPick(k)
       /\ Pushable(sp) < 17
       /\ interrupt_queue' = WithoutPosition(interrupt_queue, k)
  /\ mem' = SaveContext(mem, sp, Context, Pushable(sp))
  /\ terminated' = TRUE
  /\ UNCHANGED <<r, fr, cr, defered_queue, phase>>

-----------------------------------------------------------------------------
\* VM_OPCODES: the opcodes and the lengths of their arguments.
OpLength(op) ==
  CASE op \in {0, 2, 3, 4, 5, 242, 243}           -> 2
    [] op = 1                                     -> 1 + DwordBytes
    [] op \in 16 .. 26 \ {24}                     -> 2
    [] op \in {24, 48, 49, 65, 67}                -> 1
    [] op \in {32, 33, 34, 35, 36, 37, 38, 64, 66} -> 2
    [] op \in {240, 241}                          -> 3
    [] OTHER                                      -> 0
Opcodes == (0 .. 5) \cup (16 .. 26) \cup (32 .. 38) \cup {48, 49}
             \cup (64 .. 68) \cup (240 .. 244) \cup {254, 255}

Arg(i) == mem[pc + i]
X == Arg(1) % 16
Y == Arg(2) % 16
DwAt(a) == mem[a] + 256 * mem[a + 1]
WordArg == DwAt(pc + 1)

\* The CPU is about to run a handler of an opcode in ops.
Op(ops) ==
  /\ phase = "exec" /\ ~terminated
  /\ InRam(pc, 1)
  /\ mem[pc] \in ops
  /\ ManyInRam(pc + 1, OpLength(mem[pc]))
  /\ phase' = "fetch"

\* The registers after pc has moved past the instruction; handlers see these.
R == [r EXCEPT ![15] = @ + 1 + OpLength(mem[pc])]
Set(i, v) == r' = [R EXCEPT ![i] = v]
Advance == r' = R
Jump(a) == Set(15, a % RamSize)
Near == R[15] + WordArg

FetchError(i) ==
  /\ Interrupt(i)
  /\ phase' = "fetch"
  /\ UNCHANGED <<mem, r, fr, cr, defered_queue, terminated>>

FetchOutsideRam ==
  /\ phase = "exec" /\ ~terminated
  /\ InRam(pc, 1) => mem[pc] \in Opcodes /\ ~ManyInRam(pc + 1, OpLength(mem[pc]))
  /\ FetchError(INT_MEMORY_ERROR)

UnknownOpcode ==
  /\ phase = "exec" /\ ~terminated
  /\ InRam(pc, 1) /\ mem[pc] \notin Opcodes
  /\ FetchError(INT_GENERAL_ERROR)

\* What most handlers leave alone.
OnlyRegs == UNCHANGED <<mem, fr, cr, defered_queue, terminated, interrupt_queue>>
RaisesOnly(i) == Advance /\ Interrupt(i) /\ UNCHANGED <<mem, fr, cr, defered_queue, terminated>>

-----------------------------------------------------------------------------
\* Bit operations on Python integers (two's complement, any length).
BitOp(table, a, b) ==
  LET bits[x \in Int] ==
        [y \in Int |->
           LET bit == table[x % 2][y % 2]
           IN  IF x \in {0, -1} /\ y \in {0, -1} THEN -bit
               ELSE bit + 2 * bits[x \div 2][y \div 2]]
  IN  bits[a][b]
OrTable  == [x \in 0 .. 1 |-> [y \in 0 .. 1 |-> IF x + y > 0 THEN 1 ELSE 0]]
AndTable == [x \in 0 .. 1 |-> [y \in 0 .. 1 |-> x * y]]
XorTable == [x \in 0 .. 1 |-> [y \in 0 .. 1 |-> (x + y) % 2]]

\* Python's // and % round towards minus infinity for any signs.
FloorDiv(a, b) == IF b > 0 THEN a \div b ELSE (-a) \div (-b)

\* (a << n) & 0xffffffff and a >> n, without powers that overflow TLC.
ShiftLeft(a, n) == IF n >= 8 * DwordBytes THEN 0 ELSE ((a % DwordMod) * 2 ^ n) % DwordMod
ShiftRight(a, n) == (a \div 2 ^ (n \div 2)) \div 2 ^ (n - (n \div 2))

\* The result of an arithmetic or logic instruction on the values of X and Y.
AluResult(op, a, b) ==
  CASE op = 16 -> (a + b) % DwordMod
    [] op = 17 -> (a - b) % DwordMod
    [] op = 18 -> (a * b) % DwordMod
    [] op = 19 -> FloorDiv(a, b)
    [] op = 20 -> a - b * FloorDiv(a, b)
    [] op = 21 -> BitOp(OrTable, a, b)
    [] op = 22 -> BitOp(AndTable, a, b)
    [] op = 23 -> BitOp(XorTable, a, b)
    [] op = 24 -> BitOp(XorTable, a, DwordMax)
    [] op = 25 -> ShiftLeft(a, b % 32)
    [] OTHER   -> ShiftRight(a, b % 32)

VMOV == Op({0}) /\ Set(X, R[Y]) /\ OnlyRegs
VSET == Op({1}) /\ Set(X, FetchDword(mem, pc + 2)) /\ OnlyRegs

\* VADD .. VSHR; only VNOT has one argument.
Alu ==
  /\ Op(16 .. 26)
  /\ mem[pc] \in {19, 20} => R[Y] # 0
  /\ Set(X, AluResult(mem[pc], R[X], IF mem[pc] = 24 THEN 0 ELSE R[Y]))
  /\ OnlyRegs
DivideByZero == Op({19, 20}) /\ R[Y] = 0 /\ RaisesOnly(INT_DIVISION_ERROR)

VLD ==
  /\ Op({2})
  /\ IF InRam(R[Y], DwordBytes) THEN Set(X, FetchDword(mem, R[Y])) /\ OnlyRegs
                                ELSE RaisesOnly(INT_MEMORY_ERROR)
VLDB ==
  /\ Op({4})
  /\ IF InRam(R[Y], 1) THEN Set(X, FetchByte(mem, R[Y])) /\ OnlyRegs
                       ELSE RaisesOnly(INT_MEMORY_ERROR)

StoresTo(m) == Advance /\ mem' = m /\ UNCHANGED <<fr, cr, defered_queue, terminated, interrupt_queue>>
VST ==
  /\ Op({3})
  /\ IF InRam(R[X], DwordBytes) THEN StoresTo(StoreDword(mem, R[X], R[Y]))
                                ELSE RaisesOnly(INT_MEMORY_ERROR)
VSTB ==
  /\ Op({5})
  /\ IF InRam(R[X], 1) THEN StoresTo(StoreByte(mem, R[X], R[Y] % 256))
                       ELSE RaisesOnly(INT_MEMORY_ERROR)

ZF == fr % 2 = 1
CF == (fr \div 2) % 2 = 1
VCMP ==
  /\ Op({32})
  /\ fr' = (fr - (fr % 4)) + (IF R[X] = R[Y] THEN 1 ELSE 0) + (IF R[X] < R[Y] THEN 2 ELSE 0)
  /\ Advance
  /\ UNCHANGED <<mem, cr, defered_queue, terminated, interrupt_queue>>

JumpTaken(op) ==
  CASE op = 33 -> ZF
    [] op = 34 -> ~ZF
    [] op = 35 -> CF
    [] op = 36 -> ~CF
    [] op = 37 -> CF \/ ZF
    [] op = 38 -> ~CF /\ ~ZF
    [] OTHER   -> TRUE
\* VJZ .. VJA and VJMP.
JumpNear == Op((33 .. 38) \cup {64}) /\ (IF JumpTaken(mem[pc]) THEN Jump(Near) ELSE Advance) /\ OnlyRegs
VJMPR == Op({65}) /\ Jump(R[X]) /\ OnlyRegs

-----------------------------------------------------------------------------
\* The stack.  store_dword answers False, and these handlers compare it with
\* None: a push outside the RAM stores nothing, moves sp and raises nothing.
Pushed(v) == IF InRam(R[14] - DwordBytes, DwordBytes)
             THEN StoreDword(mem, R[14] - DwordBytes, v) ELSE mem
PushThen(v, target) ==
  /\ mem' = Pushed(v)
  /\ r' = [R EXCEPT ![14] = @ - DwordBytes, ![15] = target]
  /\ UNCHANGED <<fr, cr, defered_queue, terminated, interrupt_queue>>
\* The operand is read after sp has moved, so pushing sp stores the new sp.
VPUSH == Op({48}) /\ PushThen(IF X = 14 THEN R[14] - DwordBytes ELSE R[X], R[15])
VCALL == Op({66}) /\ PushThen(R[15], Near % RamSize)
\* The target register is read after the push as well.
VCALLR == Op({67}) /\ PushThen(R[15], (IF X = 14 THEN R[14] - DwordBytes ELSE R[X]) % RamSize)

\* The popped register is assigned before sp moves: popping into sp adds to
\* the popped value.
PopInto(i) ==
  IF ~InRam(R[14], DwordBytes) THEN RaisesOnly(INT_MEMORY_ERROR)
  ELSE LET v == FetchDword(mem, R[14])
           q == [R EXCEPT ![i] = v]
       IN  r' = [q EXCEPT ![14] = @ + DwordBytes] /\ OnlyRegs
VPOP == Op({49}) /\ PopInto(X)
VRET == Op({68}) /\ PopInto(15)

-----------------------------------------------------------------------------
CregArg == DwAt(pc + 2)
UnknownCreg == Op({240, 241}) /\ CregArg \notin Cregs /\ RaisesOnly(INT_GENERAL_ERROR)

\* Mutant: the load happens at once.
VCRLAtOnce ==
  /\ Op({240}) /\ CregArg \in Cregs
  /\ cr' = [cr EXCEPT ![CregArg] = R[X]]
  /\ Advance
  /\ UNCHANGED <<mem, fr, defered_queue, terminated, interrupt_queue>>

\* The load itself waits for the next step, after its interrupts.
VCRL ==
  /\ Op({240}) /\ CregArg \in Cregs
  /\ defered_queue' = Append(defered_queue, [id |-> CregArg, v |-> R[X]])
  /\ Advance
  /\ UNCHANGED <<mem, fr, cr, terminated, interrupt_queue>>
VCRS == Op({241}) /\ CregArg \in Cregs /\ Set(X, cr[CregArg]) /\ OnlyRegs

\* fr, then r15 down to r0, from consecutive dwords above sp.  The loop stops
\* at the first dword outside the RAM and keeps what it has restored.
Restorable(s) ==
  {j \in Slots : InRam(s, DwordBytes) /\ InRam(FrameSlot(s, j), DwordBytes)}
\* Mutant: the flags are not restored.
VIRETKeepsFlags ==
  /\ Op({244})
  /\ LET got == Restorable(R[14])
         at(j) == FetchDword(mem, FrameSlot(R[14], j))
     IN  /\ r' = [i \in Reg |-> IF i \in got THEN at(i) ELSE R[i]]
         /\ IF got = Slots THEN UNCHANGED interrupt_queue ELSE Interrupt(INT_GENERAL_ERROR)
  /\ UNCHANGED <<mem, fr, cr, defered_queue, terminated>>

\* Mutant: nothing is restored from a frame that is cut short.
VIRETWholeOnly ==
  /\ Op({244})
  /\ LET got == Restorable(R[14])
         at(j) == FetchDword(mem, FrameSlot(R[14], j))
     IN  IF got = Slots
         THEN /\ fr' = at(16) /\ r' = [i \in Reg |-> at(i)]
              /\ UNCHANGED interrupt_queue
         ELSE Advance /\ Interrupt(INT_GENERAL_ERROR) /\ UNCHANGED fr
  /\ UNCHANGED <<mem, cr, defered_queue, terminated>>

VIRET ==
  /\ Op({244})
  /\ LET got == Restorable(R[14])
         at(j) == FetchDword(mem, FrameSlot(R[14], j))
     IN  /\ fr' = IF 16 \in got THEN at(16) ELSE fr
         /\ r' = [i \in Reg |-> IF i \in got THEN at(i) ELSE R[i]]
         /\ IF got = Slots THEN UNCHANGED interrupt_queue ELSE Interrupt(INT_GENERAL_ERROR)
  /\ UNCHANGED <<mem, cr, defered_queue, terminated>>

\* VCRSH and VOFF.
Stop == Op({254, 255}) /\ Advance /\ terminated' = TRUE
        /\ UNCHANGED <<mem, fr, cr, defered_queue, interrupt_queue>>

Execute ==
  \/ FetchOutsideRam \/ UnknownOpcode
  \/ VMOV \/ VSET \/ Alu \/ DivideByZero \/ VLD \/ VLDB \/ VST \/ VSTB
  \/ VCMP \/ JumpNear \/ VJMPR
  \/ VPUSH \/ VCALL \/ VCALLR \/ VPOP \/ VRET
  \/ UnknownCreg \/ VCRL \/ VCRS \/ VIRET \/ Stop

CpuStep == NoInterrupt \/ TakeInterrupt \/ CrashOnInterrupt \/ Execute

-----------------------------------------------------------------------------
CpuTypeOK ==
  /\ mem \in Ram
  /\ r \in [Reg -> Int] /\ fr \in Nat /\ cr \in [Cregs -> Int]
  /\ defered_queue \in Seq([id : Cregs, v : Int])
  /\ phase \in {"fetch", "exec"}
  /\ terminated \in BOOLEAN
  /\ interrupt_queue \in Seq(Faults \cup MASKABLE_INTS)

FaultsWaiting == {k \in DOMAIN interrupt_queue : interrupt_queue[k] \in Faults}

\* Both queues are popped from their ends, and stay short all the same, whatever
\* the program.  Two deferred loads would be applied in reverse order; there is
\* never more than one.  A fault can be overtaken by one device interrupt, which
\* turns interrupts off; then it is taken before the handler's second instruction.
\* So only the fault of the handler's first instruction can wait with it.
QueuesStayShort == Len(defered_queue) <= 1 /\ Cardinality(FaultsWaiting) <= 2
=============================================================================
