--------------------------- MODULE GuestPrograms ---------------------------
(***************************************************************************)
(* The assembler macros of vm.inc and the guest programs of the repository *)
(* as RAM images.  A label is the length of what stands before it.  The    *)
(* last programs reach what those never do: faults, the bottom of the      *)
(* stack, and both devices at once.                                        *)
(***************************************************************************)
EXTENDS VMMemory

Dw(v) == <<v % 256, (v % 65536) \div 256>>
Dd(v) == [i \in 1 .. DwordBytes |-> ByteOf(v, i - 1)]

Two(op, a, b) == <<op, a, b>>
Vmov(a, b) == Two(0, a, b)
Vset(a, v) == <<1, a>> \o Dd(v)
Vldb(a, b) == Two(4, a, b)
Vadd(a, b) == Two(16, a, b)
Vsub(a, b) == Two(17, a, b)
Vcmp(a, b) == Two(32, a, b)
Vcrl(c, a) == <<240, a>> \o Dw(c)
Vcrs(c, a) == <<241, a>> \o Dw(c)
Voutb(p, a) == Two(242, a, p)
Vinb(p, a) == Two(243, a, p)
Viret == <<244>>
Voff == <<255>>
\* The jump at address from, relative to the instruction after it.
Branch(op, from, to) == <<op>> \o Dw(to - (from + 3))
Vjz(from, to) == Branch(33, from, to)
Vjc(from, to) == Branch(35, from, to)
Vja(from, to) == Branch(38, from, to)
Vjmp(from, to) == Branch(64, from, to)

-----------------------------------------------------------------------------
\* console_test.nasm
ConsoleSetup(handler) ==
  Vset(0, handler) \o Vcrl(265, 0) \o Vset(0, 1) \o Vcrl(272, 0) \o Voutb(34, 0)
console_infloop == Len(ConsoleSetup(0))
console_int_9 == console_infloop + 3
console_prompt ==
  Vset(0, 67) \o Vset(1, 58) \o Vset(2, 32) \o Voutb(32, 0) \o Voutb(32, 1)
  \o Voutb(32, 2) \o Vset(1, 0)
console_while == console_int_9 + Len(console_prompt)
console_end == console_while + 18
console_test ==
  ConsoleSetup(console_int_9)
  \o Vjmp(console_infloop, console_infloop)
  \o console_prompt
  \o Vinb(33, 0) \o Vcmp(0, 1) \o Vjz(console_while + 6, console_end)
  \o Vinb(32, 0) \o Voutb(32, 0) \o Vjmp(console_while + 15, console_while)
  \o Vset(0, 1) \o Voutb(34, 0)
  \o Vcrl(272, 0) \o Viret

\* pit_test.nasm, with an alarm of ms milliseconds in place of 1000.
PitSetup(ms, handler) ==
  Vset(0, 0) \o Voutb(113, 0) \o Voutb(113, 0)
  \o Vset(0, ms) \o Vmov(1, 0) \o Vset(2, 8) \o Two(26, 1, 2)
  \o Vset(2, 255) \o Two(22, 0, 2) \o Two(22, 1, 2) \o Voutb(113, 1) \o Voutb(113, 0)
  \o Vset(0, handler) \o Vcrl(264, 0)
  \o Vset(0, 1) \o Vcrl(272, 0) \o Voutb(112, 0)
pit_infloop == Len(PitSetup(0, 0))
pit_test(ms) ==
  PitSetup(ms, pit_infloop + 3)
  \o Vjmp(pit_infloop, pit_infloop)
  \o Vset(0, 79) \o Vset(1, 75) \o Vset(2, 10)
  \o Voutb(32, 0) \o Voutb(32, 1) \o Voutb(32, 2) \o Voff

\* upper.nasm
upper_not_lower == 3 + 2 * (2 + DwordBytes + 3 + 3) + 2 + DwordBytes + 3
upper ==
  LET second == 3 + 2 + DwordBytes + 3 + 3
  IN  Vinb(32, 0)
      \o Vset(1, 97) \o Vcmp(0, 1) \o Vjc(second - 3, upper_not_lower)
      \o Vset(1, 122) \o Vcmp(0, 1)
      \o Vja(second + 2 + DwordBytes + 3, upper_not_lower)
      \o Vset(1, 32) \o Vsub(0, 1)
      \o Voutb(32, 0) \o Voff

\* all_instr.nasm with vjmpr r0 where the file has vjmpr n11 (the label's
\* low bits name a register that holds 0, so the program starts over), and
\* with the scratch dword at address scratch in place of 1234.
AllArithmetic(scratch) ==
  Vmov(0, 1) \o Vset(0, scratch) \o Two(2, 1, 0) \o Two(3, 0, 1) \o Two(4, 1, 0)
  \o Two(5, 0, 1)
  \o Vadd(1, 1) \o Vsub(1, 1) \o Two(18, 1, 1) \o Two(19, 1, 0) \o Two(20, 1, 0)
  \o Two(21, 1, 1) \o Two(22, 1, 1) \o Two(23, 1, 1) \o <<24, 1>> \o Two(25, 1, 1)
  \o Two(26, 1, 1) \o Vcmp(0, 0)
NextInstr(op) == <<op, 0, 0>>
AllJumps(scratch) ==
  AllArithmetic(scratch)
  \o NextInstr(33) \o NextInstr(33) \o NextInstr(34) \o NextInstr(34)
  \o NextInstr(35) \o NextInstr(35) \o NextInstr(36) \o NextInstr(36)
  \o NextInstr(37) \o NextInstr(38)
  \o <<48, 0>> \o <<49, 0>> \o NextInstr(64)
all_n11 == Len(AllJumps(0)) + 2 + DwordBytes + 2
all_n13 == all_n11 + 3 + 2 + 2 + DwordBytes + 2 + 1
all_n14 == all_n13 + 2 + DwordBytes + 2
all_instr(scratch) ==
  AllJumps(scratch)
  \o Vset(0, all_n11) \o <<65, 0>>
  \o NextInstr(66) \o <<49, 0>> \o Vset(0, all_n13) \o <<48, 0>> \o <<68>>
  \o Vset(0, all_n14) \o <<67, 0>>
  \o <<49, 0>>
  \o Vcrl(256, 0) \o Vcrs(256, 0) \o Voutb(113, 0) \o Vinb(113, 0)
  \o Voff

\* Every instruction that can fail fails, with a handler that returns at
\* once.  The last VIRET finds only fr, pc and sp on the stack, and goes past
\* VOFF with them; in the end the program runs off the RAM, where returning
\* cannot help.
RunOff == Vset(4, RamSize - 1) \o <<65, 4>>
FaultSetup(handler) ==
  Vset(0, handler) \o Vcrl(256, 0) \o Vcrl(257, 0) \o Vcrl(258, 0)
  \o Vset(3, DwordMax)
  \o Two(19, 0, 1) \o Two(20, 0, 1)
  \o Two(2, 0, 3) \o Two(4, 0, 3) \o Two(3, 3, 0) \o Two(5, 3, 0)
  \o Vcrl(1280, 0) \o Vcrs(1280, 0) \o Voutb(7, 0) \o Vinb(7, 0) \o Vinb(34, 0) \o Vinb(112, 0)
  \o <<49, 0>> \o <<68>> \o Viret
  \o <<48, 0>> \o Viret \o <<49, 0>>
  \o Vset(5, RamSize) \o <<48, 5>> \o Vset(5, handler - Len(RunOff)) \o <<48, 5>> \o <<48, 5>>
  \o Viret \o Voff \o RunOff
fault_handler == Len(FaultSetup(0))
fault_run_off == fault_handler - Len(RunOff)
fault_test == FaultSetup(fault_handler) \o Viret

\* Both devices at once: the timer handler restarts the timer, the
\* console handler takes a single character each time.
BothSetup(pit, console) ==
  Vset(0, 1) \o Vset(1, pit) \o Vcrl(264, 1) \o Vset(1, console) \o Vcrl(265, 1)
  \o Voutb(113, 0) \o Vcrl(272, 0) \o Voutb(34, 0) \o Voutb(112, 0)
both_infloop == Len(BothSetup(0, 0))
both_int_8 == Vset(0, 1) \o Voutb(112, 0) \o Vcrl(272, 0) \o Viret
both_int_9 ==
  Vinb(32, 1) \o Voutb(32, 1) \o Vset(0, 1) \o Voutb(34, 0) \o Vcrl(272, 0) \o Viret
both_test ==
  BothSetup(both_infloop + 3, both_infloop + 3 + Len(both_int_8))
  \o Vjmp(both_infloop, both_infloop) \o both_int_8 \o both_int_9

\* A program that divides by zero over and over while the console interrupts it.
StormSetup(divide, console) ==
  Vset(1, divide) \o Vcrl(257, 1) \o Vset(1, console) \o Vcrl(265, 1)
  \o Vset(0, 1) \o Vcrl(272, 0) \o Voutb(34, 0)
storm_loop == Len(StormSetup(0, 0))
storm_int_1 == Vset(0, 1) \o Vcrl(272, 0) \o Viret
storm_test ==
  StormSetup(storm_loop + 6, storm_loop + 6 + Len(storm_int_1))
  \o Two(19, 0, 5) \o Vjmp(storm_loop + 3, storm_loop) \o storm_int_1 \o both_int_9

\* A fault before any vector is set.
unhandled_fault == Two(19, 0, 0)

\* A fault that an interrupt without a vector can overtake: the jump is a fault, too.
overtaken_fault == Vset(0, 1) \o Vcrl(272, 0) \o Voutb(34, 0) \o unhandled_fault

\* The bottom of the stack: a push there does not fit.
push_at_bottom == Vset(14, 0) \o <<48, 1>> \o Vmov(2, 2) \o Voff
unknown_opcode == <<15>>
=============================================================================
