------------------------------ MODULE VMMemory ------------------------------
(***************************************************************************)
(* The RAM of the virtual machine (vm_memory.py): a byte array, read and   *)
(* written by bytes, by little-endian dwords and by byte strings.  The     *)
(* code has RamSize = 2^16 and DwordBytes = 4.  Both are parameters, so    *)
(* that TLC's 32-bit integers hold every dword of a small machine.         *)
(***************************************************************************)
EXTENDS Integers, Sequences

CONSTANTS RamSize, DwordBytes

ASSUME RamSizeAssumption == RamSize \in Nat \ {0}
ASSUME DwordBytesAssumption == DwordBytes \in 1 .. 4

Addr == 0 .. RamSize - 1
Byte == 0 .. 255
Ram == [Addr -> Byte]

\* 256 ^ k for k \in 0 .. 4; Pow256(DwordBytes) is the code's 0x100000000.
Pow256(k) == CASE k = 0 -> 1
               [] k = 1 -> 256
               [] k = 2 -> 65536
               [] k = 3 -> 16777216
               [] OTHER -> 16777216 * 256

DwordMod == Pow256(DwordBytes)
DwordMax == DwordMod - 1

\* The bounds checks.  addr + n - 1 >= len(self._mem) is written without the
\* sum.  fetch_many and store_many do not look at the sign of the address.
InRam(addr, n) == addr >= 0 /\ addr <= RamSize - n
ManyInRam(addr, n) == addr <= RamSize - n

\* Byte k of a Python integer, negative ones in two's complement.
ByteOf(v, k) == (v \div Pow256(k)) % 256

FetchByte(m, addr) == m[addr]
StoreByte(m, addr, v) == [m EXCEPT ![addr] = v]

FetchDword(m, addr) ==
  LET part(k) == IF k < DwordBytes THEN m[addr + k] * Pow256(k) ELSE 0
  IN  part(0) + part(1) + part(2) + part(3)

StoreDword(m, addr, v) ==
  [x \in Addr |-> IF x \in addr .. addr + DwordBytes - 1
                  THEN ByteOf(v, x - addr) ELSE m[x]]

StoreMany(m, addr, bytes) ==
  [x \in Addr |-> IF x \in addr .. addr + Len(bytes) - 1
                  THEN bytes[x - addr + 1] ELSE m[x]]
=============================================================================
