-------------------------- MODULE VMMachine_proofs --------------------------
(***************************************************************************)
(* Proofs about the virtual machine for any program in its RAM, any size   *)
(* of the RAM, any dword and any input: what the RAM keeps, what the       *)
(* arithmetic of the CPU yields, what holds of every step of the CPU       *)
(* between the steps of the devices, what the devices promise to any       *)
(* guest, and that a handler returns to a program it has not disturbed.    *)
(* In the end two guests are followed from their first instruction on, for *)
(* any input and any moment of their interrupts.                           *)
(***************************************************************************)
EXTENDS MCMachine, VMDevices, SequenceTheorems, FiniteSetTheorems, TLAPS
WF == INSTANCE WellFoundedInduction

-----------------------------------------------------------------------------
(* The RAM.                                                                *)

Dword == 0 .. DwordMax

\* Every byte that ByteOf yields is a byte.
LEMMA ByteOfType == ASSUME NEW v \in Int, NEW k \in 0 .. 3 PROVE ByteOf(v, k) \in Byte
  BY DEF ByteOf, Byte, Pow256

\* A dword stored inside the RAM leaves a RAM.
THEOREM StoreDwordType ==
  ASSUME NEW m \in Ram, NEW a \in Int, NEW v \in Int, InRam(a, DwordBytes)
  PROVE  StoreDword(m, a, v) \in Ram
<1>1. \A x \in Addr : x \in a .. a + DwordBytes - 1 => ByteOf(v, x - a) \in Byte
  BY ByteOfType, DwordBytesAssumption, RamSizeAssumption DEF Addr
<1>. QED BY <1>1 DEF StoreDword, Ram

\* A dword read from a RAM is a dword, whatever bytes the RAM holds.
THEOREM FetchDwordType ==
  ASSUME NEW m \in Ram, NEW a \in Int, InRam(a, DwordBytes)
  PROVE  FetchDword(m, a) \in Dword
<1>. DEFINE p(k) == IF k < DwordBytes THEN m[a + k] * Pow256(k) ELSE 0
<1>1. \A k \in 0 .. 3 : k < DwordBytes => m[a + k] \in 0 .. 255
  BY DwordBytesAssumption, RamSizeAssumption DEF Ram, Addr, Byte, InRam
<1>2. /\ p(0) \in Nat /\ p(0) <= 255
      /\ IF 1 < DwordBytes THEN p(1) \in Nat /\ p(1) <= 255 * 256 ELSE p(1) = 0
      /\ IF 2 < DwordBytes THEN p(2) \in Nat /\ p(2) <= 255 * 65536 ELSE p(2) = 0
      /\ IF 3 < DwordBytes THEN p(3) \in Nat /\ p(3) <= 255 * 16777216 ELSE p(3) = 0
  BY <1>1, DwordBytesAssumption DEF Pow256
<1>3. FetchDword(m, a) = p(0) + p(1) + p(2) + p(3)
  BY DEF FetchDword
<1>. HIDE DEF p
<1>. QED
  BY <1>2, <1>3, DwordBytesAssumption DEF Dword, DwordMax, DwordMod, Pow256

\* A number is made of its digits in base 256.
LEMMA Digits ==
  ASSUME NEW v \in Int
  PROVE  /\ v = (v % 256) + 256 * (v \div 256)
         /\ v \div 256 = ((v \div 256) % 256) + 256 * (v \div 65536)
         /\ v \div 65536 = ((v \div 65536) % 256) + 256 * (v \div 16777216)
         /\ v \div 16777216 = ((v \div 16777216) % 256) + 256 * (v \div 4294967296)
<1>1. v = (v % 256) + 256 * (v \div 256)
  OBVIOUS
<1>2. v \div 256 = ((v \div 256) % 256) + 256 * (v \div 65536)
  OBVIOUS
<1>3. v \div 65536 = ((v \div 65536) % 256) + 256 * (v \div 16777216)
  OBVIOUS
<1>4. v \div 16777216 = ((v \div 16777216) % 256) + 256 * (v \div 4294967296)
  OBVIOUS
<1>. QED  BY <1>1, <1>2, <1>3, <1>4

\* The bytes of a number, wherever they lie, are the number modulo the dword.
LEMMA BytesMakeTheDword ==
  ASSUME NEW n, NEW a \in Int, NEW v \in Int,
         \A k \in 0 .. 3 : k < DwordBytes => n[a + k] = ByteOf(v, k)
  PROVE  FetchDword(n, a) = v % DwordMod
<1>. DEFINE d0 == v % 256
            d1 == (v \div 256) % 256
            d2 == (v \div 65536) % 256
            d3 == (v \div 16777216) % 256
            p(k) == IF k < DwordBytes THEN n[a + k] * Pow256(k) ELSE 0
<1>1. /\ ByteOf(v, 0) = d0 /\ ByteOf(v, 1) = d1
      /\ ByteOf(v, 2) = d2 /\ ByteOf(v, 3) = d3
  BY DEF ByteOf, Pow256
<1>2. /\ n[a + 0] = d0
      /\ 1 < DwordBytes => n[a + 1] = d1
      /\ 2 < DwordBytes => n[a + 2] = d2
      /\ 3 < DwordBytes => n[a + 3] = d3
  <2>. HIDE DEF d0, d1, d2, d3
  <2>. QED BY <1>1, DwordBytesAssumption
<1>3. d0 \in 0 .. 255 /\ d1 \in 0 .. 255 /\ d2 \in 0 .. 255 /\ d3 \in 0 .. 255
  OBVIOUS
<1>4. FetchDword(n, a) = p(0) + p(1) + p(2) + p(3)
  BY DEF FetchDword
<1>5. /\ p(0) = d0
      /\ p(1) = IF 1 < DwordBytes THEN d1 * 256 ELSE 0
      /\ p(2) = IF 2 < DwordBytes THEN d2 * 65536 ELSE 0
      /\ p(3) = IF 3 < DwordBytes THEN d3 * 16777216 ELSE 0
  <2>. HIDE DEF d0, d1, d2, d3
  <2>. QED BY <1>2, <1>3, DwordBytesAssumption DEF Pow256
<1>6. /\ v = d0 + 256 * (v \div 256)
      /\ v \div 256 = d1 + 256 * (v \div 65536)
      /\ v \div 65536 = d2 + 256 * (v \div 16777216)
      /\ v \div 16777216 = d3 + 256 * (v \div 4294967296)
  BY Digits
<1>7. /\ v \div 256 \in Int /\ v \div 65536 \in Int
      /\ v \div 16777216 \in Int /\ v \div 4294967296 \in Int
  OBVIOUS
<1>. HIDE DEF d0, d1, d2, d3, p
<1>8. CASE DwordBytes = 1
  <2>1. FetchDword(n, a) = d0
    BY <1>4, <1>5, <1>3, <1>8
  <2>. QED BY <1>3, <1>8, <2>1 DEF DwordMod, Pow256, d0
<1>9. CASE DwordBytes = 2
  <2>1. FetchDword(n, a) = d0 + d1 * 256
    BY <1>4, <1>5, <1>3, <1>9
  <2>2. v = (d0 + d1 * 256) + 65536 * (v \div 65536)
    BY <1>3, <1>6, <1>7
  <2>3. v % 65536 = d0 + d1 * 256
    BY <1>3, <1>7, <2>2
  <2>. QED BY <1>9, <2>1, <2>3 DEF DwordMod, Pow256
<1>10. CASE DwordBytes = 3
  <2>1. FetchDword(n, a) = d0 + d1 * 256 + d2 * 65536
    BY <1>4, <1>5, <1>3, <1>10
  <2>2. v = (d0 + d1 * 256 + d2 * 65536) + 16777216 * (v \div 16777216)
    BY <1>3, <1>6, <1>7
  <2>3. v % 16777216 = d0 + d1 * 256 + d2 * 65536
    BY <1>3, <1>7, <2>2
  <2>. QED BY <1>10, <2>1, <2>3 DEF DwordMod, Pow256
<1>11. CASE DwordBytes = 4
  <2>1. FetchDword(n, a) = d0 + d1 * 256 + d2 * 65536 + d3 * 16777216
    BY <1>4, <1>5, <1>3, <1>11
  <2>2. v = (d0 + d1 * 256 + d2 * 65536 + d3 * 16777216) + 4294967296 * (v \div 4294967296)
    BY <1>3, <1>6, <1>7
  <2>3. v % 4294967296 = d0 + d1 * 256 + d2 * 65536 + d3 * 16777216
    BY <1>3, <1>7, <2>2
  <2>. QED BY <1>11, <2>1, <2>3 DEF DwordMod, Pow256
<1>. QED BY <1>8, <1>9, <1>10, <1>11, DwordBytesAssumption

\* What is stored is what is fetched: no byte of a dword is lost, swapped or
\* sign-extended between store_dword and fetch_dword.  Python's integers have
\* no width, so a number that is no dword comes back modulo 2^32.
THEOREM DwordRoundTrip ==
  ASSUME NEW m \in Ram, NEW a \in Int, NEW v \in Int, InRam(a, DwordBytes)
  PROVE  /\ FetchDword(StoreDword(m, a, v), a) = v % DwordMod
         /\ v \in Dword => FetchDword(StoreDword(m, a, v), a) = v
<1>. DEFINE n == StoreDword(m, a, v)
<1>1. \A k \in 0 .. 3 : k < DwordBytes => n[a + k] = ByteOf(v, k)
  BY DwordBytesAssumption, RamSizeAssumption DEF StoreDword, Addr, InRam
<1>. HIDE DEF n
<1>2. FetchDword(n, a) = v % DwordMod
  BY <1>1, BytesMakeTheDword
<1>3. v \in Dword => v % DwordMod = v
  <2>1. DwordMod \in Nat \ {0} /\ DwordMax = DwordMod - 1
    BY DwordBytesAssumption DEF DwordMod, DwordMax, Pow256
  <2>. QED BY <2>1 DEF Dword
<1>. QED BY <1>2, <1>3 DEF n

\* A store changes no byte outside the dword, so a frame pushed below another
\* one leaves the other one as it was.
THEOREM StoreDwordFrame ==
  ASSUME NEW m \in Ram, NEW a \in Int, NEW v \in Int, NEW b \in Int,
         InRam(a, DwordBytes), InRam(b, DwordBytes),
         b + DwordBytes <= a \/ a + DwordBytes <= b
  PROVE  FetchDword(StoreDword(m, a, v), b) = FetchDword(m, b)
<1>1. \A k \in 0 .. 3 : k < DwordBytes => StoreDword(m, a, v)[b + k] = m[b + k]
  BY DwordBytesAssumption, RamSizeAssumption DEF StoreDword, Addr, InRam
<1>. QED BY <1>1, DwordBytesAssumption DEF FetchDword

-----------------------------------------------------------------------------
(* Bit operations: the recursion of BitOp has a value for all integers.    *)

LEMMA Least ==
  ASSUME NEW T \in SUBSET Nat, T # {}
  PROVE  \E x \in T : \A y \in T : x <= y
<1>. DEFINE L == WF!OpToRel(<, Nat)
<1>1. WF!IsWellFoundedOn(L, Nat)
  <2>1. WF!IsWellFoundedOn(WF!OpToRel(<, Nat), Nat)
    BY WF!NatLessThanWellFounded
  <2>. QED BY <2>1
<1>2. \E x \in T : \A y \in T : ~ (<<y, x>> \in L)
  <2>. HIDE DEF L
  <2>. QED BY <1>1, WF!WFMin
<1>3. \A x, y \in Nat : <<y, x>> \in L <=> y < x
  BY DEF WF!OpToRel
<1>. HIDE DEF L
<1>4. PICK x \in T : \A y \in T : ~ (<<y, x>> \in L)
  BY <1>2
<1>5. \A y \in T : x <= y
  <2>. TAKE y \in T
  <2>1. ~ (y < x) BY <1>3, <1>4
  <2>. QED BY <2>1
<1>. QED BY <1>5

LEMMA Induction ==
  ASSUME NEW Reached \in SUBSET Nat, 0 \in Reached, \A n \in Reached : n + 1 \in Reached
  PROVE  Reached = Nat
<1>. SUFFICES ASSUME Nat \ Reached # {} PROVE FALSE
  OBVIOUS
<1>1. PICK x \in Nat \ Reached : \A y \in Nat \ Reached : x <= y
  BY Least
<1>2. x - 1 \in Reached
  BY <1>1
<1>. QED BY <1>1, <1>2

Table == [0 .. 1 -> [0 .. 1 -> 0 .. 1]]

\* What BitOp says of the bits of x and y, and that it says so on a set.
BitsAt(t, f, x, y) ==
  LET bit == t[x % 2][y % 2]
  IN  IF x \in {0, -1} /\ y \in {0, -1} THEN -bit ELSE bit + 2 * f[x \div 2][y \div 2]
BitsOn(t, f, S) == f = [x \in S |-> [y \in S |-> BitsAt(t, f, x, y)]]

\* The integers of n bits in a wide sense: halving stays among them.
Around(n) == -(n + 1) .. n
Defined(t, n) ==
  \E f \in [Around(n) -> [Around(n) -> Int]] :
    BitsOn(t, f, Around(n)) /\ \A g : BitsOn(t, g, Around(n)) => g = f

LEMMA Halves ==
  ASSUME NEW n \in Nat
  PROVE  /\ \A x \in Around(n) : x \div 2 \in Around(n) /\ x % 2 \in 0 .. 1
         /\ \A x \in Around(n + 1) : x \div 2 \in Around(n)
         /\ Around(n) \subseteq Int
         /\ \A m \in Nat : m <= n => Around(m) \subseteq Around(n)
  BY DEF Around

LEMMA BothAround ==
  ASSUME NEW u \in Int, NEW v \in Int, NEW p \in Nat, NEW q \in Nat,
         -p <= u, u <= p, -q <= v, v <= q
  PROVE  u \in Around(p + q) /\ v \in Around(p + q)
  BY DEF Around

\* The recursion on a set determines it on the smaller ones.
LEMMA BitsRestrict ==
  ASSUME NEW t \in Table, NEW n \in Nat, NEW S, Around(n) \subseteq S, S \subseteq Int,
         NEW f, BitsOn(t, f, S)
  PROVE  BitsOn(t, [x \in Around(n) |-> [y \in Around(n) |-> f[x][y]]], Around(n))
<1>. DEFINE D == Around(n)
            g == [x \in D |-> [y \in D |-> f[x][y]]]
<1>1. ASSUME NEW x \in D, NEW y \in D PROVE g[x][y] = BitsAt(t, g, x, y)
  <2>1. g[x][y] = BitsAt(t, f, x, y)
    BY DEF BitsOn
  <2>2. x \div 2 \in D /\ y \div 2 \in D
    BY Halves
  <2>3. g[x \div 2][y \div 2] = f[x \div 2][y \div 2]
    BY <2>2
  <2>. HIDE DEF g, D
  <2>. QED BY <2>1, <2>3 DEF BitsAt
<1>2. g = [x \in D |-> [y \in D |-> g[x][y]]]
  OBVIOUS
<1>3. [x \in D |-> [y \in D |-> g[x][y]]] = [x \in D |-> [y \in D |-> BitsAt(t, g, x, y)]]
  <2>. HIDE DEF g, D
  <2>. QED BY <1>1
<1>. HIDE DEF g
<1>4. BitsOn(t, g, D)
  BY <1>2, <1>3 DEF BitsOn
<1>. QED BY <1>4 DEF g

LEMMA BitsDefined0 == ASSUME NEW t \in Table PROVE Defined(t, 0)
<1>. DEFINE D == Around(0)
            f == [x \in D |-> [y \in D |-> -t[x % 2][y % 2]]]
<1>1. \A x \in D : x \in {0, -1} /\ x % 2 \in 0 .. 1
  BY DEF Around
<1>2. f \in [D -> [D -> Int]]
  BY <1>1 DEF Table
<1>3. ASSUME NEW g PROVE \A x \in D, y \in D : BitsAt(t, g, x, y) = -t[x % 2][y % 2]
  BY <1>1 DEF BitsAt
<1>4. ASSUME NEW g PROVE [x \in D |-> [y \in D |-> BitsAt(t, g, x, y)]] = f
  BY <1>3
<1>. HIDE DEF f, D
<1>5. BitsOn(t, f, D) /\ \A g : BitsOn(t, g, D) => g = f
  BY <1>4 DEF BitsOn
<1>. QED BY <1>2, <1>5 DEF Defined, D

LEMMA BitsDefinedNext ==
  ASSUME NEW t \in Table, NEW n \in Nat, Defined(t, n)
  PROVE  Defined(t, n + 1)
<1>. DEFINE D == Around(n)
            E == Around(n + 1)
<1>1. PICK f \in [D -> [D -> Int]] : BitsOn(t, f, D) /\ \A g : BitsOn(t, g, D) => g = f
  BY DEF Defined
<1>. DEFINE h == [x \in E |-> [y \in E |-> BitsAt(t, f, x, y)]]
<1>2. /\ \A x \in E : x \div 2 \in D /\ x % 2 \in 0 .. 1
      /\ D \subseteq E /\ E \subseteq Int
  <2>1. n + 1 \in Nat /\ n <= n + 1
    OBVIOUS
  <2>. QED BY <2>1, Halves
<1>3. \A x \in E, y \in E : BitsAt(t, f, x, y) \in Int
  <2>. TAKE x \in E, y \in E
  <2>1. t[x % 2][y % 2] \in 0 .. 1 /\ f[x \div 2][y \div 2] \in Int
    BY <1>2 DEF Table
  <2>. HIDE DEF D, E
  <2>. QED BY <2>1 DEF BitsAt
<1>4. h \in [E -> [E -> Int]]
  <2>. HIDE DEF D, E
  <2>. QED BY <1>3
\* Any function that agrees with f on the smaller set is determined on the larger one.
<1>5. ASSUME NEW g, \A x \in D, y \in D : g[x][y] = f[x][y]
      PROVE  [x \in E |-> [y \in E |-> BitsAt(t, g, x, y)]] = h
  <2>1. ASSUME NEW x \in E, NEW y \in E PROVE BitsAt(t, g, x, y) = BitsAt(t, f, x, y)
    <3>1. g[x \div 2][y \div 2] = f[x \div 2][y \div 2]
      BY <1>2, <1>5
    <3>. HIDE DEF D, E
    <3>. QED BY <3>1 DEF BitsAt
  <2>. HIDE DEF D, E
  <2>. QED BY <2>1
<1>6. BitsOn(t, h, E)
  <2>1. ASSUME NEW x \in D, NEW y \in D PROVE h[x][y] = f[x][y]
    BY <1>1, <1>2 DEF BitsOn
  <2>. HIDE DEF D, E, h
  <2>. QED BY <1>5, <2>1 DEF BitsOn
<1>7. ASSUME NEW g, BitsOn(t, g, E) PROVE g = h
  <2>1. [x \in D |-> [y \in D |-> g[x][y]]] = f
    <3>1. BitsOn(t, [x \in D |-> [y \in D |-> g[x][y]]], D)
      <4>. HIDE DEF h, E
      <4>. QED BY <1>2, <1>7, BitsRestrict
    <3>. HIDE DEF D
    <3>. QED BY <1>1, <3>1
  <2>2. ASSUME NEW x \in D, NEW y \in D PROVE g[x][y] = f[x][y]
    <3>. HIDE DEF D
    <3>. QED BY <2>1
  <2>3. [x \in E |-> [y \in E |-> BitsAt(t, g, x, y)]] = h
    <3>. HIDE DEF D, E, h
    <3>. QED BY <1>5, <2>2
  <2>. HIDE DEF h, E
  <2>. QED BY <1>7, <2>3 DEF BitsOn
<1>. HIDE DEF h
<1>. QED BY <1>4, <1>6, <1>7 DEF Defined, E

LEMMA BitsDefined == ASSUME NEW t \in Table PROVE \A n \in Nat : Defined(t, n)
<1>. DEFINE Reached == {n \in Nat : Defined(t, n)}
<1>1. 0 \in Reached
  BY BitsDefined0
<1>2. \A n \in Reached : n + 1 \in Reached
  BY BitsDefinedNext
<1>3. Reached = Nat
  <2>1. Reached \in SUBSET Nat
    OBVIOUS
  <2>. HIDE DEF Reached
  <2>. QED BY <1>1, <1>2, <2>1, Induction
<1>. QED BY <1>3

\* The functions on the smaller sets are one function on all integers.
LEMMA BitsExist == ASSUME NEW t \in Table PROVE \E f : BitsOn(t, f, Int)
<1>. DEFINE Size(x) == IF x >= 0 THEN x ELSE -x
            N(x, y) == Size(x) + Size(y)
            At(n) == CHOOSE f : BitsOn(t, f, Around(n)) /\ \A g : BitsOn(t, g, Around(n)) => g = f
            F == [x \in Int |-> [y \in Int |-> At(N(x, y))[x][y]]]
<1>1. \A n \in Nat : BitsOn(t, At(n), Around(n)) /\ \A g : BitsOn(t, g, Around(n)) => g = At(n)
  BY BitsDefined DEF Defined
<1>2. ASSUME NEW m \in Nat, NEW n \in Nat, m <= n, NEW x \in Around(m), NEW y \in Around(m)
      PROVE  At(m)[x][y] = At(n)[x][y]
  <2>1. Around(m) \subseteq Around(n) /\ Around(n) \subseteq Int
    BY <1>2, Halves
  <2>2. BitsOn(t, At(n), Around(n))
    BY <1>1
  <2>. HIDE DEF At
  <2>3. BitsOn(t, [u \in Around(m) |-> [v \in Around(m) |-> At(n)[u][v]]], Around(m))
    BY <2>1, <2>2, BitsRestrict
  <2>4. [u \in Around(m) |-> [v \in Around(m) |-> At(n)[u][v]]] = At(m)
    BY <1>1, <2>3
  <2>. QED BY <2>4
<1>3. ASSUME NEW x \in Int, NEW y \in Int
      PROVE  /\ N(x, y) \in Nat /\ x \in Around(N(x, y)) /\ y \in Around(N(x, y))
             /\ x \div 2 \in Int /\ y \div 2 \in Int
             /\ N(x \div 2, y \div 2) \in Nat /\ N(x \div 2, y \div 2) <= N(x, y)
             /\ x \div 2 \in Around(N(x \div 2, y \div 2))
             /\ y \div 2 \in Around(N(x \div 2, y \div 2))
  <2>1. \A u \in Int : /\ Size(u) \in Nat /\ u \div 2 \in Int
                       /\ Size(u \div 2) \in Nat /\ Size(u \div 2) <= Size(u)
                       /\ -Size(u) <= u /\ u <= Size(u)
    <3>1. \A u \in Int : Size(u) \in Nat /\ -Size(u) <= u /\ u <= Size(u)
      OBVIOUS
    <3>2. ASSUME NEW u \in Int
          PROVE  /\ u \div 2 \in Int
                 /\ u >= 0 => u \div 2 >= 0 /\ u \div 2 <= u
                 /\ u < 0 => u \div 2 < 0 /\ -(u \div 2) <= -u
      <4>1. u \div 2 \in Int
        OBVIOUS
      <4>2. u >= 0 => u \div 2 >= 0 /\ u \div 2 <= u
        OBVIOUS
      <4>3. u < 0 => u \div 2 < 0
        OBVIOUS
      <4>4. u < 0 => -(u \div 2) <= -u
        OBVIOUS
      <4>. QED BY <4>1, <4>2, <4>3, <4>4
    <3>3. ASSUME NEW u \in Int PROVE Size(u \div 2) <= Size(u)
      BY <3>2
    <3>. QED BY <3>1, <3>2, <3>3
  <2>. HIDE DEF Size
  <2>2. ASSUME NEW u \in Int, NEW v \in Int
        PROVE  N(u, v) \in Nat /\ u \in Around(N(u, v)) /\ v \in Around(N(u, v))
    <3>. DEFINE p == Size(u)
                q == Size(v)
    <3>1. p \in Nat /\ q \in Nat /\ -p <= u /\ u <= p /\ -q <= v /\ v <= q
      BY <2>1
    <3>2. N(u, v) = p + q
      OBVIOUS
    <3>. HIDE DEF p, q, N
    <3>3. p + q \in Nat
      BY <3>1
    <3>. QED BY <3>1, <3>2, <3>3, BothAround
  <2>3. N(x \div 2, y \div 2) <= N(x, y)
    BY <2>1
  <2>. HIDE DEF N
  <2>. QED BY <2>1, <2>2, <2>3
<1>4. ASSUME NEW x \in Int, NEW y \in Int PROVE F[x][y] = BitsAt(t, F, x, y)
  <2>. DEFINE n == N(x, y)
             m == N(x \div 2, y \div 2)
  <2>. HIDE DEF N, At
  <2>1. F[x][y] = At(n)[x][y]
    OBVIOUS
  <2>2. F[x \div 2][y \div 2] = At(m)[x \div 2][y \div 2]
    BY <1>3
  <2>n. /\ m \in Nat /\ n \in Nat /\ m <= n /\ x \in Around(n) /\ y \in Around(n)
        /\ x \div 2 \in Around(m) /\ y \div 2 \in Around(m)
    BY <1>3
  <2>3. At(m)[x \div 2][y \div 2] = At(n)[x \div 2][y \div 2]
    <3>. HIDE DEF n, m
    <3>. QED BY <1>2, <2>n
  <2>4. At(n)[x][y] = BitsAt(t, At(n), x, y)
    <3>. HIDE DEF n, m
    <3>1. BitsOn(t, At(n), Around(n)) BY <1>1, <2>n
    <3>2. At(n) = [u \in Around(n) |-> [v \in Around(n) |-> BitsAt(t, At(n), u, v)]]
      BY <3>1 DEF BitsOn
    <3>. QED BY <2>n, <3>2
  <2>. HIDE DEF F, n, m
  <2>. QED BY <2>1, <2>2, <2>3, <2>4 DEF BitsAt
<1>5. F = [x \in Int |-> [y \in Int |-> F[x][y]]]
  <2>. HIDE DEF N, At
  <2>. QED OBVIOUS
<1>. HIDE DEF F
<1>6. BitsOn(t, F, Int)
  BY <1>4, <1>5 DEF BitsOn
<1>. QED BY <1>6

LEMMA BitOpType ==
  ASSUME NEW t \in Table, NEW a \in Int, NEW b \in Int
  PROVE  BitOp(t, a, b) \in Int
<1>. DEFINE f == CHOOSE g : BitsOn(t, g, Int)
<1>1. BitOp(t, a, b) = f[a][b]
  BY DEF BitOp, BitsOn, BitsAt
<1>2. BitsOn(t, f, Int)
  BY BitsExist
<1>3. PICK n \in Nat : a \in Around(n) /\ b \in Around(n)
  <2>1. \E n \in Nat : -n <= a /\ a <= n /\ -n <= b /\ b <= n
    <3>. DEFINE Size(x) == IF x >= 0 THEN x ELSE -x
    <3>. WITNESS Size(a) + Size(b) \in Nat
    <3>. QED OBVIOUS
  <2>. QED BY <2>1 DEF Around
<1>. HIDE DEF f
<1>4. BitsOn(t, [x \in Around(n) |-> [y \in Around(n) |-> f[x][y]]], Around(n))
  <2>1. Around(n) \subseteq Int BY Halves
  <2>. QED BY <1>2, <2>1, BitsRestrict
<1>5. [x \in Around(n) |-> [y \in Around(n) |-> f[x][y]]] \in [Around(n) -> [Around(n) -> Int]]
  BY <1>4, BitsDefined DEF Defined
<1>. QED BY <1>1, <1>3, <1>5

LEMMA TablesType == {OrTable, AndTable, XorTable} \subseteq Table
<1>1. OrTable \in Table BY DEF OrTable, Table
<1>2. AndTable \in Table
  <2>1. \A x, y \in 0 .. 1 : x * y \in 0 .. 1 OBVIOUS
  <2>. QED BY <2>1 DEF AndTable, Table
<1>3. XorTable \in Table BY DEF XorTable, Table
<1>. QED BY <1>1, <1>2, <1>3

\* Every bit of the result is what the table says of the two bits in its place:
\* the operations are Python's, on numbers of any length and either sign.
THEOREM BitOpIsBitwise ==
  ASSUME NEW t \in Table, NEW a \in Int, NEW b \in Int
  PROVE  /\ BitOp(t, a, b) % 2 = t[a % 2][b % 2]
         /\ BitOp(t, a, b) \div 2 = BitOp(t, a \div 2, b \div 2)
<1>. DEFINE f == CHOOSE g : BitsOn(t, g, Int)
<1>1. \A x, y \in Int : BitOp(t, x, y) = f[x][y]
  BY DEF BitOp, BitsOn, BitsAt
<1>2. BitsOn(t, f, Int)
  BY BitsExist
<1>. HIDE DEF f
<1>3. /\ a \div 2 \in Int /\ b \div 2 \in Int /\ t[a % 2][b % 2] \in 0 .. 1
      /\ f[a \div 2][b \div 2] \in Int
  <2>1. a \div 2 \in Int /\ b \div 2 \in Int /\ a % 2 \in 0 .. 1 /\ b % 2 \in 0 .. 1
    OBVIOUS
  <2>. QED BY <1>1, <2>1, BitOpType DEF Table
<1>4. f[a][b] = BitsAt(t, f, a, b)
  BY <1>2 DEF BitsOn
<1>5. CASE a \in {0, -1} /\ b \in {0, -1}
  <2>1. a \div 2 = a /\ b \div 2 = b
    BY <1>5
  <2>2. f[a][b] = -t[a % 2][b % 2]
    BY <1>4, <1>5 DEF BitsAt
  <2>3. f[a][b] % 2 = t[a % 2][b % 2] /\ f[a][b] \div 2 = f[a][b]
    BY <1>3, <2>2
  <2>. QED BY <1>1, <2>1, <2>3
<1>6. CASE ~ (a \in {0, -1} /\ b \in {0, -1})
  <2>1. f[a][b] = t[a % 2][b % 2] + 2 * f[a \div 2][b \div 2]
    BY <1>4, <1>6 DEF BitsAt
  <2>2. f[a][b] % 2 = t[a % 2][b % 2] /\ f[a][b] \div 2 = f[a \div 2][b \div 2]
    BY <1>3, <2>1
  <2>. QED BY <1>1, <1>3, <2>2
<1>. QED BY <1>5, <1>6

-----------------------------------------------------------------------------
(* Arithmetic.                                                             *)

LEMMA DwordModType ==
  DwordMod \in Nat \ {0} /\ DwordMod % 2 = 0 /\ DwordMax \in Nat /\ DwordBytes \in 1 .. 4
  BY DwordBytesAssumption DEF DwordMod, DwordMax, Pow256

LEMMA PowerType == ASSUME NEW n \in 0 .. 31 PROVE 2 ^ n \in Nat \ {0}
<1>1. /\ 2 ^ 0 \in Nat \ {0} /\ 2 ^ 1 \in Nat \ {0} /\ 2 ^ 2 \in Nat \ {0} /\ 2 ^ 3 \in Nat \ {0}
      /\ 2 ^ 4 \in Nat \ {0} /\ 2 ^ 5 \in Nat \ {0} /\ 2 ^ 6 \in Nat \ {0} /\ 2 ^ 7 \in Nat \ {0}
  BY SMT
<1>2. /\ 2 ^ 8 \in Nat \ {0} /\ 2 ^ 9 \in Nat \ {0} /\ 2 ^ 10 \in Nat \ {0} /\ 2 ^ 11 \in Nat \ {0}
      /\ 2 ^ 12 \in Nat \ {0} /\ 2 ^ 13 \in Nat \ {0} /\ 2 ^ 14 \in Nat \ {0} /\ 2 ^ 15 \in Nat \ {0}
  BY SMT
<1>3. /\ 2 ^ 16 \in Nat \ {0} /\ 2 ^ 17 \in Nat \ {0} /\ 2 ^ 18 \in Nat \ {0} /\ 2 ^ 19 \in Nat \ {0}
      /\ 2 ^ 20 \in Nat \ {0} /\ 2 ^ 21 \in Nat \ {0} /\ 2 ^ 22 \in Nat \ {0} /\ 2 ^ 23 \in Nat \ {0}
  BY SMT
<1>4. /\ 2 ^ 24 \in Nat \ {0} /\ 2 ^ 25 \in Nat \ {0} /\ 2 ^ 26 \in Nat \ {0} /\ 2 ^ 27 \in Nat \ {0}
      /\ 2 ^ 28 \in Nat \ {0} /\ 2 ^ 29 \in Nat \ {0} /\ 2 ^ 30 \in Nat \ {0} /\ 2 ^ 31 \in Nat \ {0}
  BY SMT
<1>5. CASE n \in 0 .. 7
  <2>1. \/ n = 0 \/ n = 1 \/ n = 2 \/ n = 3
        \/ n = 4 \/ n = 5 \/ n = 6 \/ n = 7
    BY <1>5
  <2>. QED BY <1>1, <2>1, Zenon
<1>6. CASE n \in 8 .. 15
  <2>1. \/ n = 8 \/ n = 9 \/ n = 10 \/ n = 11
        \/ n = 12 \/ n = 13 \/ n = 14 \/ n = 15
    BY <1>6
  <2>. QED BY <1>2, <2>1, Zenon
<1>7. CASE n \in 16 .. 23
  <2>1. \/ n = 16 \/ n = 17 \/ n = 18 \/ n = 19
        \/ n = 20 \/ n = 21 \/ n = 22 \/ n = 23
    BY <1>7
  <2>. QED BY <1>3, <2>1, Zenon
<1>8. CASE n \in 24 .. 31
  <2>1. \/ n = 24 \/ n = 25 \/ n = 26 \/ n = 27
        \/ n = 28 \/ n = 29 \/ n = 30 \/ n = 31
    BY <1>8
  <2>. QED BY <1>4, <2>1, Zenon
<1>. QED BY <1>5, <1>6, <1>7, <1>8

LEMMA ShiftType ==
  ASSUME NEW a \in Int, NEW n \in 0 .. 31
  PROVE  ShiftLeft(a, n) \in Int /\ ShiftRight(a, n) \in Int
<1>1. ShiftLeft(a, n) \in Int
  <2>1. 2 ^ n \in Int /\ a % DwordMod \in Int
    BY PowerType, DwordModType
  <2>2. (a % DwordMod) * 2 ^ n \in Int
    BY <2>1
  <2>3. ((a % DwordMod) * 2 ^ n) % DwordMod \in Int
    BY <2>2, DwordModType
  <2>. QED BY <2>3 DEF ShiftLeft
<1>2. ShiftRight(a, n) \in Int
  <2>1. n \div 2 \in 0 .. 31 /\ n - (n \div 2) \in 0 .. 31
    OBVIOUS
  <2>2. 2 ^ (n \div 2) \in Nat \ {0} /\ 2 ^ (n - (n \div 2)) \in Nat \ {0}
    BY <2>1, PowerType
  <2>3. \A c \in Int, d \in Nat \ {0} : c \div d \in Int
    OBVIOUS
  <2>. QED BY <2>2, <2>3 DEF ShiftRight
<1>. QED BY <1>1, <1>2

LEMMA FloorDivType ==
  ASSUME NEW a \in Int, NEW b \in Int, b # 0
  PROVE  FloorDiv(a, b) \in Int
  BY DEF FloorDiv

LEMMA AluType ==
  ASSUME NEW op \in 16 .. 26, NEW a \in Int, NEW b \in Int, op \in {19, 20} => b # 0
  PROVE  AluResult(op, a, b) \in Int
<1>1. CASE op \in {16, 17, 18}
  <2>1. \A c \in Int : c % DwordMod \in Int BY DwordModType
  <2>. QED BY <1>1, <2>1 DEF AluResult
<1>2. CASE op \in {19, 20}
  <2>1. FloorDiv(a, b) \in Int BY <1>2, FloorDivType
  <2>2. b * FloorDiv(a, b) \in Int BY <2>1
  <2>. QED BY <1>2, <2>1, <2>2 DEF AluResult
<1>3. CASE op \in {21, 22, 23, 24}
  <2>1. /\ BitOp(OrTable, a, b) \in Int /\ BitOp(AndTable, a, b) \in Int
        /\ BitOp(XorTable, a, b) \in Int /\ BitOp(XorTable, a, DwordMax) \in Int
    BY BitOpType, TablesType, DwordModType
  <2>. QED BY <1>3, <2>1 DEF AluResult
<1>4. CASE op \in {25, 26}
  <2>1. b % 32 \in 0 .. 31 OBVIOUS
  <2>2. ShiftLeft(a, b % 32) \in Int /\ ShiftRight(a, b % 32) \in Int BY <2>1, ShiftType
  <2>. QED BY <1>4, <2>2 DEF AluResult
<1>. QED BY <1>1, <1>2, <1>3, <1>4

-----------------------------------------------------------------------------
(* The instructions.                                                       *)

Registers == [Reg -> Int]
Load == [id : Cregs, v : Int]

\* What any instruction does to the CPU: it goes back to the interrupt check,
\* leaves the control registers alone, and raises a fault or puts a load off at most.
Executed ==
  /\ phase = "exec" /\ phase' = "fetch"
  /\ mem' \in Ram /\ r' \in Registers /\ fr' \in Nat /\ cr' = cr /\ terminated' \in BOOLEAN
  /\ \/ UNCHANGED <<interrupt_queue, defered_queue>>
     \/ (\E i \in Faults : Interrupt(i)) /\ UNCHANGED defered_queue
     \/ (\E l \in Load : defered_queue' = Append(defered_queue, l)) /\ UNCHANGED interrupt_queue

\* Whatever the opcode, its arguments are bytes of the RAM.
LEMMA Operands ==
  ASSUME CpuTypeOK, NEW ops, ops \subseteq Opcodes, Op(ops)
  PROVE  /\ phase = "exec" /\ phase' = "fetch" /\ mem[pc] \in ops
         /\ R \in Registers /\ pc \in Addr /\ pc + OpLength(mem[pc]) \in Addr
         /\ OpLength(mem[pc]) \in 0 .. 5
         /\ \A i \in 1 .. OpLength(mem[pc]) : Arg(i) \in Byte
<1>1. phase = "exec" /\ phase' = "fetch" /\ mem[pc] \in ops
  BY DEF Op
<1>2. OpLength(mem[pc]) \in 0 .. 5
  BY <1>1, DwordModType DEF OpLength, Opcodes
<1>3. pc \in Int
  BY DEF CpuTypeOK, Reg, pc
<1>4. pc \in Addr /\ pc + OpLength(mem[pc]) \in Addr
  BY <1>2, <1>3, RamSizeAssumption DEF Op, InRam, ManyInRam, Addr
<1>5. ASSUME NEW i \in 1 .. OpLength(mem[pc]) PROVE Arg(i) \in Byte
  <2>1. pc + i \in Addr
    BY <1>2, <1>3, <1>4, <1>5, RamSizeAssumption DEF Addr
  <2>. QED BY <2>1 DEF Arg, CpuTypeOK, Ram
<1>6. R \in Registers
  <2>1. R = [r EXCEPT ![15] = pc + 1 + OpLength(mem[pc])]
    BY DEF R, pc
  <2>2. pc + 1 + OpLength(mem[pc]) \in Int
    BY <1>2, <1>3
  <2>. QED BY <2>1, <2>2 DEF CpuTypeOK, Registers
<1>. QED BY <1>1, <1>2, <1>4, <1>5, <1>6

LEMMA OperandRegisters ==
  ASSUME CpuTypeOK, NEW ops, ops \subseteq Opcodes, Op(ops)
  PROVE  /\ OpLength(mem[pc]) >= 1 => X \in Reg
         /\ OpLength(mem[pc]) >= 2 => Y \in Reg
<1>1. \A b \in Byte : b % 16 \in 0 .. 15
  BY DEF Byte
<1>2. OpLength(mem[pc]) \in 0 .. 5
  BY Operands
<1>3. OpLength(mem[pc]) >= 1 => Arg(1) \in Byte
  BY <1>2, Operands
<1>4. OpLength(mem[pc]) >= 2 => Arg(2) \in Byte
  BY <1>2, Operands
<1>. QED BY <1>1, <1>3, <1>4 DEF X, Y, Reg

\* The registers after an assignment.
LEMMA SetType ==
  ASSUME NEW q \in Registers, NEW i \in Reg, NEW v \in Int
  PROVE  [q EXCEPT ![i] = v] \in Registers
  BY DEF Registers

LEMMA OnlyRegsKeeps ==
  ASSUME CpuTypeOK, phase = "exec", phase' = "fetch", OnlyRegs, r' \in Registers
  PROVE  Executed
  BY DEF OnlyRegs, Executed, CpuTypeOK

LEMMA RaisesKeeps ==
  ASSUME CpuTypeOK, phase = "exec", phase' = "fetch", R \in Registers,
         NEW i \in Faults, RaisesOnly(i)
  PROVE  Executed
  BY DEF RaisesOnly, Advance, Executed, CpuTypeOK

LEMMA SetKeeps ==
  ASSUME CpuTypeOK, phase = "exec", phase' = "fetch", R \in Registers,
         NEW i \in Reg, NEW v \in Int, Set(i, v), OnlyRegs
  PROVE  Executed
  BY SetType, OnlyRegsKeeps DEF Set

\* The instructions with one operand, and with two.
LEMMA Unary ==
  ASSUME CpuTypeOK, NEW ops, ops \subseteq {24, 48, 49, 65, 67} \cup {1, 240, 241}, Op(ops)
  PROVE  /\ phase = "exec" /\ phase' = "fetch" /\ mem[pc] \in ops /\ R \in Registers
         /\ X \in Reg
<1>1. ops \subseteq Opcodes
  BY DEF Opcodes
<1>2. mem[pc] \in ops /\ OpLength(mem[pc]) \in 0 .. 5
  BY <1>1, Operands
<1>3. OpLength(mem[pc]) >= 1
  BY <1>2, DwordModType DEF OpLength
<1>. QED BY <1>1, <1>3, Operands, OperandRegisters

LEMMA Binary ==
  ASSUME CpuTypeOK, NEW ops, Op(ops),
         ops \subseteq {0, 2, 3, 4, 5, 32, 242, 243} \cup ((16 .. 26) \ {24})
  PROVE  /\ phase = "exec" /\ phase' = "fetch" /\ mem[pc] \in ops /\ R \in Registers
         /\ X \in Reg /\ Y \in Reg /\ Arg(2) \in Byte
<1>1. ops \subseteq Opcodes
  BY DEF Opcodes
<1>2. mem[pc] \in ops
  BY <1>1, Operands
<1>3. OpLength(mem[pc]) = 2
  BY <1>2 DEF OpLength
<1>4. phase = "exec" /\ phase' = "fetch" /\ R \in Registers
  BY <1>1, Operands
<1>5. X \in Reg /\ Y \in Reg
  <2>1. OpLength(mem[pc]) >= 1 /\ OpLength(mem[pc]) >= 2 BY <1>3
  <2>. QED BY <1>1, <2>1, OperandRegisters
<1>6. Arg(2) \in Byte
  <2>1. 2 \in 1 .. OpLength(mem[pc]) BY <1>3
  <2>. QED BY <1>1, <2>1, Operands
<1>. QED BY <1>2, <1>4, <1>5, <1>6

LEMMA RValue == ASSUME R \in Registers, NEW i \in Reg PROVE R[i] \in Int
  BY DEF Registers

LEMMA FetchType ==
  ASSUME CpuTypeOK, NEW a \in Int, InRam(a, DwordBytes)
  PROVE  FetchDword(mem, a) \in Nat
  BY FetchDwordType, DwordModType DEF CpuTypeOK, Dword

LEMMA WordType ==
  ASSUME CpuTypeOK, NEW a \in Addr, a + 1 \in Addr
  PROVE  DwAt(a) \in Int
<1>1. mem[a] \in Byte /\ mem[a + 1] \in Byte
  BY DEF CpuTypeOK, Ram
<1>2. \A u, v \in Byte : u + 256 * v \in Int
  BY DEF Byte
<1>. QED BY <1>1, <1>2 DEF DwAt

LEMMA MovKeeps == ASSUME CpuTypeOK, VMOV \/ VSET PROVE Executed
<1>1. CASE VMOV
  <2>1. Op({0}) /\ Set(X, R[Y]) /\ OnlyRegs
    BY <1>1 DEF VMOV
  <2>2. phase = "exec" /\ phase' = "fetch" /\ R \in Registers /\ X \in Reg /\ Y \in Reg
    BY <2>1, Binary
  <2>. QED BY <2>1, <2>2, RValue, SetKeeps
<1>2. CASE VSET
  <2>1. Op({1}) /\ {1} \subseteq Opcodes /\ Set(X, FetchDword(mem, pc + 2)) /\ OnlyRegs
    BY <1>2 DEF VSET, Opcodes
  <2>2. /\ phase = "exec" /\ phase' = "fetch" /\ mem[pc] = 1 /\ R \in Registers /\ X \in Reg
        /\ pc \in Addr /\ pc + OpLength(mem[pc]) \in Addr
    BY <2>1, Unary, Operands
  <2>3. OpLength(mem[pc]) = 1 + DwordBytes
    BY <2>2 DEF OpLength
  <2>4. pc + 2 \in Int /\ InRam(pc + 2, DwordBytes)
    BY <2>2, <2>3, DwordModType, RamSizeAssumption DEF InRam, Addr
  <2>. QED BY <2>1, <2>2, <2>4, FetchType, SetKeeps
<1>. QED BY <1>1, <1>2

LEMMA AluKeeps == ASSUME CpuTypeOK, Alu \/ DivideByZero PROVE Executed
<1>1. CASE Alu
  <2>. DEFINE b == IF mem[pc] = 24 THEN 0 ELSE R[Y]
  <2>1. /\ Op(16 .. 26) /\ 16 .. 26 \subseteq Opcodes
        /\ mem[pc] \in {19, 20} => R[Y] # 0
        /\ Set(X, AluResult(mem[pc], R[X], b)) /\ OnlyRegs
    BY <1>1 DEF Alu, Opcodes
  <2>2. /\ phase = "exec" /\ phase' = "fetch" /\ mem[pc] \in 16 .. 26 /\ R \in Registers
    BY <2>1, Operands
  <2>3. X \in Reg /\ (mem[pc] # 24 => Y \in Reg)
    <3>1. OpLength(mem[pc]) >= 1 /\ (mem[pc] # 24 => OpLength(mem[pc]) >= 2)
      BY <2>2 DEF OpLength
    <3>. QED BY <2>1, <3>1, OperandRegisters
  <2>4. R[X] \in Int /\ b \in Int /\ (mem[pc] \in {19, 20} => b # 0)
    BY <2>1, <2>2, <2>3, RValue
  <2>. HIDE DEF b
  <2>5. AluResult(mem[pc], R[X], b) \in Int
    BY <2>2, <2>4, AluType
  <2>. QED BY <2>1, <2>2, <2>3, <2>5, SetKeeps
<1>2. CASE DivideByZero
  <2>1. Op({19, 20}) /\ RaisesOnly(INT_DIVISION_ERROR)
    BY <1>2 DEF DivideByZero
  <2>2. phase = "exec" /\ phase' = "fetch" /\ R \in Registers
    BY <2>1, Binary
  <2>. QED BY <2>1, <2>2, RaisesKeeps DEF Faults
<1>. QED BY <1>1, <1>2

LEMMA LoadKeeps == ASSUME CpuTypeOK, VLD \/ VLDB PROVE Executed
<1>1. PICK ops \in {{2}, {4}} : Op(ops)
  BY DEF VLD, VLDB
<1>2. phase = "exec" /\ phase' = "fetch" /\ R \in Registers /\ X \in Reg /\ R[Y] \in Int
  BY <1>1, Binary, RValue
<1>3. CASE RaisesOnly(INT_MEMORY_ERROR)
  BY <1>2, <1>3, RaisesKeeps DEF Faults
<1>4. CASE InRam(R[Y], DwordBytes) /\ Set(X, FetchDword(mem, R[Y])) /\ OnlyRegs
  BY <1>2, <1>4, FetchType, SetKeeps
<1>5. CASE InRam(R[Y], 1) /\ Set(X, FetchByte(mem, R[Y])) /\ OnlyRegs
  <2>1. FetchByte(mem, R[Y]) \in Int
    <3>1. R[Y] \in Addr BY <1>2, <1>5, RamSizeAssumption DEF InRam, Addr
    <3>2. mem[R[Y]] \in Byte BY <3>1 DEF CpuTypeOK, Ram
    <3>. QED BY <3>2 DEF FetchByte, Byte
  <2>. QED BY <1>2, <1>5, <2>1, SetKeeps
<1>. QED BY <1>3, <1>4, <1>5 DEF VLD, VLDB

LEMMA StoresKeep ==
  ASSUME CpuTypeOK, phase = "exec", phase' = "fetch", R \in Registers,
         NEW m \in Ram, StoresTo(m)
  PROVE  Executed
  BY DEF StoresTo, Advance, Executed, CpuTypeOK

LEMMA StoreKeeps == ASSUME CpuTypeOK, VST \/ VSTB PROVE Executed
<1>1. PICK ops \in {{3}, {5}} : Op(ops)
  BY DEF VST, VSTB
<1>2. /\ phase = "exec" /\ phase' = "fetch" /\ R \in Registers
      /\ R[X] \in Int /\ R[Y] \in Int /\ mem \in Ram
  BY <1>1, Binary, RValue DEF CpuTypeOK
<1>3. CASE RaisesOnly(INT_MEMORY_ERROR)
  BY <1>2, <1>3, RaisesKeeps DEF Faults
<1>4. CASE InRam(R[X], DwordBytes) /\ StoresTo(StoreDword(mem, R[X], R[Y]))
  BY <1>2, <1>4, StoreDwordType, StoresKeep
<1>5. CASE InRam(R[X], 1) /\ StoresTo(StoreByte(mem, R[X], R[Y] % 256))
  <2>1. R[Y] % 256 \in Byte
    BY <1>2 DEF Byte
  <2>2. StoreByte(mem, R[X], R[Y] % 256) \in Ram
    BY <1>2, <2>1 DEF StoreByte, Ram
  <2>. QED BY <1>2, <1>5, <2>2, StoresKeep
<1>. QED BY <1>3, <1>4, <1>5 DEF VST, VSTB

LEMMA CompareKeeps == ASSUME CpuTypeOK, VCMP PROVE Executed
<1>1. Op({32})
  BY DEF VCMP
<1>2. phase = "exec" /\ phase' = "fetch" /\ R \in Registers
  BY <1>1, Binary
<1>3. fr' \in Nat
  <2>1. \A n \in Nat, z, c \in 0 .. 2 : ((n - (n % 4)) + z) + c \in Nat
    OBVIOUS
  <2>2. fr \in Nat
    BY DEF CpuTypeOK
  <2>. QED BY <2>1, <2>2 DEF VCMP
<1>. QED BY <1>2, <1>3 DEF VCMP, Advance, Executed, CpuTypeOK

\* The RAM's size is the modulus of every jump.
LEMMA JumpType == ASSUME NEW a \in Int PROVE a % RamSize \in Int
  BY RamSizeAssumption

LEMMA JumpKeeps == ASSUME CpuTypeOK, JumpNear \/ VJMPR PROVE Executed
<1>1. CASE JumpNear
  <2>. DEFINE ops == (33 .. 38) \cup {64}
  <2>1. Op(ops) /\ ops \subseteq Opcodes /\ OnlyRegs /\ (Jump(Near) \/ Advance)
    BY <1>1 DEF JumpNear, Opcodes
  <2>. HIDE DEF ops
  <2>2. /\ phase = "exec" /\ phase' = "fetch" /\ mem[pc] \in ops /\ R \in Registers
        /\ pc \in Addr /\ pc + OpLength(mem[pc]) \in Addr
    BY <2>1, Operands
  <2>3. OpLength(mem[pc]) = 2
    BY <2>2 DEF OpLength, ops
  <2>4. Near \in Int
    <3>1. pc + 1 \in Addr /\ (pc + 1) + 1 \in Addr
      BY <2>2, <2>3, RamSizeAssumption DEF Addr
    <3>2. WordArg \in Int
      BY <3>1, WordType DEF WordArg
    <3>3. R[15] \in Int
      BY <2>2 DEF Registers, Reg
    <3>. QED BY <3>2, <3>3 DEF Near
  <2>5. CASE Jump(Near)
    <3>1. 15 \in Reg BY DEF Reg
    <3>. QED BY <2>1, <2>2, <2>4, <2>5, <3>1, JumpType, SetKeeps DEF Jump
  <2>6. CASE Advance
    BY <2>1, <2>2, <2>6, OnlyRegsKeeps DEF Advance
  <2>. QED BY <2>1, <2>5, <2>6
<1>2. CASE VJMPR
  <2>1. Op({65}) /\ Jump(R[X]) /\ OnlyRegs
    BY <1>2 DEF VJMPR
  <2>2. phase = "exec" /\ phase' = "fetch" /\ R \in Registers /\ R[X] \in Int
    BY <2>1, Unary, RValue
  <2>3. 15 \in Reg BY DEF Reg
  <2>. QED BY <2>1, <2>2, <2>3, JumpType, SetKeeps DEF Jump
<1>. QED BY <1>1, <1>2

LEMMA PushedKeeps ==
  ASSUME CpuTypeOK, phase = "exec", phase' = "fetch", R \in Registers,
         NEW v \in Int, NEW target \in Int, PushThen(v, target)
  PROVE  Executed
<1>1. R[14] - DwordBytes \in Int /\ 14 \in Reg /\ 15 \in Reg
  BY DwordModType DEF Registers, Reg
<1>2. mem' \in Ram
  BY <1>1, StoreDwordType DEF PushThen, Pushed, CpuTypeOK
<1>3. r' \in Registers
  BY <1>1 DEF PushThen, Registers
<1>. QED BY <1>2, <1>3 DEF PushThen, Executed, CpuTypeOK

LEMMA PushKeeps == ASSUME CpuTypeOK, VPUSH \/ VCALL \/ VCALLR PROVE Executed
<1>1. ASSUME R \in Registers, X \in Reg
      PROVE  (IF X = 14 THEN R[14] - DwordBytes ELSE R[X]) \in Int /\ R[15] \in Int
  BY <1>1, DwordModType DEF Registers, Reg
<1>2. CASE VPUSH
  <2>1. Op({48}) /\ PushThen(IF X = 14 THEN R[14] - DwordBytes ELSE R[X], R[15])
    BY <1>2 DEF VPUSH
  <2>2. phase = "exec" /\ phase' = "fetch" /\ R \in Registers /\ X \in Reg
    BY <2>1, Unary
  <2>. QED BY <1>1, <2>1, <2>2, PushedKeeps
<1>3. CASE VCALL
  <2>1. Op({66}) /\ {66} \subseteq Opcodes /\ PushThen(R[15], Near % RamSize)
    BY <1>3 DEF VCALL, Opcodes
  <2>2. /\ phase = "exec" /\ phase' = "fetch" /\ R \in Registers /\ mem[pc] = 66
        /\ pc \in Addr /\ pc + OpLength(mem[pc]) \in Addr
    BY <2>1, Operands
  <2>3. OpLength(mem[pc]) = 2
    BY <2>2 DEF OpLength
  <2>4. pc + 1 \in Addr /\ (pc + 1) + 1 \in Addr
    BY <2>2, <2>3, RamSizeAssumption DEF Addr
  <2>5. WordArg \in Int
    BY <2>4, WordType DEF WordArg
  <2>6. R[15] \in Int
    BY <2>2 DEF Registers, Reg
  <2>7. Near % RamSize \in Int
    BY <2>5, <2>6, JumpType DEF Near
  <2>. QED BY <2>1, <2>2, <2>6, <2>7, PushedKeeps
<1>4. CASE VCALLR
  <2>. DEFINE a == IF X = 14 THEN R[14] - DwordBytes ELSE R[X]
  <2>1. Op({67}) /\ PushThen(R[15], a % RamSize)
    BY <1>4 DEF VCALLR
  <2>2. phase = "exec" /\ phase' = "fetch" /\ R \in Registers /\ X \in Reg
    BY <2>1, Unary
  <2>3. a \in Int /\ R[15] \in Int
    BY <1>1, <2>2
  <2>. HIDE DEF a
  <2>4. a % RamSize \in Int
    BY <2>3, JumpType
  <2>. QED BY <2>1, <2>2, <2>3, <2>4, PushedKeeps
<1>. QED BY <1>2, <1>3, <1>4

LEMMA PopKeeps == ASSUME CpuTypeOK, VPOP \/ VRET PROVE Executed
<1>1. PICK i \in Reg : /\ PopInto(i) /\ phase = "exec" /\ phase' = "fetch" /\ R \in Registers
  <2>1. CASE VPOP
    <3>1. Op({49}) /\ PopInto(X) BY <2>1 DEF VPOP
    <3>2. phase = "exec" /\ phase' = "fetch" /\ R \in Registers /\ X \in Reg
      BY <3>1, Unary
    <3>. QED BY <3>1, <3>2
  <2>2. CASE VRET
    <3>1. Op({68}) /\ PopInto(15) /\ {68} \subseteq Opcodes BY <2>2 DEF VRET, Opcodes
    <3>2. phase = "exec" /\ phase' = "fetch" /\ R \in Registers
      BY <3>1, Operands
    <3>3. 15 \in Reg BY DEF Reg
    <3>. QED BY <3>1, <3>2, <3>3
  <2>. QED BY <2>1, <2>2
<1>2. CASE RaisesOnly(INT_MEMORY_ERROR)
  BY <1>1, <1>2, RaisesKeeps DEF Faults
<1>3. CASE InRam(R[14], DwordBytes) /\ OnlyRegs
  <2>. DEFINE v == FetchDword(mem, R[14])
             q == [R EXCEPT ![i] = v]
  <2>1. 14 \in Reg /\ R[14] \in Int
    BY <1>1 DEF Registers, Reg
  <2>2. v \in Int
    BY <1>3, <2>1, FetchType
  <2>. HIDE DEF v
  <2>3. q \in Registers /\ q[14] + DwordBytes \in Int
    BY <1>1, <2>1, <2>2, SetType, DwordModType DEF Registers
  <2>4. r' = [q EXCEPT ![14] = q[14] + DwordBytes]
    BY <1>1, <1>3 DEF PopInto, v
  <2>. HIDE DEF q
  <2>5. r' \in Registers
    BY <2>1, <2>3, <2>4, SetType
  <2>. QED BY <1>1, <1>3, <2>5, OnlyRegsKeeps
<1>. QED BY <1>1, <1>2, <1>3 DEF PopInto

LEMMA CregKeeps == ASSUME CpuTypeOK, UnknownCreg \/ VCRL \/ VCRS PROVE Executed
<1>1. CASE UnknownCreg
  <2>1. Op({240, 241}) /\ RaisesOnly(INT_GENERAL_ERROR)
    BY <1>1 DEF UnknownCreg
  <2>2. phase = "exec" /\ phase' = "fetch" /\ R \in Registers
    BY <2>1, Unary
  <2>. QED BY <2>1, <2>2, RaisesKeeps DEF Faults
<1>2. CASE VCRL
  <2>1. Op({240}) /\ CregArg \in Cregs
    BY <1>2 DEF VCRL
  <2>2. phase = "exec" /\ phase' = "fetch" /\ R \in Registers /\ R[X] \in Int
    BY <2>1, Unary, RValue
  <2>3. [id |-> CregArg, v |-> R[X]] \in Load
    BY <2>1, <2>2 DEF Load
  <2>. QED BY <1>2, <2>2, <2>3 DEF VCRL, Advance, Executed, CpuTypeOK
<1>3. CASE VCRS
  <2>1. Op({241}) /\ CregArg \in Cregs /\ Set(X, cr[CregArg]) /\ OnlyRegs
    BY <1>3 DEF VCRS
  <2>2. phase = "exec" /\ phase' = "fetch" /\ R \in Registers /\ X \in Reg
    BY <2>1, Unary
  <2>3. cr[CregArg] \in Int
    BY <2>1 DEF CpuTypeOK
  <2>. QED BY <2>1, <2>2, <2>3, SetKeeps
<1>. QED BY <1>1, <1>2, <1>3

\* VIRET, however much of the frame it finds.
LEMMA ReturnKeeps == ASSUME CpuTypeOK, VIRET PROVE Executed
<1>. DEFINE got == Restorable(R[14])
            at(j) == FetchDword(mem, FrameSlot(R[14], j))
<1>1. Op({244}) /\ {244} \subseteq Opcodes
  BY DEF VIRET, Opcodes
<1>2. phase = "exec" /\ phase' = "fetch" /\ R \in Registers
  BY <1>1, Operands
<1>3. R[14] \in Int
  BY <1>2 DEF Registers, Reg
<1>4. ASSUME NEW j \in got PROVE at(j) \in Nat
  <2>1. FrameSlot(R[14], j) \in Int /\ InRam(FrameSlot(R[14], j), DwordBytes)
    <3>1. j \in 0 .. 16 /\ InRam(FrameSlot(R[14], j), DwordBytes)
      BY DEF Restorable, Slots
    <3>2. (16 - j) * DwordBytes \in Int
      BY <3>1, DwordModType
    <3>. QED BY <1>3, <3>1, <3>2 DEF FrameSlot
  <2>. QED BY <2>1, FetchType
<1>5. /\ fr' = IF 16 \in got THEN at(16) ELSE fr
      /\ r' = [i \in Reg |-> IF i \in got THEN at(i) ELSE R[i]]
      /\ interrupt_queue' = interrupt_queue \/ Interrupt(INT_GENERAL_ERROR)
      /\ UNCHANGED <<mem, cr, defered_queue, terminated>>
  BY DEF VIRET
<1>. HIDE DEF got, at
<1>6. fr' \in Nat
  BY <1>4, <1>5 DEF CpuTypeOK
<1>7. r' \in Registers
  BY <1>2, <1>4, <1>5 DEF Registers
<1>. QED BY <1>2, <1>5, <1>6, <1>7 DEF Executed, CpuTypeOK, Faults

LEMMA StopKeeps == ASSUME CpuTypeOK, Stop PROVE Executed
<1>1. Op({254, 255}) /\ {254, 255} \subseteq Opcodes
  BY DEF Stop, Opcodes
<1>2. phase = "exec" /\ phase' = "fetch" /\ R \in Registers
  BY <1>1, Operands
<1>. QED BY <1>2 DEF Stop, Advance, Executed, CpuTypeOK

LEMMA FetchErrorKeeps == ASSUME CpuTypeOK, FetchOutsideRam \/ UnknownOpcode PROVE Executed
  BY DEF FetchOutsideRam, UnknownOpcode, FetchError, Executed, CpuTypeOK, Faults, Registers

LEMMA ExecuteKeeps == ASSUME CpuTypeOK, Execute PROVE Executed
  BY MovKeeps, AluKeeps, LoadKeeps, StoreKeeps, CompareKeeps, JumpKeeps, PushKeeps,
     PopKeeps, CregKeeps, ReturnKeeps, StopKeeps, FetchErrorKeeps DEF Execute

-----------------------------------------------------------------------------
(* The interrupt queue.                                                    *)

Interrupts == Faults \cup MASKABLE_INTS

\* pop(k) of a list: the elements behind position k move up.
LEMMA WithoutType ==
  ASSUME NEW S, NEW q \in Seq(S), NEW k \in 1 .. Len(q)
  PROVE  /\ WithoutPosition(q, k) \in Seq(S)
         /\ Len(WithoutPosition(q, k)) = Len(q) - 1
         /\ \A i \in 1 .. Len(q) - 1 :
              WithoutPosition(q, k)[i] = IF i < k THEN q[i] ELSE q[i + 1]
<1>. DEFINE a == SubSeq(q, 1, k - 1)
            b == SubSeq(q, k + 1, Len(q))
<1>0. Len(q) \in Nat /\ k \in Int /\ 1 <= k /\ k <= Len(q)
  BY LenProperties
<1>1. \A i \in 1 .. Len(q) : q[i] \in S
  BY ElementOfSeq
<1>2. /\ a \in Seq(S) /\ Len(a) = k - 1
      /\ \A i \in 1 .. k - 1 : a[i] = q[i]
  <2>1. \A i \in 1 .. k - 1 : q[i] \in S BY <1>0, <1>1
  <2>2. /\ a \in Seq(S) /\ Len(a) = IF 1 <= k - 1 THEN (k - 1) - 1 + 1 ELSE 0
        /\ \A i \in 1 .. (k - 1) - 1 + 1 : a[i] = q[1 + i - 1]
    <3>1. k - 1 \in Int /\ 1 \in Int BY <1>0
    <3>. QED BY <2>1, <3>1, SubSeqProperties
  <2>. HIDE DEF a
  <2>. QED BY <1>0, <2>2
<1>3. /\ b \in Seq(S) /\ Len(b) = Len(q) - k
      /\ \A i \in 1 .. Len(q) - k : b[i] = q[k + i]
  <2>1. \A i \in k + 1 .. Len(q) : q[i] \in S BY <1>0, <1>1
  <2>2. /\ b \in Seq(S) /\ Len(b) = IF k + 1 <= Len(q) THEN Len(q) - (k + 1) + 1 ELSE 0
        /\ \A i \in 1 .. Len(q) - (k + 1) + 1 : b[i] = q[(k + 1) + i - 1]
    <3>1. k + 1 \in Int /\ Len(q) \in Int BY <1>0
    <3>. QED BY <2>1, <3>1, SubSeqProperties
  <2>. HIDE DEF b
  <2>. QED BY <1>0, <2>2
<1>. HIDE DEF a, b
<1>4. /\ a \o b \in Seq(S) /\ Len(a \o b) = Len(a) + Len(b)
      /\ \A i \in 1 .. Len(a) + Len(b) : (a \o b)[i] = IF i <= Len(a) THEN a[i] ELSE b[i - Len(a)]
  BY <1>2, <1>3, ConcatProperties
<1>5. WithoutPosition(q, k) = a \o b
  BY DEF WithoutPosition, a, b
<1>6. ASSUME NEW i \in 1 .. Len(q) - 1
      PROVE  (a \o b)[i] = IF i < k THEN q[i] ELSE q[i + 1]
  <2>1. (a \o b)[i] = IF i <= k - 1 THEN a[i] ELSE b[i - (k - 1)]
    BY <1>0, <1>2, <1>3, <1>4
  <2>2. CASE i < k
    BY <1>0, <1>2, <2>1, <2>2
  <2>3. CASE ~ (i < k)
    <3>1. i - (k - 1) \in 1 .. Len(q) - k /\ k + (i - (k - 1)) = i + 1
      BY <1>0, <2>3
    <3>. QED BY <1>0, <1>3, <2>1, <2>3, <3>1
  <2>. QED BY <2>2, <2>3
<1>. QED BY <1>0, <1>2, <1>3, <1>4, <1>5, <1>6

FaultsIn(q) == {k \in DOMAIN q : q[k] \in Faults}

\* A fault that waits after one element is taken has waited before, elsewhere.
LEMMA FaultsWithout ==
  ASSUME NEW q \in Seq(Interrupts), NEW k \in 1 .. Len(q)
  PROVE  \E f \in [FaultsIn(WithoutPosition(q, k)) -> FaultsIn(q) \ {k}] :
           \A i, j \in FaultsIn(WithoutPosition(q, k)) : f[i] = f[j] => i = j
<1>. DEFINE w == WithoutPosition(q, k)
            f == [i \in FaultsIn(w) |-> IF i < k THEN i ELSE i + 1]
<1>1. /\ w \in Seq(Interrupts) /\ Len(w) = Len(q) - 1
      /\ \A i \in 1 .. Len(q) - 1 : w[i] = IF i < k THEN q[i] ELSE q[i + 1]
  BY WithoutType
<1>2. DOMAIN w = 1 .. Len(q) - 1 /\ DOMAIN q = 1 .. Len(q) /\ Len(q) \in Nat
  BY <1>1, LenProperties
<1>. HIDE DEF w
<1>3. \A i \in FaultsIn(w) : f[i] \in FaultsIn(q) \ {k} /\ i \in Int
  BY <1>1, <1>2 DEF FaultsIn
<1>4. \A i, j \in FaultsIn(w) : f[i] = f[j] => i = j
  BY <1>3
<1>5. f \in [FaultsIn(w) -> FaultsIn(q) \ {k}]
  BY <1>3
<1>. HIDE DEF f
<1>. QED BY <1>4, <1>5 DEF w

LEMMA FaultsAppend ==
  ASSUME NEW q \in Seq(Interrupts), NEW i \in Interrupts
  PROVE  /\ Append(q, i) \in Seq(Interrupts)
         /\ FaultsIn(Append(q, i)) = FaultsIn(q) \cup (IF i \in Faults THEN {Len(q) + 1} ELSE {})
<1>1. /\ Append(q, i) \in Seq(Interrupts) /\ Len(Append(q, i)) = Len(q) + 1
      /\ \A j \in 1 .. Len(q) : Append(q, i)[j] = q[j]
      /\ Append(q, i)[Len(q) + 1] = i
  BY AppendProperties
<1>2. /\ DOMAIN q = 1 .. Len(q) /\ Len(q) \in Nat /\ DOMAIN Append(q, i) = 1 .. Len(q) + 1
  BY <1>1, LenProperties
<1>. QED BY <1>1, <1>2 DEF FaultsIn

\* No two faults, and no three.
OneAtMost(S) == \A i, j \in S : i = j
TwoAtMost(S) == \A i, j, k \in S : i = j \/ j = k \/ i = k

LEMMA TwoAtMostCount ==
  ASSUME NEW q \in Seq(Interrupts), TwoAtMost(FaultsIn(q))
  PROVE  Cardinality(FaultsIn(q)) <= 2
<1>. DEFINE S == FaultsIn(q)
<1>1. CASE S = {}
  BY <1>1, FS_EmptySet
<1>2. CASE \E i \in S : S = {i}
  <2>1. PICK i : S = {i}
    BY <1>2
  <2>2. Cardinality({i}) = 1
    BY FS_Singleton
  <2>. QED BY <2>1, <2>2
<1>3. CASE \E i, j \in S : i # j
  <2>1. PICK i \in S, j \in S : i # j
    BY <1>3
  <2>2. S = {i} \cup {j}
    BY <2>1 DEF TwoAtMost
  <2>. HIDE DEF S
  <2>3. IsFiniteSet({i}) /\ Cardinality({i}) = 1
    BY FS_Singleton
  <2>4. Cardinality({i} \cup {j}) = IF j \in {i} THEN Cardinality({i}) ELSE Cardinality({i}) + 1
    BY <2>3, FS_AddElement
  <2>5. Cardinality({i} \cup {j}) = 2
    <3>1. j \notin {i}
      BY <2>1
    <3>2. Cardinality({i} \cup {j}) = Cardinality({i}) + 1
      BY <2>4, <3>1, Zenon
    <3>3. Cardinality({i} \cup {j}) = 1 + 1
      BY <2>3, <3>2, Zenon
    <3>4. 1 + 1 = 2
      OBVIOUS
    <3>. QED BY <3>3, <3>4, Zenon
  <2>6. Cardinality(S) = 2
    BY <2>2, <2>5, Zenon
  <2>. QED BY <2>6 DEF S
<1>. HIDE DEF S
<1>4. S = {} \/ (\E i \in S : S = {i}) \/ (\E i, j \in S : i # j)
  OBVIOUS
<1>. QED BY <1>1, <1>2, <1>3, <1>4 DEF S

-----------------------------------------------------------------------------
(* Saving a context.                                                       *)

LEMMA ContextType == ASSUME CpuTypeOK PROVE Context \in [Slots -> Int]
<1>1. \A j \in Slots : j # 16 => j \in Reg
  BY DEF Slots, Reg
<1>2. fr \in Int /\ \A j \in Reg : r[j] \in Int
  BY DEF CpuTypeOK
<1>. QED BY <1>1, <1>2 DEF Context

\* Every byte below s lies in one slot.
LEMMA SlotOf ==
  ASSUME NEW s \in Int, NEW n \in 0 .. 17, NEW x \in Int,
         s - n * DwordBytes <= x, x <= s - 1
  PROVE  /\ (s - 1 - x) \div DwordBytes \in Slots
         /\ x - SlotAddr(s, (s - 1 - x) \div DwordBytes) \in 0 .. DwordBytes - 1
<1>. DEFINE d == s - 1 - x
            j == d \div DwordBytes
<1>1. d \in Nat /\ d <= n * DwordBytes - 1
  BY DwordBytesAssumption
<1>2. x - SlotAddr(s, j) = (j * DwordBytes + DwordBytes - 1) - d
  <2>1. j \in Int BY <1>1, DwordBytesAssumption
  <2>. HIDE DEF j
  <2>2. (j + 1) * DwordBytes = j * DwordBytes + DwordBytes BY <2>1, DwordBytesAssumption
  <2>. QED BY <2>1, <2>2, DwordBytesAssumption DEF SlotAddr
<1>. HIDE DEF d
<1>3. j \in 0 .. 16 /\ (j * DwordBytes + DwordBytes - 1) - d \in 0 .. DwordBytes - 1
  <2>1. CASE DwordBytes = 1 BY <1>1, <2>1
  <2>2. CASE DwordBytes = 2 BY <1>1, <2>2
  <2>3. CASE DwordBytes = 3 BY <1>1, <2>3
  <2>4. CASE DwordBytes = 4 BY <1>1, <2>4
  <2>. QED BY <2>1, <2>2, <2>3, <2>4, DwordBytesAssumption
<1>. QED BY <1>2, <1>3 DEF Slots, d

LEMMA SaveContextType ==
  ASSUME NEW m \in Ram, NEW s \in Int, NEW c \in [Slots -> Int], NEW n \in 0 .. 17
  PROVE  SaveContext(m, s, c, n) \in Ram
<1>1. ASSUME NEW x \in Addr, x \in s - n * DwordBytes .. s - 1
      PROVE  ByteOf(c[(s - 1 - x) \div DwordBytes],
                    x - SlotAddr(s, (s - 1 - x) \div DwordBytes)) \in Byte
  <2>. DEFINE j == (s - 1 - x) \div DwordBytes
  <2>1. s - n * DwordBytes <= x /\ x <= s - 1 /\ x \in Int
    BY <1>1, DwordBytesAssumption, RamSizeAssumption DEF Addr
  <2>2. j \in Slots /\ x - SlotAddr(s, j) \in 0 .. DwordBytes - 1
    BY <2>1, SlotOf
  <2>. HIDE DEF j
  <2>3. c[j] \in Int /\ x - SlotAddr(s, j) \in 0 .. 3
    BY <2>2, DwordBytesAssumption
  <2>4. ByteOf(c[j], x - SlotAddr(s, j)) \in Byte
    BY <2>3, ByteOfType
  <2>. QED BY <2>4 DEF j
<1>. QED BY <1>1 DEF SaveContext, Ram

\* How many slots fit between the bottom of the RAM and s.
LEMMA PushableType ==
  ASSUME NEW s \in Int
  PROVE  /\ Pushable(s) \in 0 .. 17
         /\ Pushable(s) = 17 => 17 * DwordBytes <= s /\ s <= RamSize
<1>. DEFINE fits(n) == n = 0 \/ \A j \in {0, n - 1} : InRam(SlotAddr(s, j), DwordBytes)
            last(n) == fits(n) /\ (n < 17 => ~ fits(n + 1))
<1>1. Pushable(s) = CHOOSE n \in 0 .. 17 : last(n)
  BY DEF Pushable
<1>2. \E n \in 0 .. 17 : last(n)
  <2>. DEFINE T == {n \in Nat : n = 17 \/ ~ fits(n + 1)}
  <2>1. T \in SUBSET Nat /\ T # {}
    <3>1. 17 \in T OBVIOUS
    <3>. QED BY <3>1
  <2>2. PICK n \in T : \A k \in T : n <= k
    <3>. HIDE DEF T
    <3>. QED BY <2>1, Least
  <2>3. n \in 0 .. 17
    BY <2>2
  <2>4. fits(n)
    <3>1. CASE n = 0 BY <3>1
    <3>2. CASE n # 0
      <4>1. n - 1 \in Nat /\ n - 1 # 17 /\ ~ (n <= n - 1)
        BY <2>3, <3>2
      <4>2. n - 1 \notin T BY <2>2, <4>1
      <4>3. fits((n - 1) + 1) BY <4>1, <4>2
      <4>. QED BY <2>3, <4>3
    <3>. QED BY <3>1, <3>2
  <2>5. n < 17 => ~ fits(n + 1)
    BY <2>2
  <2>. HIDE DEF fits
  <2>. QED BY <2>3, <2>4, <2>5
<1>3. Pushable(s) \in 0 .. 17 /\ fits(Pushable(s))
  <2>. HIDE DEF last
  <2>1. Pushable(s) \in 0 .. 17 /\ last(Pushable(s)) BY <1>1, <1>2
  <2>. QED BY <2>1 DEF last
<1>4. ASSUME fits(17) PROVE 17 * DwordBytes <= s /\ s <= RamSize
  <2>1. InRam(SlotAddr(s, 0), DwordBytes) /\ InRam(SlotAddr(s, 16), DwordBytes)
    BY <1>4
  <2>. QED BY <2>1, DwordBytesAssumption, RamSizeAssumption DEF InRam, SlotAddr
<1>. HIDE DEF fits
<1>. QED BY <1>3, <1>4

\* Where the slots of a frame that fits lie, and what is in them.
LEMMA SlotsInRam ==
  ASSUME NEW s \in Int, Pushable(s) = 17, NEW j \in Slots
  PROVE  /\ FrameSlot(SlotAddr(s, 16), j) = SlotAddr(s, j) /\ SlotAddr(s, j) \in Int
         /\ InRam(SlotAddr(s, j), DwordBytes)
         /\ SlotAddr(s, 16) = s - 17 * DwordBytes
         /\ \A k \in 0 .. 3 : k < DwordBytes =>
              /\ SlotAddr(s, j) + k \in Addr
              /\ SlotAddr(s, j) + k \in s - 17 * DwordBytes .. s - 1
              /\ (s - 1 - (SlotAddr(s, j) + k)) \div DwordBytes = j
<1>1. 17 * DwordBytes <= s /\ s <= RamSize
  BY PushableType
<1>2. j \in 0 .. 16 BY DEF Slots
<1>3. CASE DwordBytes = 1
  BY <1>1, <1>2, <1>3, RamSizeAssumption DEF SlotAddr, FrameSlot, InRam, Addr
<1>4. CASE DwordBytes = 2
  BY <1>1, <1>2, <1>4, RamSizeAssumption DEF SlotAddr, FrameSlot, InRam, Addr
<1>5. CASE DwordBytes = 3
  BY <1>1, <1>2, <1>5, RamSizeAssumption DEF SlotAddr, FrameSlot, InRam, Addr
<1>6. CASE DwordBytes = 4
  BY <1>1, <1>2, <1>6, RamSizeAssumption DEF SlotAddr, FrameSlot, InRam, Addr
<1>. QED BY <1>3, <1>4, <1>5, <1>6, DwordBytesAssumption

LEMMA SlotBytes ==
  ASSUME NEW m, NEW s \in Int, NEW c, Pushable(s) = 17, NEW j \in Slots,
         NEW k \in 0 .. 3, k < DwordBytes
  PROVE  SaveContext(m, s, c, 17)[SlotAddr(s, j) + k] = ByteOf(c[j], k)
<1>1. (SlotAddr(s, j) + k) - SlotAddr(s, j) = k /\ SlotAddr(s, j) \in Int
  BY SlotsInRam
<1>2. SlotAddr(s, j) + k \in Addr /\ SlotAddr(s, j) + k \in s - 17 * DwordBytes .. s - 1
      /\ (s - 1 - (SlotAddr(s, j) + k)) \div DwordBytes = j
  BY SlotsInRam
<1>. QED BY <1>1, <1>2 DEF SaveContext

LEMMA AllRestorable ==
  ASSUME NEW s \in Int, Pushable(s) = 17 PROVE Restorable(SlotAddr(s, 16)) = Slots
<1>1. InRam(SlotAddr(s, 16), DwordBytes)
  <2>1. 16 \in Slots BY DEF Slots
  <2>. QED BY <2>1, SlotsInRam
<1>. QED BY <1>1, SlotsInRam DEF Restorable

\* An interrupt saves the context so that VIRET finds all of it again: the
\* frame lies in the RAM, every slot holds its register (the flags in slot 16)
\* as a dword, and no byte outside the frame has changed.
THEOREM ContextRoundTrip ==
  ASSUME NEW m \in Ram, NEW s \in Int, NEW c \in [Slots -> Int], Pushable(s) = 17
  PROVE  /\ SaveContext(m, s, c, 17) \in Ram
         /\ Restorable(SlotAddr(s, 16)) = Slots
         /\ \A j \in Slots :
              FetchDword(SaveContext(m, s, c, 17), FrameSlot(SlotAddr(s, 16), j)) = c[j] % DwordMod
         /\ \A x \in Addr : x \notin SlotAddr(s, 16) .. s - 1 => SaveContext(m, s, c, 17)[x] = m[x]
<1>1. SaveContext(m, s, c, 17) \in Ram
  BY SaveContextType
<1>2. ASSUME NEW j \in Slots
      PROVE  FetchDword(SaveContext(m, s, c, 17), FrameSlot(SlotAddr(s, 16), j)) = c[j] % DwordMod
  <2>1. \A k \in 0 .. 3 : k < DwordBytes =>
          SaveContext(m, s, c, 17)[SlotAddr(s, j) + k] = ByteOf(c[j], k)
    BY SlotBytes
  <2>2. c[j] \in Int /\ SlotAddr(s, j) \in Int /\ FrameSlot(SlotAddr(s, 16), j) = SlotAddr(s, j)
    BY SlotsInRam
  <2>. QED BY <2>1, <2>2, BytesMakeTheDword
<1>3. SlotAddr(s, 16) = s - 17 * DwordBytes
  BY DwordBytesAssumption DEF SlotAddr
<1>4. \A x \in Addr : x \notin SlotAddr(s, 16) .. s - 1 => SaveContext(m, s, c, 17)[x] = m[x]
  BY <1>3 DEF SaveContext
<1>. QED BY <1>1, <1>2, <1>4, AllRestorable

\* The interrupted program goes on as if nothing had happened: a handler that
\* gives the stack back and leaves the frame alone returns with VIRET to the
\* registers, the flags and the pc that were saved, whatever else it has done.
THEOREM ReturnRestores ==
  ASSUME CpuTypeOK, VIRET, NEW m \in Ram, NEW s \in Int, NEW c \in [Slots -> Int],
         Pushable(s) = 17, sp = SlotAddr(s, 16),
         \A x \in SlotAddr(s, 16) .. s - 1 : mem[x] = SaveContext(m, s, c, 17)[x]
  PROVE  /\ fr' = c[16] % DwordMod
         /\ r' = [i \in Reg |-> c[i] % DwordMod]
         /\ UNCHANGED <<mem, cr, interrupt_queue>>
<1>. DEFINE got == Restorable(R[14])
            at(j) == FetchDword(mem, FrameSlot(R[14], j))
<1>1. R[14] = SlotAddr(s, 16)
  BY DEF R, sp, CpuTypeOK, Reg
<1>2. got = Slots
  BY <1>1, AllRestorable
<1>3. ASSUME NEW j \in Slots PROVE at(j) = c[j] % DwordMod
  <2>1. ASSUME NEW k \in 0 .. 3, k < DwordBytes
        PROVE  mem[SlotAddr(s, j) + k] = ByteOf(c[j], k)
    <3>1. SlotAddr(s, j) + k \in SlotAddr(s, 16) .. s - 1
      BY <2>1, SlotsInRam
    <3>. QED BY <2>1, <3>1, SlotBytes
  <2>2. c[j] \in Int /\ SlotAddr(s, j) \in Int /\ FrameSlot(R[14], j) = SlotAddr(s, j)
    BY <1>1, SlotsInRam
  <2>. QED BY <2>1, <2>2, BytesMakeTheDword
<1>4. /\ fr' = IF 16 \in got THEN at(16) ELSE fr
      /\ r' = [i \in Reg |-> IF i \in got THEN at(i) ELSE R[i]]
      /\ IF got = Slots THEN UNCHANGED interrupt_queue ELSE Interrupt(INT_GENERAL_ERROR)
      /\ UNCHANGED <<mem, cr>>
  BY DEF VIRET
<1>. HIDE DEF got, at
<1>5. 16 \in Slots /\ \A i \in Reg : i \in Slots
  BY DEF Slots, Reg
<1>6. fr' = c[16] % DwordMod
  BY <1>2, <1>3, <1>4, <1>5
<1>7. r' = [i \in Reg |-> c[i] % DwordMod]
  BY <1>2, <1>3, <1>4, <1>5
<1>. QED BY <1>2, <1>4, <1>6, <1>7

-----------------------------------------------------------------------------
(* How many faults can wait.                                               *)

\* The inductive invariant.  After the interrupt check no load is put off, at
\* most one fault waits, and only while maskable interrupts are off: then it is
\* the next to be taken.  Before the check a second one may have been raised.
QueuesOK ==
  /\ Len(defered_queue) <= 1
  /\ phase = "exec" => /\ defered_queue = <<>>
                       /\ OneAtMost(FaultsWaiting)
                       /\ FaultsWaiting # {} => ~ MaskableEnabled
  /\ phase = "fetch" => /\ TwoAtMost(FaultsWaiting)
                        /\ FaultsWaiting # {} /\ MaskableEnabled => defered_queue = <<>>
                        /\ ~ OneAtMost(FaultsWaiting) =>
                             ~ MaskableEnabled /\ defered_queue = <<>>

LEMMA WaitingIsFaultsIn == FaultsWaiting = FaultsIn(interrupt_queue)
  BY DEF FaultsWaiting, FaultsIn

LEMMA ControlWord == ASSUME CpuTypeOK PROVE cr[CREG_INT_CONTROL] \in Int /\ CREG_INT_CONTROL \in Cregs
  BY DEF CpuTypeOK, Cregs, CREG_INT_FIRST, CREG_INT_LAST, CREG_INT_CONTROL

\* A device puts its interrupt behind the others; no fault is added.
LEMMA DeviceKeeps ==
  ASSUME CpuTypeOK, QueuesOK, NEW i \in MASKABLE_INTS, Interrupt(i),
         UNCHANGED <<mem, r, fr, cr, defered_queue, phase, terminated>>
  PROVE  CpuTypeOK' /\ QueuesOK'
<1>1. /\ interrupt_queue \in Seq(Interrupts) /\ i \in Interrupts /\ i \notin Faults
  BY DEF CpuTypeOK, Interrupts, MASKABLE_INTS, Faults, INT_PIT, INT_CONSOLE,
     INT_MEMORY_ERROR, INT_DIVISION_ERROR, INT_GENERAL_ERROR
<1>2. interrupt_queue' \in Seq(Interrupts) /\ FaultsIn(interrupt_queue') = FaultsIn(interrupt_queue)
  BY <1>1, FaultsAppend DEF Interrupt
<1>3. CpuTypeOK'
  BY <1>2 DEF CpuTypeOK, Interrupts
<1>4. FaultsWaiting' = FaultsWaiting /\ MaskableEnabled' = MaskableEnabled
  BY <1>2, WaitingIsFaultsIn DEF FaultsWaiting, FaultsIn, MaskableEnabled
<1>. QED BY <1>3, <1>4 DEF QueuesOK

\* One instruction raises at most one fault or puts at most one load off.
LEMMA ExecutedKeeps == ASSUME CpuTypeOK, QueuesOK, Executed PROVE CpuTypeOK' /\ QueuesOK'
<1>0. /\ interrupt_queue \in Seq(Interrupts) /\ defered_queue \in Seq(Load)
      /\ phase = "exec" /\ phase' = "fetch" /\ cr' = cr
      /\ mem' \in Ram /\ r' \in Registers /\ fr' \in Nat /\ terminated' \in BOOLEAN
      /\ cr \in [Cregs -> Int] /\ MaskableEnabled' = MaskableEnabled
  BY DEF CpuTypeOK, Interrupts, Load, Executed, MaskableEnabled
<1>1. /\ defered_queue = <<>> /\ OneAtMost(FaultsIn(interrupt_queue))
      /\ FaultsIn(interrupt_queue) # {} => ~ MaskableEnabled
  BY <1>0, WaitingIsFaultsIn DEF QueuesOK
<1>2. /\ interrupt_queue' \in Seq(Interrupts) /\ defered_queue' \in Seq(Load) /\ Len(defered_queue') <= 1
      /\ TwoAtMost(FaultsIn(interrupt_queue'))
      /\ FaultsIn(interrupt_queue') # {} /\ MaskableEnabled => defered_queue' = <<>>
      /\ ~ OneAtMost(FaultsIn(interrupt_queue')) => ~ MaskableEnabled /\ defered_queue' = <<>>
  <2>1. CASE UNCHANGED <<interrupt_queue, defered_queue>>
    BY <1>0, <1>1, <2>1 DEF OneAtMost, TwoAtMost
  <2>2. CASE (\E i \in Faults : Interrupt(i)) /\ UNCHANGED defered_queue
    <3>1. PICK i \in Faults : interrupt_queue' = Append(interrupt_queue, i)
      BY <2>2 DEF Interrupt
    <3>2. /\ interrupt_queue' \in Seq(Interrupts)
          /\ FaultsIn(interrupt_queue') = FaultsIn(interrupt_queue) \cup {Len(interrupt_queue) + 1}
      BY <1>0, <3>1, FaultsAppend DEF Interrupts
    <3>3. TwoAtMost(FaultsIn(interrupt_queue'))
      BY <1>1, <3>2 DEF OneAtMost, TwoAtMost
    <3>4. ~ OneAtMost(FaultsIn(interrupt_queue')) => FaultsIn(interrupt_queue) # {}
      BY <3>2 DEF OneAtMost
    <3>. QED BY <1>0, <1>1, <2>2, <3>2, <3>3, <3>4
  <2>3. CASE (\E l \in Load : defered_queue' = Append(defered_queue, l)) /\ UNCHANGED interrupt_queue
    <3>1. PICK l \in Load : defered_queue' = Append(defered_queue, l)
      BY <2>3
    <3>2. defered_queue' \in Seq(Load) /\ Len(defered_queue') = 1
      BY <1>0, <1>1, <3>1
    <3>. QED BY <1>0, <1>1, <2>3, <3>2 DEF OneAtMost, TwoAtMost
  <2>. QED BY <2>1, <2>2, <2>3 DEF Executed
<1>3. CpuTypeOK'
  BY <1>0, <1>2 DEF CpuTypeOK, Interrupts, Load, Registers
<1>4. QueuesOK'
  BY <1>0, <1>2, WaitingIsFaultsIn DEF QueuesOK, FaultsWaiting, FaultsIn
<1>. QED BY <1>3, <1>4

\* The loads that were put off.
LEMMA LoadsType ==
  ASSUME CpuTypeOK, NEW c \in [Cregs -> Int]
  PROVE  (IF defered_queue = <<>> THEN c
          ELSE [c EXCEPT ![defered_queue[1].id] = defered_queue[1].v]) \in [Cregs -> Int]
<1>1. CASE defered_queue # <<>>
  <2>1. defered_queue \in Seq(Load) BY DEF CpuTypeOK, Load
  <2>2. 1 \in 1 .. Len(defered_queue) BY <1>1, <2>1
  <2>3. defered_queue[1] \in Load BY <2>1, <2>2, ElementOfSeq
  <2>4. defered_queue[1].v \in Int /\ defered_queue[1].id \in Cregs BY <2>3 DEF Load
  <2>. QED BY <1>1, <2>4
<1>. QED BY <1>1

LEMMA NoInterruptKeeps ==
  ASSUME CpuTypeOK, QueuesOK, NoInterrupt PROVE CpuTypeOK' /\ QueuesOK'
<1>1. cr' \in [Cregs -> Int]
  <2>1. cr \in [Cregs -> Int] BY DEF CpuTypeOK
  <2>. QED BY <2>1, LoadsType DEF NoInterrupt, Drain
<1>2. CpuTypeOK'
  BY <1>1 DEF NoInterrupt, CpuTypeOK
<1>3. FaultsWaiting = {}
  <2>1. DOMAIN interrupt_queue = 1 .. Len(interrupt_queue)
    BY LenProperties DEF CpuTypeOK
  <2>2. \A i \in Faults : i \notin MASKABLE_INTS
    BY DEF MASKABLE_INTS, Faults, INT_PIT, INT_CONSOLE,
           INT_MEMORY_ERROR, INT_DIVISION_ERROR, INT_GENERAL_ERROR
  <2>. QED BY <2>1, <2>2 DEF NoInterrupt, Eligible, FaultsWaiting
<1>4. FaultsWaiting' = {}
  BY <1>3 DEF NoInterrupt, FaultsWaiting
<1>. QED BY <1>2, <1>4 DEF NoInterrupt, QueuesOK, OneAtMost

\* What is left of the faults when the interrupt at position k is taken.
LEMMA TakenFaults ==
  ASSUME CpuTypeOK, NEW k \in Eligible,
         interrupt_queue' = WithoutPosition(interrupt_queue, k)
  PROVE  /\ interrupt_queue' \in Seq(Interrupts) /\ interrupt_queue[k] \in Interrupts
         /\ FaultsWaiting' # {} => FaultsWaiting # {}
         /\ OneAtMost(FaultsWaiting) => OneAtMost(FaultsWaiting')
         /\ TwoAtMost(FaultsWaiting) => TwoAtMost(FaultsWaiting')
         /\ k \in FaultsWaiting /\ TwoAtMost(FaultsWaiting) => OneAtMost(FaultsWaiting')
         /\ k \in FaultsWaiting /\ FaultsWaiting' # {} => ~ OneAtMost(FaultsWaiting)
<1>1. interrupt_queue \in Seq(Interrupts) /\ k \in 1 .. Len(interrupt_queue)
  BY DEF CpuTypeOK, Interrupts, Eligible
<1>2. interrupt_queue' \in Seq(Interrupts)
  BY <1>1, WithoutType
<1>3. interrupt_queue[k] \in Interrupts
  BY <1>1, ElementOfSeq
<1>4. FaultsWaiting = FaultsIn(interrupt_queue) /\ FaultsWaiting' = FaultsIn(interrupt_queue')
  BY DEF FaultsWaiting, FaultsIn
<1>5. PICK f \in [FaultsWaiting' -> FaultsWaiting \ {k}] :
        \A i, j \in FaultsWaiting' : f[i] = f[j] => i = j
  <2>1. \E f \in [FaultsIn(WithoutPosition(interrupt_queue, k)) -> FaultsIn(interrupt_queue) \ {k}] :
          \A i, j \in FaultsIn(WithoutPosition(interrupt_queue, k)) : f[i] = f[j] => i = j
    BY <1>1, FaultsWithout
  <2>. QED BY <1>4, <2>1
<1>6. \A i \in FaultsWaiting' : f[i] \in FaultsWaiting /\ f[i] # k
  OBVIOUS
<1>7. FaultsWaiting' # {} => FaultsWaiting # {}
  BY <1>6
<1>8. OneAtMost(FaultsWaiting) => OneAtMost(FaultsWaiting')
  BY <1>5, <1>6 DEF OneAtMost
<1>9. TwoAtMost(FaultsWaiting) => TwoAtMost(FaultsWaiting')
  BY <1>5, <1>6 DEF TwoAtMost
<1>10. k \in FaultsWaiting /\ TwoAtMost(FaultsWaiting) => OneAtMost(FaultsWaiting')
  BY <1>5, <1>6 DEF TwoAtMost, OneAtMost
<1>11. k \in FaultsWaiting /\ FaultsWaiting' # {} => ~ OneAtMost(FaultsWaiting)
  BY <1>6 DEF OneAtMost
<1>. QED BY <1>2, <1>3, <1>7, <1>8, <1>9, <1>10, <1>11

\* While maskable interrupts are off, only a fault can be taken.
LEMMA FaultIsTaken ==
  ASSUME CpuTypeOK, NEW k \in Eligible, ~ MaskableEnabled
  PROVE  k \in FaultsWaiting
<1>1. interrupt_queue \in Seq(Interrupts) /\ k \in 1 .. Len(interrupt_queue)
      /\ interrupt_queue[k] \notin MASKABLE_INTS
  BY DEF CpuTypeOK, Interrupts, Eligible
<1>2. interrupt_queue[k] \in Faults
  BY <1>1, ElementOfSeq DEF Interrupts
<1>3. DOMAIN interrupt_queue = 1 .. Len(interrupt_queue)
  BY <1>1, LenProperties
<1>. QED BY <1>1, <1>2, <1>3 DEF FaultsWaiting

\* The control word with its lowest bit cleared, as a dword.
LEMMA OffType ==
  ASSUME CpuTypeOK
  PROVE  LET off == [cr EXCEPT ![CREG_INT_CONTROL] = (@ % DwordMod) - (@ % 2)]
         IN  off \in [Cregs -> Int] /\ off[CREG_INT_CONTROL] % 2 = 0
<1>1. cr[CREG_INT_CONTROL] \in Int /\ CREG_INT_CONTROL \in Cregs /\ cr \in [Cregs -> Int]
  BY ControlWord DEF CpuTypeOK
<1>2. \A c \in Int : (c % DwordMod) - (c % 2) \in Int /\ ((c % DwordMod) - (c % 2)) % 2 = 0
  <2>. TAKE c \in Int
  <2>1. CASE DwordBytes = 1 BY <2>1 DEF DwordMod, Pow256
  <2>2. CASE DwordBytes = 2 BY <2>2 DEF DwordMod, Pow256
  <2>3. CASE DwordBytes = 3 BY <2>3 DEF DwordMod, Pow256
  <2>4. CASE DwordBytes = 4 BY <2>4 DEF DwordMod, Pow256
  <2>. QED BY <2>1, <2>2, <2>3, <2>4, DwordBytesAssumption
<1>3. \A c \in Int : [cr EXCEPT ![CREG_INT_CONTROL] = c] \in [Cregs -> Int]
  BY <1>1
<1>. QED BY <1>1, <1>2, <1>3

LEMMA TakeInterruptKeeps ==
  ASSUME CpuTypeOK, QueuesOK, TakeInterrupt PROVE CpuTypeOK' /\ QueuesOK'
<1>. DEFINE off == [cr EXCEPT ![CREG_INT_CONTROL] = (@ % DwordMod) - (@ % 2)]
<1>1. PICK k \in Eligible :
        /\ Pushable(sp) = 17
        /\ interrupt_queue' = WithoutPosition(interrupt_queue, k)
        /\ r' = [r EXCEPT ![14] = SlotAddr(sp, 16),
                          ![15] = cr[CREG_INT_FIRST + (interrupt_queue[k] % 16)]]
  BY DEF TakeInterrupt
<1>2. /\ phase = "fetch" /\ phase' = "exec" /\ defered_queue' = <<>>
      /\ mem' = SaveContext(mem, sp, Context, 17)
      /\ cr' = IF defered_queue = <<>> THEN off
               ELSE [off EXCEPT ![defered_queue[1].id] = defered_queue[1].v]
      /\ UNCHANGED <<fr, terminated>>
  BY DEF TakeInterrupt
<1>3. off \in [Cregs -> Int] /\ off[CREG_INT_CONTROL] % 2 = 0
  BY OffType
<1>. HIDE DEF off
<1>4. cr' \in [Cregs -> Int]
  BY <1>2, <1>3, LoadsType
<1>5. /\ interrupt_queue' \in Seq(Interrupts) /\ interrupt_queue[k] \in Interrupts
      /\ FaultsWaiting' # {} => FaultsWaiting # {}
      /\ OneAtMost(FaultsWaiting) => OneAtMost(FaultsWaiting')
      /\ k \in FaultsWaiting /\ TwoAtMost(FaultsWaiting) => OneAtMost(FaultsWaiting')
      /\ k \in FaultsWaiting /\ FaultsWaiting' # {} => ~ OneAtMost(FaultsWaiting)
  BY <1>1, TakenFaults
<1>6. mem' \in Ram
  <2>1. sp \in Int BY DEF sp, CpuTypeOK, Reg
  <2>2. mem \in Ram /\ 17 \in 0 .. 17 BY DEF CpuTypeOK
  <2>. QED BY <1>2, <2>1, <2>2, ContextType, SaveContextType
<1>7. r' \in Registers
  <2>1. SlotAddr(sp, 16) \in Int
    <3>1. sp \in Int BY DEF sp, CpuTypeOK, Reg
    <3>2. (16 + 1) * DwordBytes \in Int BY DwordBytesAssumption
    <3>. QED BY <3>1, <3>2 DEF SlotAddr
  <2>2. CREG_INT_FIRST + (interrupt_queue[k] % 16) \in Cregs
    BY <1>5 DEF Interrupts, Faults, MASKABLE_INTS, INT_PIT, INT_CONSOLE, INT_MEMORY_ERROR,
                INT_DIVISION_ERROR, INT_GENERAL_ERROR, Cregs, CREG_INT_FIRST, CREG_INT_LAST
  <2>3. cr[CREG_INT_FIRST + (interrupt_queue[k] % 16)] \in Int
    BY <2>2 DEF CpuTypeOK
  <2>. QED BY <1>1, <2>1, <2>3 DEF CpuTypeOK, Registers
<1>8. CpuTypeOK'
  BY <1>2, <1>4, <1>5, <1>6, <1>7 DEF CpuTypeOK, Interrupts, Registers
<1>9. /\ TwoAtMost(FaultsWaiting)
      /\ FaultsWaiting # {} /\ MaskableEnabled => defered_queue = <<>>
      /\ ~ OneAtMost(FaultsWaiting) => ~ MaskableEnabled /\ defered_queue = <<>>
  BY <1>2 DEF QueuesOK
<1>10. OneAtMost(FaultsWaiting')
  <2>1. CASE MaskableEnabled
    BY <1>5, <1>9, <2>1
  <2>2. CASE ~ MaskableEnabled
    BY <1>5, <1>9, <2>2, FaultIsTaken
  <2>. QED BY <2>1, <2>2
<1>11. FaultsWaiting' # {} => defered_queue = <<>>
  <2>1. CASE MaskableEnabled
    BY <1>5, <1>9, <2>1
  <2>2. CASE ~ MaskableEnabled
    BY <1>5, <1>9, <2>2, FaultIsTaken
  <2>. QED BY <2>1, <2>2
<1>12. defered_queue = <<>> => ~ MaskableEnabled'
  BY <1>2, <1>3 DEF MaskableEnabled
<1>. QED BY <1>2, <1>8, <1>10, <1>11, <1>12 DEF QueuesOK

LEMMA CrashKeeps ==
  ASSUME CpuTypeOK, QueuesOK, CrashOnInterrupt PROVE CpuTypeOK' /\ QueuesOK'
<1>1. PICK k \in Eligible : interrupt_queue' = WithoutPosition(interrupt_queue, k)
  BY DEF CrashOnInterrupt
<1>2. /\ phase = "fetch" /\ phase' = "fetch" /\ defered_queue' = defered_queue /\ cr' = cr
      /\ mem' = SaveContext(mem, sp, Context, Pushable(sp)) /\ terminated' = TRUE
      /\ UNCHANGED <<r, fr>>
  BY DEF CrashOnInterrupt
<1>3. /\ interrupt_queue' \in Seq(Interrupts)
      /\ FaultsWaiting' # {} => FaultsWaiting # {}
      /\ OneAtMost(FaultsWaiting) => OneAtMost(FaultsWaiting')
      /\ TwoAtMost(FaultsWaiting) => TwoAtMost(FaultsWaiting')
  BY <1>1, TakenFaults
<1>4. mem' \in Ram
  <2>1. sp \in Int BY DEF sp, CpuTypeOK, Reg
  <2>2. mem \in Ram BY DEF CpuTypeOK
  <2>. QED BY <1>2, <2>1, <2>2, ContextType, SaveContextType, PushableType
<1>5. CpuTypeOK'
  BY <1>2, <1>3, <1>4 DEF CpuTypeOK, Interrupts
<1>6. MaskableEnabled' = MaskableEnabled
  BY <1>2 DEF MaskableEnabled
<1>. QED BY <1>2, <1>3, <1>5, <1>6 DEF QueuesOK

LEMMA CpuStepKeeps ==
  ASSUME CpuTypeOK, QueuesOK, CpuStep PROVE CpuTypeOK' /\ QueuesOK'
  BY NoInterruptKeeps, TakeInterruptKeeps, CrashKeeps, ExecuteKeeps, ExecutedKeeps DEF CpuStep

-----------------------------------------------------------------------------
(* The machine: the CPU thread between the device threads.                 *)

MachineInv == MachineTypeOK /\ QueuesOK

LEMMA MachineInvInit ==
  ASSUME \E image \in Seq(Byte) : MachineInit(image) PROVE MachineInv
<1>1. PICK image \in Seq(Byte) : MachineInit(image)
  OBVIOUS
<1>2. CpuInit(image) /\ ConsoleInit /\ TimerInit /\ stdout = <<>> /\ vm_exit = "running"
  BY <1>1 DEF MachineInit
<1>3. mem \in Ram
  <2>1. \A i \in 1 .. Len(image) : image[i] \in Byte
    BY ElementOfSeq
  <2>2. Len(image) \in Nat
    BY LenProperties
  <2>3. ASSUME NEW x \in Addr, x \in 0 .. 0 + Len(image) - 1 PROVE image[x - 0 + 1] \in Byte
    <3>1. x - 0 + 1 \in 1 .. Len(image) BY <2>2, <2>3
    <3>. QED BY <2>1, <3>1
  <2>4. 0 \in Byte BY DEF Byte
  <2>. QED BY <1>2, <2>3, <2>4 DEF CpuInit, StoreMany, Ram
<1>4. r \in [Reg -> Int]
  BY <1>2, RamSizeAssumption DEF CpuInit
<1>5. cr \in [Cregs -> Int]
  BY <1>2, DwordModType DEF CpuInit, IntInit
<1>6. /\ fr = 0 /\ defered_queue = <<>> /\ phase = "fetch" /\ terminated = FALSE
      /\ interrupt_queue = <<>>
  BY <1>2 DEF CpuInit, IntInit
<1>7. CpuTypeOK
  <2>1. /\ defered_queue \in Seq([id : Cregs, v : Int])
        /\ interrupt_queue \in Seq(Faults \cup MASKABLE_INTS)
    BY <1>6, EmptySeq
  <2>. QED BY <1>3, <1>4, <1>5, <1>6, <2>1 DEF CpuTypeOK
<1>8. ConsoleTypeOK
  <2>1. stdin \in Seq(Byte) /\ con_queue \in Seq(Byte) /\ con_read \in Seq(Byte)
    BY <1>2, TypedAssumption, EmptySeq DEF ConsoleInit
  <2>2. con_control \in Byte
    BY <1>2 DEF ConsoleInit, Byte
  <2>. QED BY <1>2, <2>1, <2>2 DEF ConsoleInit, ConsoleTypeOK
<1>9. TimerTypeOK
  <2>1. since_alarm \in Int /\ since_alarm <= MaxLate
    BY <1>2, MaxLateAssumption DEF TimerInit
  <2>2. alarm \in 0 .. WordMod - 1 /\ pit_high \in Byte
    BY <1>2 DEF TimerInit, Byte, WordMod
  <2>. QED BY <1>2, <2>1, <2>2 DEF TimerInit, TimerTypeOK
<1>10. FaultsWaiting = {}
  BY <1>6 DEF FaultsWaiting
<1>11. QueuesOK
  BY <1>6, <1>10 DEF QueuesOK, OneAtMost, TwoAtMost
<1>. QED BY <1>2, <1>7, <1>8, <1>9, <1>11 DEF MachineInv, MachineTypeOK

\* What the guest writes to a device and reads from it is a byte.
LEMMA ConsoleByte == ASSUME ConsoleTypeOK, NEW port \in Int, port = 32 => con_queue # <<>>
                     PROVE  ConsoleValue(port) \in Int
<1>1. /\ con_control \in Int
      /\ port = 32 => Head(con_queue) \in Int
  <2>1. con_control \in Byte /\ con_queue \in Seq(Byte) BY DEF ConsoleTypeOK
  <2>2. port = 32 => Head(con_queue) \in Byte BY <2>1
  <2>3. \A b \in Byte : b \in Int BY DEF Byte
  <2>. QED BY <2>1, <2>2, <2>3, Zenon
<1>2. CASE port = 32
  BY <1>1, <1>2 DEF ConsoleValue
<1>3. CASE port # 32
  BY <1>1, <1>3 DEF ConsoleValue
<1>. QED BY <1>2, <1>3

LEMMA TimerByte == ASSUME TimerTypeOK, NEW port PROVE TimerValue(port) \in Int
  BY DEF TimerTypeOK, TimerValue, Counter, Byte

LEMMA ConsoleOutKeeps ==
  ASSUME ConsoleTypeOK, NEW port, NEW byte \in Byte, ConsoleOut(port, byte)
  PROVE  ConsoleTypeOK'
  BY DEF ConsoleTypeOK, ConsoleOut, conVars, conWorkerVars

LEMMA ConsoleInKeeps ==
  ASSUME ConsoleTypeOK, NEW port, ConsoleIn(port)
  PROVE  ConsoleTypeOK' /\ (port = 32 => con_queue # <<>>)
<1>1. CASE /\ con_queue # <<>>
           /\ con_read' = Append(con_read, Head(con_queue)) /\ con_queue' = Tail(con_queue)
           /\ UNCHANGED <<conWorkerVars, con_boot, con_control>>
  <2>1. Head(con_queue) \in Byte /\ Tail(con_queue) \in Seq(Byte)
    BY <1>1 DEF ConsoleTypeOK
  <2>. QED BY <1>1, <2>1 DEF ConsoleTypeOK, conWorkerVars
<1>2. CASE UNCHANGED conVars /\ port # 32
  BY <1>2 DEF ConsoleTypeOK, conVars, conWorkerVars
<1>. QED BY <1>1, <1>2 DEF ConsoleIn

LEMMA TimerOutKeeps ==
  ASSUME TimerTypeOK, NEW port, NEW byte \in Byte, TimerOut(port, byte)
  PROVE  TimerTypeOK'
<1>1. alarm \in Nat /\ byte \in Nat
  <2>1. alarm \in 0 .. WordMod - 1
    BY Zenon DEF TimerTypeOK
  <2>2. \A n : 0 .. n \subseteq Nat
    OBVIOUS
  <2>3. byte \in 0 .. 255
    BY Zenon DEF Byte
  <2>. QED BY <2>1, <2>2, <2>3, Zenon
<1>2. (alarm * 256 + byte) % WordMod \in 0 .. WordMod - 1
  <2>1. alarm * 256 + byte \in Nat
    BY <1>1
  <2>2. \A n \in Nat, m \in Nat \ {0} : n % m \in 0 .. m - 1
    OBVIOUS
  <2>3. WordMod \in Nat \ {0}
    BY DEF WordMod
  <2>. QED BY <2>1, <2>2, <2>3, Zenon
<1>3. -alarm \in Int /\ -alarm <= MaxLate
  BY <1>1, MaxLateAssumption
<1>4. CASE port = 113
  <2>1. /\ alarm' = (alarm * 256 + byte) % WordMod
        /\ UNCHANGED <<since_alarm, active, pit_worker, pit_control, pit_latched, pit_high>>
    BY <1>4 DEF TimerOut
  <2>2. alarm' \in 0 .. WordMod - 1
    BY <1>2, <2>1, Zenon
  <2>. QED BY <2>1, <2>2, Zenon DEF TimerTypeOK
<1>5. CASE port = 112
  <2>1. /\ UNCHANGED <<alarm, pit_worker, pit_latched, pit_high>>
        /\ since_alarm' = since_alarm \/ since_alarm' = -alarm
        /\ active' \in BOOLEAN /\ pit_control' \in {0, 1}
    <3>1. port # 113
      BY <1>5
    <3>. QED BY <3>1, Zenon DEF TimerOut
  <2>2. since_alarm' \in Int /\ since_alarm' <= MaxLate
    BY <1>3, <2>1 DEF TimerTypeOK
  <2>. QED BY <2>1, <2>2, Zenon DEF TimerTypeOK
<1>. QED BY <1>4, <1>5, Zenon DEF TimerOut

LEMMA TimerInKeeps == ASSUME TimerTypeOK, NEW port, TimerIn(port) PROVE TimerTypeOK'
<1>1. (Counter \div 256) % 256 \in Byte
  BY DEF Counter, TimerTypeOK, Byte
<1>. QED BY <1>1 DEF TimerIn, TimerTypeOK, pitVars

\* The two instructions that call the devices.
LEMMA PortKeeps ==
  ASSUME MachineTypeOK, VOUTB \/ VINB
  PROVE  Executed /\ ConsoleTypeOK' /\ TimerTypeOK' /\ stdout' \in Seq(Byte)
<1>0. CpuTypeOK /\ ConsoleTypeOK /\ TimerTypeOK /\ stdout \in Seq(Byte)
  BY DEF MachineTypeOK
<1>1. UNCHANGED conVars => ConsoleTypeOK'
  BY <1>0 DEF ConsoleTypeOK, conVars, conWorkerVars
<1>2. UNCHANGED pitVars => TimerTypeOK'
  BY <1>0 DEF TimerTypeOK, pitVars
<1>3. CASE VOUTB
  <2>. DEFINE port == Arg(2)
             byte == R[X] % 256
  <2>1. /\ Op({242}) /\ Advance /\ UNCHANGED OtherCpuVars
        /\ \/ ConsoleOut(port, byte) /\ UNCHANGED pitVars
           \/ TimerOut(port, byte) /\ UNCHANGED conVars
           \/ UNCHANGED <<conVars, pitVars>>
        /\ stdout' = IF port = 32 THEN Append(stdout, byte) ELSE stdout
    BY <1>3 DEF VOUTB
  <2>2. phase = "exec" /\ phase' = "fetch" /\ R \in Registers /\ X \in Reg
    BY <1>0, <2>1, Binary
  <2>3. R[X] \in Int BY <2>2, RValue
  <2>4. byte \in Byte BY <2>3 DEF Byte
  <2>. HIDE DEF port, byte
  <2>5. Executed
    BY <1>0, <2>1, <2>2, OnlyRegsKeeps DEF Advance, OtherCpuVars, OnlyRegs
  <2>6. ConsoleTypeOK'
    BY <1>0, <1>1, <2>1, <2>4, ConsoleOutKeeps
  <2>7. TimerTypeOK'
    BY <1>0, <1>2, <2>1, <2>4, TimerOutKeeps
  <2>8. stdout' \in Seq(Byte)
    BY <1>0, <2>1, <2>4
  <2>. QED BY <2>5, <2>6, <2>7, <2>8
<1>4. CASE VINB
  <2>. DEFINE port == Arg(2)
  <2>1. /\ Op({243}) /\ UNCHANGED OtherCpuVars /\ stdout' = stdout
        /\ \/ ConsoleIn(port) /\ UNCHANGED pitVars /\ Set(X, ConsoleValue(port) % 256)
           \/ TimerIn(port) /\ UNCHANGED conVars /\ Set(X, TimerValue(port) % 256)
           \/ UNCHANGED <<conVars, pitVars>> /\ Advance
    BY <1>4 DEF VINB
  <2>2. phase = "exec" /\ phase' = "fetch" /\ R \in Registers /\ X \in Reg
    BY <1>0, <2>1, Binary
  <2>3. OnlyRegs
    BY <2>1 DEF OtherCpuVars, OnlyRegs
  <2>0. port \in Int
    <3>1. Arg(2) \in Byte BY <1>0, <2>1, Binary
    <3>. QED BY <3>1 DEF Byte
  <2>. HIDE DEF port
  <2>4. CASE ConsoleIn(port) /\ UNCHANGED pitVars /\ Set(X, ConsoleValue(port) % 256)
    <3>1. ConsoleTypeOK' /\ ConsoleValue(port) \in Int
      BY <1>0, <2>0, <2>4, ConsoleInKeeps, ConsoleByte
    <3>2. ConsoleValue(port) % 256 \in Int BY <3>1
    <3>3. Executed BY <1>0, <2>2, <2>3, <2>4, <3>2, SetKeeps
    <3>. QED BY <1>0, <1>2, <2>1, <2>4, <3>1, <3>3
  <2>5. CASE TimerIn(port) /\ UNCHANGED conVars /\ Set(X, TimerValue(port) % 256)
    <3>1. TimerValue(port) \in Int BY <1>0, TimerByte
    <3>2. TimerValue(port) % 256 \in Int BY <3>1
    <3>3. Executed BY <1>0, <2>2, <2>3, <2>5, <3>2, SetKeeps
    <3>4. TimerTypeOK' BY <1>0, <2>5, TimerInKeeps
    <3>. QED BY <1>0, <1>1, <2>1, <2>5, <3>3, <3>4
  <2>6. CASE UNCHANGED <<conVars, pitVars>> /\ Advance
    <3>1. Executed BY <1>0, <2>2, <2>3, <2>6, OnlyRegsKeeps DEF Advance
    <3>. QED BY <1>0, <1>1, <1>2, <2>1, <2>6, <3>1
  <2>. QED BY <2>1, <2>4, <2>5, <2>6
<1>. QED BY <1>3, <1>4

LEMMA CpuKeeps == ASSUME MachineInv, Cpu PROVE MachineInv'
<1>1. CpuTypeOK /\ ConsoleTypeOK /\ TimerTypeOK /\ stdout \in Seq(Byte) /\ QueuesOK
      /\ vm_exit' = vm_exit /\ vm_exit \in {"running", "joining", "exited"}
  BY DEF MachineInv, MachineTypeOK, Cpu
<1>2. CASE CpuStep /\ UNCHANGED <<conVars, pitVars, stdout>>
  <2>1. CpuTypeOK' /\ QueuesOK' BY <1>1, <1>2, CpuStepKeeps
  <2>2. ConsoleTypeOK' BY <1>1, <1>2 DEF ConsoleTypeOK, conVars, conWorkerVars
  <2>3. TimerTypeOK' BY <1>1, <1>2 DEF TimerTypeOK, pitVars
  <2>. QED BY <1>1, <1>2, <2>1, <2>2, <2>3 DEF MachineInv, MachineTypeOK
<1>3. CASE VOUTB \/ VINB
  <2>1. Executed /\ ConsoleTypeOK' /\ TimerTypeOK' /\ stdout' \in Seq(Byte)
    BY <1>3, PortKeeps DEF MachineInv
  <2>2. CpuTypeOK' /\ QueuesOK' BY <1>1, <2>1, ExecutedKeeps
  <2>. QED BY <1>1, <2>1, <2>2 DEF MachineInv, MachineTypeOK
<1>. QED BY <1>2, <1>3 DEF Cpu

LEMMA ConsoleThreadKeeps ==
  ASSUME MachineInv, ConsoleThread \/ Boot PROVE MachineInv'
<1>1. /\ CpuTypeOK /\ ConsoleTypeOK /\ TimerTypeOK /\ stdout \in Seq(Byte) /\ QueuesOK
      /\ vm_exit \in {"running", "joining", "exited"}
  BY DEF MachineInv, MachineTypeOK
<1>2. UNCHANGED <<mem, r, fr, defered_queue, phase, terminated, cr, pitVars, stdout, vm_exit>>
  BY DEF ConsoleThread, Boot, cpuVars
<1>3. TimerTypeOK'
  BY <1>1, <1>2 DEF TimerTypeOK, pitVars
<1>4. ConsoleTypeOK'
  <2>1. CASE ConsoleBoot
    BY <1>1, <2>1 DEF ConsoleBoot, ConsoleTypeOK, conWorkerVars
  <2>2. CASE ReadCharacter
    <3>1. Head(stdin) \in Byte /\ Tail(stdin) \in Seq(Byte)
      BY <1>1, <2>2 DEF ReadCharacter, ConsoleTypeOK
    <3>. QED BY <1>1, <2>2, <3>1 DEF ReadCharacter, ConsoleTypeOK
  <2>3. CASE EndOfInput \/ NewDataTooEarly \/ RaiseConsole \/ ConsoleStops
    BY <1>1, <2>3 DEF EndOfInput, NewDataTooEarly, RaiseConsole, ConsoleStops, ConsoleTypeOK
  <2>4. CASE NewDataReady
    <3>1. con_control' \in Byte
      <4>1. \A c \in Byte : c % 2 = 1 => c - 1 \in Byte BY DEF Byte
      <4>2. con_control \in Byte BY <1>1 DEF ConsoleTypeOK
      <4>. QED BY <2>4, <4>1, <4>2 DEF NewDataReady, Armed
    <3>. QED BY <1>1, <2>4, <3>1 DEF NewDataReady, ConsoleTypeOK
  <2>. QED BY <2>1, <2>2, <2>3, <2>4 DEF ConsoleThread, Boot, ConsoleWorker, ConsoleQuiet
<1>5. CpuTypeOK' /\ QueuesOK'
  <2>1. CASE UNCHANGED interrupt_queue
    BY <1>1, <1>2, <2>1 DEF CpuTypeOK, QueuesOK, FaultsWaiting, MaskableEnabled
  <2>2. CASE Interrupt(INT_CONSOLE)
    BY <1>1, <1>2, <2>2, DeviceKeeps DEF MASKABLE_INTS
  <2>. QED BY <2>1, <2>2 DEF ConsoleThread, Boot, ConsoleWorker, RaiseConsole, cpuVars
<1>. QED BY <1>1, <1>2, <1>3, <1>4, <1>5 DEF MachineInv, MachineTypeOK

LEMMA TimerThreadKeeps ==
  ASSUME MachineInv, TimerThread \/ Clock PROVE MachineInv'
<1>1. /\ CpuTypeOK /\ ConsoleTypeOK /\ TimerTypeOK /\ stdout \in Seq(Byte) /\ QueuesOK
      /\ vm_exit \in {"running", "joining", "exited"}
  BY DEF MachineInv, MachineTypeOK
<1>2. UNCHANGED <<mem, r, fr, defered_queue, phase, terminated, cr, conVars, stdout, vm_exit>>
  BY DEF TimerThread, Clock, cpuVars
<1>3. ConsoleTypeOK'
  BY <1>1, <1>2 DEF ConsoleTypeOK, conVars, conWorkerVars
<1>4. TimerTypeOK'
  <2>1. CASE TimerExpires \/ RaisePit \/ TimerExits
    BY <1>1, <2>1 DEF TimerExpires, RaisePit, TimerExits, TimerTypeOK, pitGuestVars
  <2>2. CASE Tick
    <3>1. since_alarm \in Int /\ since_alarm < MaxLate /\ since_alarm' = since_alarm + 1
      BY <1>1, <2>2 DEF Tick, TimerTypeOK
    <3>2. since_alarm' \in Int /\ since_alarm' <= MaxLate
      BY <3>1, MaxLateAssumption
    <3>. QED BY <1>1, <2>2, <3>2 DEF Tick, TimerTypeOK, pitGuestVars
  <2>. QED BY <2>1, <2>2 DEF TimerThread, Clock
<1>5. CpuTypeOK' /\ QueuesOK'
  <2>1. CASE UNCHANGED interrupt_queue
    BY <1>1, <1>2, <2>1 DEF CpuTypeOK, QueuesOK, FaultsWaiting, MaskableEnabled
  <2>2. CASE Interrupt(INT_PIT)
    BY <1>1, <1>2, <2>2, DeviceKeeps DEF MASKABLE_INTS
  <2>. QED BY <2>1, <2>2 DEF TimerThread, Clock, RaisePit, cpuVars
<1>. QED BY <1>1, <1>2, <1>3, <1>4, <1>5 DEF MachineInv, MachineTypeOK

LEMMA OthersKeep ==
  ASSUME MachineInv, Leave \/ UNCHANGED machineVars PROVE MachineInv'
<1>1. UNCHANGED <<cpuVars, conVars, pitVars, stdout>>
  BY DEF Leave, machineVars
<1>2. vm_exit' \in {"running", "joining", "exited"}
  BY DEF MachineInv, MachineTypeOK, Leave, BeginExit, Exit, machineVars
<1>3. CpuTypeOK' /\ QueuesOK'
  BY <1>1 DEF MachineInv, MachineTypeOK, CpuTypeOK, QueuesOK, FaultsWaiting, MaskableEnabled, cpuVars
<1>4. ConsoleTypeOK' /\ TimerTypeOK'
  BY <1>1 DEF MachineInv, MachineTypeOK, ConsoleTypeOK, TimerTypeOK, conVars, conWorkerVars, pitVars
<1>. QED BY <1>1, <1>2, <1>3, <1>4 DEF MachineInv, MachineTypeOK

LEMMA MachineInvNext == MachineInv /\ [MachineNext]_machineVars => MachineInv'
  BY CpuKeeps, ConsoleThreadKeeps, TimerThreadKeeps, OthersKeep DEF MachineNext

LEMMA MachineInvAlways == MachineSpec => []MachineInv
<1>1. (\E image \in Seq(Byte) : MachineInit(image)) => MachineInv
  BY MachineInvInit
<1>. QED BY <1>1, MachineInvNext, PTL DEF MachineSpec

\* Whatever the program, registers, RAM, queues and devices hold what the code
\* means them to hold: no instruction leaves a byte out of range in the RAM,
\* and the interrupt queue holds only the interrupts that exist.
THEOREM MachineTypes == MachineSpec => []MachineTypeOK
<1>1. MachineInv => MachineTypeOK
  BY DEF MachineInv
<1>. QED BY <1>1, MachineInvAlways, PTL

\* Whatever the program, at most one control register load is put off (two
\* would be applied in reverse order), and at most two faults ever wait: the
\* queues that run_single_step pops from the wrong end stay short.
THEOREM MachineQueuesStayShort == MachineSpec => []QueuesStayShort
<1>1. MachineInv => QueuesStayShort
  <2>. SUFFICES ASSUME MachineInv PROVE QueuesStayShort
    OBVIOUS
  <2>1. Len(defered_queue) <= 1 /\ interrupt_queue \in Seq(Interrupts)
    BY DEF MachineInv, MachineTypeOK, CpuTypeOK, QueuesOK, Interrupts
  <2>2. TwoAtMost(FaultsWaiting)
    BY DEF MachineInv, MachineTypeOK, CpuTypeOK, QueuesOK, OneAtMost, TwoAtMost
  <2>3. Cardinality(FaultsWaiting) <= 2
    BY <2>1, <2>2, TwoAtMostCount, WaitingIsFaultsIn
  <2>. QED BY <2>1, <2>3 DEF QueuesStayShort
<1>. QED BY <1>1, MachineInvAlways, PTL

-----------------------------------------------------------------------------
(* The two devices under any guest, for any input, any bytes and any       *)
(* number of activations.  The inductive invariant has a part for each     *)
(* device, with the safety properties in it, so that a step of one device  *)
(* is shown to leave the other's part alone by one lemma; the parts leave  *)
(* out the Boolean variables, which no safety property needs typed.        *)

ConPart ==
  /\ con_boot \in {"mutex", "register", "done"}
  /\ con_worker \in {"read", "notify", "raise", "ended", "dead"}
  /\ stdin \in Seq(Byte) /\ con_queue \in Seq(Byte) /\ con_read \in Seq(Byte)
  /\ con_control \in 0 .. 255
  /\ con_boot # "done" => con_control = 0
  /\ con_arms \in Nat /\ con_seen \in Nat /\ con_raised \in Nat
  /\ FifoDelivery /\ ConsoleOneShot /\ NoLostWakeup
PitPart ==
  /\ since_alarm \in Int /\ since_alarm <= MaxLate /\ alarm \in 0 .. WordMod - 1
  /\ pit_worker \in {"poll", "raise", "exited"}
  /\ pit_control \in {0, 1} /\ pit_high \in 0 .. 255
  /\ pit_arms \in Nat /\ pit_raised \in Nat
  /\ TimerOneShot
\* Until the constructor is over the worker has handled no character to the end.
BootPart ==
  /\ MutexLostOnlyAtBoot
  /\ con_boot # "done" => con_worker # "raise"
  /\ con_boot # "done" /\ con_worker = "read" => stdin = Typed
  /\ con_boot # "done" /\ con_worker = "notify" => Len(stdin) + 1 = Len(Typed)
BoolPart == con_held \in BOOLEAN /\ active \in BOOLEAN /\ pit_latched \in BOOLEAN
DevInv == ConPart /\ PitPart /\ BoolPart /\ interrupt_queue \in Seq(MASKABLE_INTS)

\* Moving the head of one sequence to the end of another keeps their concatenation.
LEMMA MoveHead ==
  ASSUME NEW S, NEW s \in Seq(S), NEW t \in Seq(S), t # <<>>
  PROVE  /\ Append(s, Head(t)) \in Seq(S)
         /\ Tail(t) \in Seq(S)
         /\ Len(Tail(t)) = Len(t) - 1
         /\ Append(s, Head(t)) \o Tail(t) = s \o t
<1>. DEFINE u == Append(s, Head(t))
<1>1. /\ Head(t) \in S /\ Tail(t) \in Seq(S) /\ Len(Tail(t)) = Len(t) - 1
      /\ \A i \in 1 .. Len(Tail(t)) : Tail(t)[i] = t[i + 1]
  BY HeadTailProperties
<1>2. Len(t) \in Nat \ {0} /\ Len(s) \in Nat
  BY EmptySeq, LenProperties
<1>3. /\ u \in Seq(S) /\ Len(u) = Len(s) + 1 /\ u[Len(s) + 1] = Head(t)
      /\ \A i \in 1 .. Len(s) : u[i] = s[i]
  BY <1>1, AppendProperties
<1>. HIDE DEF u
<1>4. /\ u \o Tail(t) \in Seq(S) /\ Len(u \o Tail(t)) = Len(u) + Len(Tail(t))
      /\ \A i \in 1 .. Len(u) + Len(Tail(t)) :
           (u \o Tail(t))[i] = IF i <= Len(u) THEN u[i] ELSE Tail(t)[i - Len(u)]
  BY <1>1, <1>3, ConcatProperties
<1>5. /\ s \o t \in Seq(S) /\ Len(s \o t) = Len(s) + Len(t)
      /\ \A i \in 1 .. Len(s) + Len(t) :
           (s \o t)[i] = IF i <= Len(s) THEN s[i] ELSE t[i - Len(s)]
  BY ConcatProperties
<1>6. Head(t) = t[1]
  OBVIOUS
<1>7. ASSUME NEW i \in 1 .. Len(s) + Len(t)
      PROVE  (u \o Tail(t))[i] = (s \o t)[i]
  <2>1. CASE i <= Len(s)
    BY <1>1, <1>2, <1>3, <1>4, <1>5, <2>1
  <2>2. CASE i = Len(s) + 1
    BY <1>1, <1>2, <1>3, <1>4, <1>5, <1>6, <2>2
  <2>3. CASE i > Len(s) + 1
    <3>1. i - Len(u) \in 1 .. Len(Tail(t)) BY <1>1, <1>2, <1>3, <2>3
    <3>2. (u \o Tail(t))[i] = Tail(t)[i - Len(u)] BY <1>1, <1>2, <1>3, <1>4, <2>3
    <3>3. Tail(t)[i - Len(u)] = t[(i - Len(u)) + 1] BY <1>1, <3>1
    <3>4. (i - Len(u)) + 1 = i - Len(s) BY <1>2, <1>3
    <3>. QED BY <1>2, <1>5, <2>3, <3>2, <3>3, <3>4
  <2>4. i <= Len(s) \/ i = Len(s) + 1 \/ i > Len(s) + 1
    BY <1>2
  <2>. QED BY <2>1, <2>2, <2>3, <2>4
<1>8. u \o Tail(t) = s \o t
  BY <1>1, <1>2, <1>3, <1>4, <1>5, <1>7, SeqEqual
<1>. QED BY <1>1, <1>3, <1>8 DEF u

\* The concatenations are named, for the provers to match the names only.
Cat2(u, v) == u \o v
Cat3(a, u, v) == (a \o u) \o v

LEMMA Regroup ==
  ASSUME NEW a \in Seq(Byte), NEW s \in Seq(Byte), NEW t \in Seq(Byte),
         NEW u \in Seq(Byte), NEW v \in Seq(Byte), Cat2(u, v) = Cat2(s, t)
  PROVE  Cat3(a, u, v) = Cat3(a, s, t)
<1>1. (a \o u) \o v = a \o (u \o v) BY ConcatAssociative
<1>2. (a \o s) \o t = a \o (s \o t) BY ConcatAssociative
<1>. QED BY <1>1, <1>2 DEF Cat2, Cat3

LEMMA ShiftedIn == ASSUME NEW n \in Int PROVE n % WordMod \in 0 .. WordMod - 1
<1>1. \A m \in Nat \ {0} : n % m \in 0 .. m - 1
  OBVIOUS
<1>2. WordMod \in Nat \ {0}
  BY DEF WordMod
<1>. QED BY <1>1, <1>2, Zenon

\* Taking the newest interrupt leaves a queue of device interrupts.
LEMMA TakeType ==
  ASSUME NEW q \in Seq(MASKABLE_INTS), q # <<>>
  PROVE  WithoutPosition(q, Len(q)) \in Seq(MASKABLE_INTS)
<1>1. Len(q) \in Nat \ {0} /\ \A i \in 1 .. Len(q) : q[i] \in MASKABLE_INTS
  BY EmptySeq, LenProperties, ElementOfSeq
<1>2. SubSeq(q, 1, Len(q) - 1) \in Seq(MASKABLE_INTS)
  BY <1>1, SubSeqProperties
<1>3. SubSeq(q, Len(q) + 1, Len(q)) \in Seq(MASKABLE_INTS)
  BY <1>1, SubSeqProperties
<1>. QED BY <1>2, <1>3, ConcatProperties DEF WithoutPosition

LEMMA ActiveCountType == ActiveCount \in {0, 1}
  BY DEF ActiveCount

\* The devices start in a state of the invariant.
LEMMA DevInitInv == DevInit => DevInv
<1>. SUFFICES ASSUME DevInit PROVE DevInv
  OBVIOUS
<1>. USE DEF DevInit, IntInit, ConsoleInit, TimerInit
<1>1. <<>> \in Seq(Byte) /\ <<>> \in Seq(MASKABLE_INTS)
  BY EmptySeq
<1>2. FifoDelivery
  <2>1. <<>> \o <<>> = <<>> BY EmptySeq, ConcatEmptySeq
  <2>2. <<>> \o Typed = Typed BY TypedAssumption, ConcatEmptySeq
  <2>. QED BY <2>1, <2>2 DEF FifoDelivery
<1>3. con_control % 2 = 0 OBVIOUS
<1>4. ConPart
  BY <1>1, <1>2, <1>3, TypedAssumption DEF ConPart, ConsoleOneShot, NoLostWakeup, Armed
<1>5. ActiveCount = 0 BY DEF ActiveCount
<1>6. PitPart
  BY <1>5, MaxLateAssumption DEF PitPart, TimerOneShot, WordMod
<1>7. BoolPart BY DEF BoolPart
<1>. QED BY <1>1, <1>4, <1>6, <1>7 DEF DevInv

-----------------------------------------------------------------------------
\* What a step that leaves one device alone does to that device's part.
LEMMA KeepConPart ==
  ASSUME ConPart, UNCHANGED <<stdin, con_boot, con_worker, con_queue, con_control,
                              con_read, con_arms, con_seen, con_raised>>
  PROVE  ConPart'
  BY DEF ConPart, FifoDelivery, ConsoleOneShot, NoLostWakeup, Armed, Arrived

LEMMA KeepPitPart ==
  ASSUME PitPart, UNCHANGED <<since_alarm, alarm, active, pit_worker, pit_control,
                              pit_high, pit_arms, pit_raised>>
  PROVE  PitPart'
<1>1. ActiveCount' = ActiveCount BY DEF ActiveCount
<1>. QED BY <1>1 DEF PitPart, TimerOneShot

\* The part that speaks of the queue's type.
LEMMA QueueAppend ==
  ASSUME NEW q \in Seq(MASKABLE_INTS), NEW i \in MASKABLE_INTS
  PROVE  Append(q, i) \in Seq(MASKABLE_INTS)
  BY AppendProperties

LEMMA ArrivedType == ConPart => Arrived \in Nat
<1>. SUFFICES ASSUME ConPart PROVE Arrived \in Nat
  OBVIOUS
<1>1. /\ con_read \o con_queue \in Seq(Byte)
      /\ Len(con_read \o con_queue) = Len(con_read) + Len(con_queue)
  BY ConcatProperties DEF ConPart
<1>2. Len((con_read \o con_queue) \o stdin) = Len(con_read \o con_queue) + Len(stdin)
  BY <1>1, ConcatProperties DEF ConPart
<1>3. Len(con_read) \in Nat /\ Len(con_queue) \in Nat /\ Len(stdin) \in Nat
  BY LenProperties DEF ConPart
<1>4. Len(Typed) = Len(con_read) + Len(con_queue) + Len(stdin)
  BY <1>1, <1>2 DEF ConPart, FifoDelivery
<1>. QED BY <1>3, <1>4 DEF Arrived

-----------------------------------------------------------------------------
\* The console worker keeps the console's part.
LEMMA ConsoleKeeps ==
  ASSUME ConPart, con_arms' = con_arms, con_seen' = con_seen,
         \/ ConsoleQuiet /\ con_raised' = con_raised
         \/ RaiseConsole /\ con_raised' = con_raised + 1
  PROVE  ConPart'
<1>n. con_control % 2 \in {0, 1} /\ con_control \in 0 .. 255
  BY DEF ConPart
<1>1. CASE ReadCharacter /\ con_raised' = con_raised
  <2>1. /\ con_queue' \in Seq(Byte) /\ stdin' \in Seq(Byte)
        /\ con_queue' \o stdin' = con_queue \o stdin
    BY <1>1, MoveHead DEF ReadCharacter, ConPart
  <2>2. FifoDelivery'
    <3>1. con_read \in Seq(Byte) /\ con_queue \in Seq(Byte) /\ stdin \in Seq(Byte)
      BY DEF ConPart
    <3>2. Cat2(con_queue', stdin') = Cat2(con_queue, stdin) BY <2>1 DEF Cat2
    <3>4. Cat3(con_read, con_queue', stdin') = Cat3(con_read, con_queue, stdin)
      BY <2>1, <3>1, <3>2, Regroup
    <3>3. con_read' = con_read BY <1>1 DEF ReadCharacter
    <3>5. FifoDelivery BY DEF ConPart
    <3>. QED BY <3>3, <3>4, <3>5 DEF FifoDelivery, Cat3
  <2>3. ConsoleOneShot'
    BY <1>1, <1>n DEF ReadCharacter, ConPart, ConsoleOneShot
  <2>4. NoLostWakeup'
    BY <1>1 DEF ReadCharacter, NoLostWakeup
  <2>. QED BY <1>1, <2>1, <2>2, <2>3, <2>4 DEF ReadCharacter, ConPart
<1>2. CASE EndOfInput /\ con_raised' = con_raised
  <2>1. ConsoleOneShot'
    BY <1>2, <1>n DEF EndOfInput, ConPart, ConsoleOneShot
  <2>2. NoLostWakeup' /\ FifoDelivery'
    BY <1>2 DEF EndOfInput, ConPart, NoLostWakeup, FifoDelivery, Armed, Arrived
  <2>. QED BY <1>2, <2>1, <2>2 DEF EndOfInput, ConPart
<1>3. CASE NewDataReady /\ con_raised' = con_raised
  <2>1. CASE Armed
    <3>1. con_control' = con_control - 1 /\ con_worker' = "raise" /\ con_worker = "notify"
      BY <1>3, <2>1 DEF NewDataReady
    <3>2. con_control' \in 0 .. 255 /\ con_control' % 2 = 0 /\ con_control % 2 = 1
      BY <1>n, <2>1, <3>1 DEF Armed
    <3>3. ConsoleOneShot'
      BY <1>3, <3>1, <3>2 DEF ConPart, ConsoleOneShot
    <3>4. NoLostWakeup' /\ FifoDelivery'
      BY <1>3, <3>2 DEF NewDataReady, ConPart, NoLostWakeup, FifoDelivery, Armed
    <3>. QED BY <1>3, <3>1, <3>2, <3>3, <3>4 DEF NewDataReady, ConPart
  <2>2. CASE ~Armed
    <3>1. con_control' = con_control /\ con_worker' = "read" /\ con_worker = "notify"
      BY <1>3, <2>2 DEF NewDataReady
    <3>2. ConsoleOneShot'
      BY <1>3, <1>n, <3>1 DEF ConPart, ConsoleOneShot
    <3>3. NoLostWakeup' /\ FifoDelivery'
      BY <1>3, <2>2, <3>1 DEF NewDataReady, ConPart, NoLostWakeup, FifoDelivery, Armed
    <3>. QED BY <1>3, <3>1, <3>2, <3>3 DEF NewDataReady, ConPart
  <2>. QED BY <2>1, <2>2
<1>4. CASE NewDataTooEarly /\ con_raised' = con_raised
  <2>1. ConsoleOneShot'
    BY <1>4, <1>n DEF NewDataTooEarly, ConPart, ConsoleOneShot
  <2>2. NoLostWakeup' /\ FifoDelivery'
    BY <1>4 DEF NewDataTooEarly, ConPart, NoLostWakeup, FifoDelivery, Armed, Arrived
  <2>. QED BY <1>4, <2>1, <2>2 DEF NewDataTooEarly, ConPart
<1>5. CASE RaiseConsole /\ con_raised' = con_raised + 1
  <2>1. ConsoleOneShot'
    BY <1>5, <1>n DEF RaiseConsole, ConPart, ConsoleOneShot
  <2>2. NoLostWakeup' /\ FifoDelivery'
    BY <1>5 DEF RaiseConsole, ConPart, NoLostWakeup, FifoDelivery, Armed, Arrived
  <2>. QED BY <1>5, <2>1, <2>2 DEF RaiseConsole, ConPart
<1>. QED BY <1>1, <1>2, <1>3, <1>4, <1>5 DEF ConsoleQuiet

\* The guest's calls of the console's ports keep the console's part.
LEMMA DevConsoleInKeeps ==
  ASSUME ConPart, UNCHANGED <<con_arms, con_seen, con_raised>>,
         NEW port, ConsoleIn(port)
  PROVE  ConPart'
<1>1. CASE UNCHANGED conVars
  BY <1>1, KeepConPart DEF conVars
<1>2. CASE /\ con_queue # <<>>
           /\ con_read' = Append(con_read, Head(con_queue))
           /\ con_queue' = Tail(con_queue)
           /\ UNCHANGED <<conWorkerVars, con_boot, con_control>>
  <2>1. /\ con_read' \in Seq(Byte) /\ con_queue' \in Seq(Byte)
        /\ con_read' \o con_queue' = con_read \o con_queue
    BY <1>2, MoveHead DEF ConPart
  <2>2. UNCHANGED <<stdin, con_boot, con_worker, con_control>>
    BY <1>2 DEF conWorkerVars
  <2>3. FifoDelivery' /\ NoLostWakeup' /\ ConsoleOneShot'
    BY <2>1, <2>2 DEF ConPart, FifoDelivery, NoLostWakeup, ConsoleOneShot, Armed, Arrived
  <2>. QED BY <2>1, <2>2, <2>3 DEF ConPart
<1>. QED BY <1>1, <1>2 DEF ConsoleIn

LEMMA DevConsoleOutKeeps ==
  ASSUME ConPart, con_raised' = con_raised,
         NEW port, NEW byte \in 0 .. 255, ConsoleOut(port, byte),
         IF port = 34 /\ byte % 2 = 1
         THEN con_arms' = con_arms + 1 /\ con_seen' = Arrived
         ELSE UNCHANGED conHist
  PROVE  ConPart'
<1>n. con_control % 2 \in {0, 1} /\ byte % 2 \in {0, 1}
  BY DEF ConPart
<1>1. CASE port # 34
  BY <1>1, KeepConPart DEF ConsoleOut, conVars, conHist
<1>2. CASE port = 34
  <2>1. /\ con_control' = byte /\ con_boot = "done"
        /\ UNCHANGED <<stdin, con_boot, con_worker, con_queue, con_read>>
    BY <1>2 DEF ConsoleOut, conWorkerVars
  <2>2. Arrived' = Arrived /\ FifoDelivery'
    BY <2>1 DEF ConPart, Arrived, FifoDelivery
  <2>3. CASE byte % 2 = 1
    <3>1. con_arms' = con_arms + 1 /\ con_seen' = Arrived BY <1>2, <2>3
    <3>2. ConsoleOneShot' /\ NoLostWakeup'
      BY <1>n, <2>1, <2>2, <2>3, <3>1 DEF ConPart, ConsoleOneShot, NoLostWakeup
    <3>. QED BY <2>1, <2>2, <3>1, <3>2, ArrivedType DEF ConPart
  <2>4. CASE byte % 2 = 0
    <3>1. con_arms' = con_arms /\ con_seen' = con_seen BY <2>4 DEF conHist
    <3>2. ConsoleOneShot' /\ NoLostWakeup'
      BY <1>n, <2>1, <2>2, <2>4, <3>1 DEF ConPart, ConsoleOneShot, NoLostWakeup, Armed
    <3>. QED BY <2>1, <2>2, <3>1, <3>2 DEF ConPart
  <2>. QED BY <1>n, <2>3, <2>4
<1>. QED BY <1>1, <1>2

-----------------------------------------------------------------------------
\* The timer worker, the clock and the timer's ports keep the timer's part.
LEMMA TimerKeeps ==
  ASSUME PitPart, pit_arms' = pit_arms,
         \/ TimerExpires /\ pit_raised' = pit_raised
         \/ RaisePit /\ pit_raised' = pit_raised + 1
         \/ Tick /\ pit_raised' = pit_raised
  PROVE  PitPart'
<1>1. CASE TimerExpires /\ pit_raised' = pit_raised
  <2>1. ActiveCount = 1 /\ ActiveCount' = 0 BY <1>1 DEF TimerExpires, ActiveCount
  <2>. QED BY <1>1, <2>1 DEF TimerExpires, pitGuestVars, PitPart, TimerOneShot
<1>2. CASE RaisePit /\ pit_raised' = pit_raised + 1
  <2>1. ActiveCount' = ActiveCount BY <1>2 DEF RaisePit, ActiveCount
  <2>. QED BY <1>2, <2>1, ActiveCountType DEF RaisePit, pitGuestVars, PitPart, TimerOneShot
<1>3. CASE Tick /\ pit_raised' = pit_raised
  <2>1. ActiveCount' = ActiveCount BY <1>3 DEF Tick, ActiveCount
  <2>. QED
    BY <1>3, <2>1, ActiveCountType, MaxLateAssumption DEF Tick, pitGuestVars, PitPart, TimerOneShot
<1>. QED BY <1>1, <1>2, <1>3

LEMMA DevTimerOutKeeps ==
  ASSUME PitPart, pit_raised' = pit_raised,
         NEW port, NEW byte \in 0 .. 255, TimerOut(port, byte),
         pit_arms' = IF port = 112 THEN pit_arms + (byte % 2) ELSE pit_arms
  PROVE  PitPart'
<1>1. CASE port = 113
  <2>1. ActiveCount' = ActiveCount BY <1>1 DEF TimerOut, ActiveCount
  <2>2. /\ UNCHANGED <<since_alarm, pit_worker, pit_control, pit_high, pit_arms>>
        /\ alarm' = (alarm * 256 + byte) % WordMod
    BY <1>1 DEF TimerOut
  <2>3. alarm' \in 0 .. WordMod - 1
    <3>1. alarm * 256 + byte \in Int BY DEF PitPart
    <3>. QED BY <2>2, <3>1, ShiftedIn
  <2>4. TimerOneShot' BY <2>1, <2>2, ActiveCountType DEF PitPart, TimerOneShot
  <2>. QED BY <2>2, <2>3, <2>4 DEF PitPart
<1>2. CASE port = 112 /\ byte % 2 = 1
  <2>1. ActiveCount' = 1 BY <1>2 DEF TimerOut, ActiveCount
  <2>2. /\ UNCHANGED <<alarm, pit_worker, pit_high>>
        /\ since_alarm' = -alarm /\ pit_control' = 1 /\ pit_arms' = pit_arms + 1
    BY <1>2 DEF TimerOut
  <2>3. since_alarm' \in Int /\ since_alarm' <= MaxLate
    BY <2>2, MaxLateAssumption DEF PitPart
  <2>4. TimerOneShot' BY <2>1, <2>2, ActiveCountType DEF PitPart, TimerOneShot
  <2>. QED BY <2>2, <2>3, <2>4 DEF PitPart
<1>3. CASE port = 112 /\ byte % 2 = 0
  <2>1. ActiveCount' = 0 BY <1>3 DEF TimerOut, ActiveCount
  <2>2. /\ UNCHANGED <<since_alarm, alarm, pit_worker, pit_high>>
        /\ pit_control' = 0 /\ pit_arms' = pit_arms + 0
    BY <1>3 DEF TimerOut
  <2>. QED BY <2>1, <2>2, ActiveCountType DEF PitPart, TimerOneShot
<1>. QED BY <1>1, <1>2, <1>3 DEF TimerOut

LEMMA DevTimerInKeeps ==
  ASSUME PitPart, UNCHANGED <<pit_arms, pit_raised>>, NEW port, TimerIn(port)
  PROVE  PitPart'
<1>1. CASE UNCHANGED pitVars
  BY <1>1, KeepPitPart DEF pitVars
<1>2. CASE /\ pit_high' = IF pit_latched THEN pit_high ELSE (Counter \div 256) % 256
           /\ UNCHANGED <<since_alarm, alarm, active, pit_worker, pit_control>>
  <2>1. ActiveCount' = ActiveCount BY <1>2 DEF ActiveCount
  <2>2. (Counter \div 256) % 256 \in 0 .. 255 BY DEF Counter, PitPart
  <2>3. pit_high' \in 0 .. 255
    <3>1. CASE pit_latched BY <1>2, <3>1 DEF PitPart
    <3>2. CASE ~pit_latched BY <1>2, <2>2, <3>2
    <3>. QED BY <3>1, <3>2
  <2>. QED BY <1>2, <2>1, <2>3 DEF PitPart, TimerOneShot
<1>. QED BY <1>1, <1>2 DEF TimerIn

-----------------------------------------------------------------------------
\* The Boolean variables: each is left alone or set to a Boolean value.
LEMMA DevNextBool == BoolPart /\ [DevNext]_devVars => BoolPart'
<1>. SUFFICES ASSUME BoolPart, [DevNext]_devVars PROVE BoolPart'
  OBVIOUS
<1>1. con_held' \in BOOLEAN
  <2>. USE DEF BoolPart, conVars, conWorkerVars
  <2>1. CASE DevBoot BY <2>1 DEF DevBoot, ConsoleBoot
  <2>2. CASE GuestOut BY <2>2 DEF GuestOut, ConsoleOut
  <2>3. CASE GuestIn BY <2>3 DEF GuestIn, ConsoleIn
  <2>4. CASE GuestTakes \/ DevTimer \/ DevTick
    BY <2>4 DEF GuestTakes, DevTimer, DevTick
  <2>5. CASE DevConsole
    BY <2>5 DEF DevConsole, ConsoleQuiet, ReadCharacter, EndOfInput, NewDataReady,
       NewDataTooEarly, RaiseConsole
  <2>6. CASE UNCHANGED devVars BY <2>6 DEF devVars
  <2>. QED BY <2>1, <2>2, <2>3, <2>4, <2>5, <2>6 DEF DevNext
<1>2. active' \in BOOLEAN /\ pit_latched' \in BOOLEAN
  <2>. USE DEF BoolPart, pitVars, pitGuestVars
  <2>1. CASE DevBoot \/ GuestTakes \/ DevConsole
    BY <2>1 DEF DevBoot, GuestTakes, DevConsole
  <2>2. CASE GuestOut
    <3>1. UNCHANGED pitVars \/ \E port \in TimerPorts, byte \in PortBytes : TimerOut(port, byte)
      BY <2>2 DEF GuestOut
    <3>2. ASSUME NEW port \in TimerPorts, NEW byte \in PortBytes, TimerOut(port, byte)
          PROVE  active' \in BOOLEAN /\ pit_latched' \in BOOLEAN
      <4>1. pit_latched' = pit_latched BY <3>2 DEF TimerOut
      <4>2. active' = active \/ active' = TRUE \/ active' = FALSE BY <3>2 DEF TimerOut
      <4>. QED BY <4>1, <4>2
    <3>. QED BY <3>1, <3>2
  <2>3. CASE GuestIn BY <2>3 DEF GuestIn, TimerIn
  <2>4. CASE DevTimer BY <2>4 DEF DevTimer, TimerExpires, RaisePit
  <2>5. CASE DevTick BY <2>5 DEF DevTick, Tick
  <2>6. CASE UNCHANGED devVars BY <2>6 DEF devVars
  <2>. QED BY <2>1, <2>2, <2>3, <2>4, <2>5, <2>6 DEF DevNext
<1>. QED BY <1>1, <1>2 DEF BoolPart

\* Every step of a device, of the guest and of the clock keeps the invariant.
LEMMA DevNextInv == DevInv /\ [DevNext]_devVars => DevInv'
<1>. SUFFICES ASSUME DevInv, [DevNext]_devVars PROVE DevInv'
  OBVIOUS
<1>i. ConPart /\ PitPart /\ BoolPart /\ interrupt_queue \in Seq(MASKABLE_INTS)
  BY DEF DevInv
<1>b. BoolPart'
  BY <1>i, DevNextBool
<1>1. CASE DevBoot
  <2>1. ConPart'
    BY <1>i, <1>1 DEF DevBoot, ConsoleBoot, conWorkerVars, histVars, conHist, ConPart,
       FifoDelivery, ConsoleOneShot, NoLostWakeup, Armed, Arrived
  <2>2. PitPart'
    BY <1>i, <1>1, KeepPitPart DEF DevBoot, pitVars, histVars
  <2>. QED BY <1>i, <1>b, <1>1, <2>1, <2>2 DEF DevBoot, DevInv
<1>2. CASE DevTick
  <2>1. ConPart'
    BY <1>i, <1>2, KeepConPart DEF DevTick, conVars, histVars, conHist
  <2>2. PitPart'
    BY <1>i, <1>2, TimerKeeps DEF DevTick, histVars
  <2>. QED BY <1>i, <1>b, <1>2, <2>1, <2>2 DEF DevTick, DevInv
<1>3. CASE GuestTakes
  <2>1. ConPart'
    BY <1>i, <1>3, KeepConPart DEF GuestTakes, conVars, histVars, conHist
  <2>2. PitPart'
    BY <1>i, <1>3, KeepPitPart DEF GuestTakes, pitVars, histVars
  <2>3. interrupt_queue' \in Seq(MASKABLE_INTS)
    BY <1>i, <1>3, TakeType DEF GuestTakes
  <2>. QED BY <1>b, <2>1, <2>2, <2>3 DEF DevInv
<1>4. CASE DevTimer
  <2>1. ConPart'
    BY <1>i, <1>4, KeepConPart DEF DevTimer, conVars, conHist
  <2>2. PitPart'
    BY <1>i, <1>4, TimerKeeps DEF DevTimer
  <2>3. interrupt_queue' \in Seq(MASKABLE_INTS)
    BY <1>i, <1>4, QueueAppend DEF DevTimer, RaisePit, Interrupt, MASKABLE_INTS
  <2>. QED BY <1>b, <2>1, <2>2, <2>3 DEF DevInv
<1>5. CASE DevConsole
  <2>1. ConPart'
    BY <1>i, <1>5, ConsoleKeeps DEF DevConsole, conHist
  <2>2. PitPart'
    BY <1>i, <1>5, KeepPitPart DEF DevConsole, pitVars
  <2>3. interrupt_queue' \in Seq(MASKABLE_INTS)
    BY <1>i, <1>5, QueueAppend DEF DevConsole, RaiseConsole, Interrupt, MASKABLE_INTS
  <2>. QED BY <1>b, <2>1, <2>2, <2>3 DEF DevInv
<1>6. CASE GuestIn
  <2>h. UNCHANGED <<interrupt_queue, con_arms, con_seen, con_raised, pit_arms, pit_raised>>
    BY <1>6 DEF GuestIn, histVars, conHist
  <2>1. ASSUME NEW port \in ConsolePorts, ConsoleIn(port), UNCHANGED pitVars
        PROVE  ConPart' /\ PitPart'
    <3>1. ConPart' BY <1>i, <2>h, <2>1, DevConsoleInKeeps
    <3>2. PitPart' BY <1>i, <2>h, <2>1, KeepPitPart DEF pitVars
    <3>. QED BY <3>1, <3>2
  <2>2. ASSUME NEW port \in TimerPorts, TimerIn(port), UNCHANGED conVars
        PROVE  ConPart' /\ PitPart'
    <3>1. ConPart' BY <1>i, <2>h, <2>2, KeepConPart DEF conVars
    <3>2. PitPart' BY <1>i, <2>h, <2>2, DevTimerInKeeps
    <3>. QED BY <3>1, <3>2
  <2>3. ConPart' /\ PitPart' BY <1>6, <2>1, <2>2 DEF GuestIn
  <2>. QED BY <1>i, <1>b, <2>h, <2>3 DEF DevInv
<1>7. CASE GuestOut
  <2>h. UNCHANGED <<interrupt_queue, con_raised, pit_raised>>
    BY <1>7 DEF GuestOut
  <2>1. ASSUME NEW byte \in PortBytes, NEW port \in ConsolePorts, ConsoleOut(port, byte),
               IF port = 34 /\ byte % 2 = 1
               THEN con_arms' = con_arms + 1 /\ con_seen' = Arrived
               ELSE UNCHANGED conHist,
               UNCHANGED <<pitVars, pit_arms>>
        PROVE  ConPart' /\ PitPart'
    <3>1. byte \in 0 .. 255 BY PortBytesAssumption DEF Byte
    <3>2. ConPart' BY <1>i, <2>h, <2>1, <3>1, DevConsoleOutKeeps
    <3>3. PitPart' BY <1>i, <2>h, <2>1, KeepPitPart DEF pitVars
    <3>. QED BY <3>2, <3>3
  <2>2. ASSUME NEW byte \in PortBytes, NEW port \in TimerPorts, TimerOut(port, byte),
               pit_arms' = IF port = 112 THEN pit_arms + (byte % 2) ELSE pit_arms,
               UNCHANGED <<conVars, conHist>>
        PROVE  ConPart' /\ PitPart'
    <3>1. byte \in 0 .. 255 BY PortBytesAssumption DEF Byte
    <3>2. ConPart' BY <1>i, <2>h, <2>2, KeepConPart DEF conVars, conHist
    <3>3. PitPart' BY <1>i, <2>h, <2>2, <3>1, DevTimerOutKeeps
    <3>. QED BY <3>2, <3>3
  <2>3. ConPart' /\ PitPart' BY <1>7, <2>1, <2>2 DEF GuestOut
  <2>. QED BY <1>i, <1>b, <2>h, <2>3 DEF DevInv
<1>8. CASE UNCHANGED devVars
  <2>1. ConPart' BY <1>i, <1>8, KeepConPart DEF devVars, conVars, histVars, conHist
  <2>2. PitPart' BY <1>i, <1>8, KeepPitPart DEF devVars, pitVars, histVars
  <2>. QED BY <1>i, <1>b, <1>8, <2>1, <2>2 DEF devVars, DevInv
<1>. QED BY <1>1, <1>2, <1>3, <1>4, <1>5, <1>6, <1>7, <1>8 DEF DevNext

\* The invariant holds in every state of every behaviour.
THEOREM DevicesInvariant == DevSpec => []DevInv
<1>. QED BY DevInitInv, DevNextInv, PTL DEF DevSpec

\* The devices' variables keep their types.
THEOREM DevicesTypeOK == DevSpec => []DevTypeOK
<1>1. DevInv => DevTypeOK
  BY DEF DevInv, ConPart, PitPart, BoolPart, DevTypeOK, ConsoleTypeOK, TimerTypeOK, Byte
<1>. QED BY <1>1, DevicesInvariant, PTL

\* The guest reads the characters the user typed, all of them, in order.
THEOREM DevicesFifo == DevSpec => []FifoDelivery
<1>1. DevInv => FifoDelivery BY DEF DevInv, ConPart
<1>. QED BY <1>1, DevicesInvariant, PTL

\* An armed console never sleeps through a character.
THEOREM DevicesNoLostWakeup == DevSpec => []NoLostWakeup
<1>1. DevInv => NoLostWakeup BY DEF DevInv, ConPart
<1>. QED BY <1>1, DevicesInvariant, PTL

\* Neither device raises more interrupts than it was armed for.
THEOREM DevicesOneShot == DevSpec => []OneShot
<1>1. DevInv => OneShot BY DEF DevInv, ConPart, PitPart, OneShot
<1>. QED BY <1>1, DevicesInvariant, PTL

-----------------------------------------------------------------------------
\* While the constructor runs the worker can only have met the first character,
\* which kills it: the mutex is locked for good by then or never.
LEMMA BootInit == DevInit => BootPart
  BY DEF DevInit, ConsoleInit, BootPart, MutexLostOnlyAtBoot

LEMMA BootNext == DevInv /\ BootPart /\ [DevNext]_devVars => BootPart'
<1>. SUFFICES ASSUME ConPart, BootPart, [DevNext]_devVars PROVE BootPart'
  BY DEF DevInv
<1>. USE DEF BootPart, MutexLostOnlyAtBoot
<1>k. ASSUME UNCHANGED conWorkerVars, con_boot' = con_boot \/ con_boot' = "done" \/ con_boot # "done"
      PROVE  BootPart'
  BY <1>k DEF conWorkerVars
<1>1. CASE DevBoot
  BY <1>1, <1>k DEF DevBoot, ConsoleBoot
<1>2. CASE GuestOut \/ GuestIn
  BY <1>2, <1>k DEF GuestOut, GuestIn, ConsoleOut, ConsoleIn, conVars, conWorkerVars
<1>3. CASE GuestTakes \/ DevTimer \/ DevTick \/ UNCHANGED devVars
  BY <1>3, <1>k DEF GuestTakes, DevTimer, DevTick, devVars, conVars, conWorkerVars
<1>4. CASE DevConsole
  <2>1. CASE ReadCharacter
    <3>1. con_worker = "read" /\ con_worker' = "notify" /\ ~con_held /\ ~con_held'
          /\ con_boot' = con_boot
      BY <2>1 DEF ReadCharacter
    <3>2. Len(stdin') = Len(stdin) - 1 /\ Len(stdin) \in Nat
      BY <2>1, MoveHead, LenProperties DEF ReadCharacter, ConPart
    <3>3. con_boot # "done" => Len(stdin') + 1 = Len(Typed)
      BY <3>1, <3>2
    <3>. QED BY <3>1, <3>3
  <2>2. CASE EndOfInput \/ NewDataReady \/ RaiseConsole
    BY <2>2 DEF EndOfInput, NewDataReady, RaiseConsole
  <2>3. CASE NewDataTooEarly
    BY <2>3 DEF NewDataTooEarly
  <2>. QED BY <1>4, <2>1, <2>2, <2>3 DEF DevConsole, ConsoleQuiet
<1>. QED BY <1>1, <1>2, <1>3, <1>4 DEF DevNext

\* A guest can wait for the console's mutex for ever only when the user typed
\* while the constructor ran; the worker is dead then, of its first character.
THEOREM DevicesMutexLostOnlyAtBoot == DevSpec => []MutexLostOnlyAtBoot
<1>1. BootPart => MutexLostOnlyAtBoot BY DEF BootPart
<1>. QED BY <1>1, BootInit, BootNext, DevicesInvariant, PTL DEF DevSpec

-----------------------------------------------------------------------------
(* The console in the whole machine: what the devices promise to any guest *)
(* they keep under the CPU with its interrupts, and while run() ends.      *)
ConsoleMoves ==
  \/ ReadCharacter \/ EndOfInput \/ NewDataReady \/ NewDataTooEarly
  \/ RaiseConsole \/ ConsoleStops \/ ConsoleBoot
  \/ \E port, byte : con_boot = "done" /\ (ConsoleOut(port, byte) \/ ConsoleIn(port))
  \/ UNCHANGED conVars

LEMMA MachineConsole == ASSUME [MachineNext]_machineVars PROVE ConsoleMoves
<1>1. CASE Boot
  BY <1>1 DEF Boot, ConsoleMoves
<1>2. CASE Cpu
  <2>1. CASE CpuStep /\ UNCHANGED <<conVars, pitVars, stdout>>
    BY <2>1 DEF ConsoleMoves
  <2>2. CASE VOUTB
    BY <1>2, <2>2 DEF Cpu, VOUTB, ConsoleMoves
  <2>3. CASE VINB
    BY <1>2, <2>3 DEF Cpu, VINB, ConsoleMoves
  <2>. QED BY <1>2, <2>1, <2>2, <2>3 DEF Cpu
<1>3. CASE ConsoleThread
  BY <1>3 DEF ConsoleThread, ConsoleWorker, ConsoleQuiet, ConsoleMoves
<1>4. CASE TimerThread \/ Clock \/ Leave \/ UNCHANGED machineVars
  BY <1>4 DEF TimerThread, Clock, Leave, machineVars, ConsoleMoves
<1>. QED BY <1>1, <1>2, <1>3, <1>4 DEF MachineNext

LEMMA FifoMoves ==
  ASSUME ConsoleTypeOK, FifoDelivery, ConsoleMoves PROVE FifoDelivery'
<1>0. con_read \in Seq(Byte) /\ con_queue \in Seq(Byte) /\ stdin \in Seq(Byte)
  BY DEF ConsoleTypeOK
<1>1. CASE ReadCharacter
  <2>1. /\ con_queue' \in Seq(Byte) /\ stdin' \in Seq(Byte) /\ con_read' = con_read
        /\ con_queue' \o stdin' = con_queue \o stdin
    BY <1>0, <1>1, MoveHead DEF ReadCharacter
  <2>2. Cat2(con_queue', stdin') = Cat2(con_queue, stdin)
    BY <2>1 DEF Cat2
  <2>3. Cat3(con_read, con_queue', stdin') = Cat3(con_read, con_queue, stdin)
    BY <1>0, <2>1, <2>2, Regroup
  <2>. QED BY <2>1, <2>3 DEF FifoDelivery, Cat3
<1>2. CASE \E port : ConsoleIn(port)
  <2>1. CASE UNCHANGED conVars
    BY <2>1 DEF FifoDelivery, conVars
  <2>2. CASE /\ con_queue # <<>> /\ con_read' = Append(con_read, Head(con_queue))
             /\ con_queue' = Tail(con_queue) /\ UNCHANGED conWorkerVars
    <3>1. con_read' \o con_queue' = con_read \o con_queue
      BY <1>0, <2>2, MoveHead
    <3>. QED BY <2>2, <3>1 DEF FifoDelivery, conWorkerVars
  <2>. QED BY <1>2, <2>1, <2>2 DEF ConsoleIn
<1>3. CASE UNCHANGED <<stdin, con_queue, con_read>>
  BY <1>3 DEF FifoDelivery
<1>. QED BY <1>1, <1>2, <1>3 DEF ConsoleMoves, EndOfInput, NewDataReady, NewDataTooEarly,
       RaiseConsole, ConsoleStops, ConsoleBoot, ConsoleOut, conVars, conWorkerVars

LEMMA BootMoves ==
  ASSUME ConsoleTypeOK, BootPart, ConsoleMoves PROVE BootPart'
<1>. USE DEF BootPart, MutexLostOnlyAtBoot
<1>1. CASE ReadCharacter
  <2>1. con_worker = "read" /\ con_worker' = "notify" /\ ~con_held /\ ~con_held'
        /\ con_boot' = con_boot
    BY <1>1 DEF ReadCharacter
  <2>2. Len(stdin') = Len(stdin) - 1 /\ Len(stdin) \in Nat
    BY <1>1, MoveHead, LenProperties DEF ReadCharacter, ConsoleTypeOK
  <2>3. con_boot # "done" => Len(stdin') + 1 = Len(Typed)
    BY <2>1, <2>2
  <2>. QED BY <2>1, <2>3
<1>2. CASE EndOfInput \/ NewDataReady \/ RaiseConsole \/ ConsoleStops
  BY <1>2 DEF EndOfInput, NewDataReady, RaiseConsole, ConsoleStops
<1>3. CASE NewDataTooEarly
  BY <1>3 DEF NewDataTooEarly
<1>4. CASE ConsoleBoot
  BY <1>4 DEF ConsoleBoot, conWorkerVars
<1>5. CASE UNCHANGED <<conWorkerVars, con_boot>>
  BY <1>5 DEF conWorkerVars
<1>. QED BY <1>1, <1>2, <1>3, <1>4, <1>5
         DEF ConsoleMoves, ConsoleOut, ConsoleIn, conVars, conWorkerVars

\* What is typed reaches the program once each and in order, whatever program
\* runs, whenever it is interrupted, and while the machine shuts down.
THEOREM MachineFifo == MachineSpec => []FifoDelivery
<1>1. (\E image \in Seq(Byte) : MachineInit(image)) => FifoDelivery
  <2>. SUFFICES ASSUME ConsoleInit PROVE FifoDelivery
    BY DEF MachineInit
  <2>1. con_read \o con_queue = <<>>
    BY EmptySeq DEF ConsoleInit
  <2>2. <<>> \o Typed = Typed
    BY TypedAssumption
  <2>. QED BY <2>1, <2>2 DEF ConsoleInit, FifoDelivery
<1>2. MachineInv /\ FifoDelivery /\ [MachineNext]_machineVars => FifoDelivery'
  BY MachineConsole, FifoMoves DEF MachineInv, MachineTypeOK
<1>. QED BY <1>1, <1>2, MachineInvAlways, PTL DEF MachineSpec

\* In the whole machine, too, the console's mutex is lost only while the
\* constructor runs, to a character that was typed before it was over.
THEOREM MachineMutexLostOnlyAtBoot == MachineSpec => []MutexLostOnlyAtBoot
<1>1. (\E image \in Seq(Byte) : MachineInit(image)) => BootPart
  BY DEF MachineInit, ConsoleInit, BootPart, MutexLostOnlyAtBoot
<1>2. MachineInv /\ BootPart /\ [MachineNext]_machineVars => BootPart'
  BY MachineConsole, BootMoves DEF MachineInv, MachineTypeOK
<1>3. BootPart => MutexLostOnlyAtBoot
  BY DEF BootPart
<1>. QED BY <1>1, <1>2, <1>3, MachineInvAlways, PTL DEF MachineSpec

-----------------------------------------------------------------------------
(* An interrupt from its beginning to its end, in any program.             *)

\* The frame of context c that was pushed below address s is on top of the stack.
FrameOnStack(s, c) ==
  /\ Pushable(s) = 17 /\ sp = SlotAddr(s, 16)
  /\ \A x \in SlotAddr(s, 16) .. s - 1 : mem[x] = SaveContext(mem, s, c, 17)[x]

\* Nothing can be taken: interrupts are off and no fault waits.
Quiet == ~ MaskableEnabled /\ FaultsWaiting = {}

\* The end of a handler, "vcrl 0x110, r" and "viret": before the load, after
\* it with the load still put off, after the next interrupt check, and after.
Enables(s, c) ==
  /\ phase = "exec" /\ ~terminated /\ Quiet /\ FrameOnStack(s, c)
  /\ pc \in Addr /\ pc + 4 \in Addr
  /\ mem[pc] = 240 /\ CregArg = CREG_INT_CONTROL /\ mem[pc + 4] = 244
Enabled(s, c) ==
  /\ phase = "fetch" /\ ~terminated /\ Quiet /\ FrameOnStack(s, c)
  /\ pc \in Addr /\ mem[pc] = 244
Returns(s, c) ==
  /\ phase = "exec" /\ ~terminated /\ FrameOnStack(s, c)
  /\ pc \in Addr /\ mem[pc] = 244
Returned(c) ==
  /\ phase = "fetch" /\ fr = c[16] % DwordMod
  /\ r = [i \in Reg |-> c[i] % DwordMod]

Undisturbed(s, c) ==
  /\ TakeInterrupt /\ sp = s /\ Context = c => FrameOnStack(s, c)'
  /\ TakeInterrupt /\ defered_queue = <<>> => ~ MaskableEnabled'
  /\ Quiet => ~ TakeInterrupt /\ ~ CrashOnInterrupt
  /\ Enables(s, c) => Enables(s, c)' \/ Enabled(s, c)'
  /\ Enabled(s, c) => Enabled(s, c)' \/ Returns(s, c)'
  /\ Returns(s, c) => Returns(s, c)' \/ Returned(c)'

LEMMA QuietTakesNothing ==
  ASSUME CpuTypeOK, Quiet PROVE Eligible = {} /\ ~ TakeInterrupt /\ ~ CrashOnInterrupt
<1>1. Eligible = {}
  BY FaultIsTaken DEF Quiet
<1>. QED BY <1>1 DEF TakeInterrupt, CrashOnInterrupt

\* What is in a frame does not depend on what was there before.
LEMMA SameFrame ==
  ASSUME NEW s \in Int, NEW c, Pushable(s) = 17, NEW m, NEW n,
         NEW x \in SlotAddr(s, 16) .. s - 1
  PROVE  x \in Addr /\ SaveContext(m, s, c, 17)[x] = SaveContext(n, s, c, 17)[x]
<1>1. 17 * DwordBytes <= s /\ s <= RamSize
  BY PushableType
<1>2. SlotAddr(s, 16) = s - 17 * DwordBytes
  BY DwordBytesAssumption DEF SlotAddr
<1>3. x \in Addr
  BY <1>1, <1>2, DwordBytesAssumption, RamSizeAssumption DEF Addr
<1>. QED BY <1>2, <1>3 DEF SaveContext

LEMMA TakingSaves ==
  ASSUME CpuTypeOK, TakeInterrupt, NEW s \in Int, NEW c, sp = s, Context = c
  PROVE  /\ FrameOnStack(s, c)'
         /\ defered_queue = <<>> => ~ MaskableEnabled'
<1>1. /\ Pushable(s) = 17 /\ mem' = SaveContext(mem, s, c, 17) /\ sp' = SlotAddr(s, 16)
      /\ defered_queue = <<>> =>
           cr' = [cr EXCEPT ![CREG_INT_CONTROL] = (@ % DwordMod) - (@ % 2)]
  BY DEF TakeInterrupt, sp, CpuTypeOK, Reg
<1>2. \A x \in SlotAddr(s, 16) .. s - 1 : mem'[x] = SaveContext(mem', s, c, 17)[x]
  <2>. TAKE x \in SlotAddr(s, 16) .. s - 1
  <2>1. mem'[x] = SaveContext(mem, s, c, 17)[x]
    BY <1>1, Zenon
  <2>2. Pushable(s) = 17
    BY <1>1
  <2>3. SaveContext(mem, s, c, 17)[x] = SaveContext(mem', s, c, 17)[x]
    BY <2>2, SameFrame
  <2>. QED BY <2>1, <2>3, Zenon
<1>3. defered_queue = <<>> => ~ MaskableEnabled'
  <2>. DEFINE off == [cr EXCEPT ![CREG_INT_CONTROL] = (@ % DwordMod) - (@ % 2)]
  <2>1. off[CREG_INT_CONTROL] % 2 = 0
    BY OffType
  <2>2. defered_queue = <<>> => cr' = off
    BY <1>1
  <2>. HIDE DEF off
  <2>. QED BY <2>1, <2>2 DEF MaskableEnabled
<1>. QED BY <1>1, <1>2, <1>3 DEF FrameOnStack

\* A step of the machine, as the CPU sees it.
LEMMA CpuSees ==
  ASSUME [MachineNext]_machineVars
  PROVE  \/ UNCHANGED cpuVars
         \/ /\ \E i \in MASKABLE_INTS : Interrupt(i)
            /\ UNCHANGED <<mem, r, fr, cr, defered_queue, phase, terminated>>
         \/ CpuStep \/ VOUTB \/ VINB
<1>1. CASE Boot \/ Clock \/ Leave \/ UNCHANGED machineVars
  BY <1>1 DEF Boot, Clock, Leave, machineVars
<1>2. CASE Cpu
  BY <1>2 DEF Cpu
<1>3. CASE ConsoleThread
  BY <1>3 DEF ConsoleThread, ConsoleWorker, RaiseConsole, MASKABLE_INTS, cpuVars
<1>4. CASE TimerThread
  BY <1>4 DEF TimerThread, RaisePit, MASKABLE_INTS, cpuVars
<1>. QED BY <1>1, <1>2, <1>3, <1>4 DEF MachineNext

\* The devices leave all of it as it is.
LEMMA DevicesLeaveIt ==
  ASSUME CpuTypeOK, NEW s, NEW c,
         \/ UNCHANGED cpuVars
         \/ /\ \E i \in MASKABLE_INTS : Interrupt(i)
            /\ UNCHANGED <<mem, r, fr, cr, defered_queue, phase, terminated>>
  PROVE  /\ ~ TakeInterrupt
         /\ Enables(s, c) => Enables(s, c)'
         /\ Enabled(s, c) => Enabled(s, c)'
         /\ Returns(s, c) => Returns(s, c)'
<1>1. UNCHANGED <<mem, r, fr, cr, defered_queue, phase, terminated>>
  BY DEF cpuVars
<1>2. FrameOnStack(s, c) => FrameOnStack(s, c)'
  BY <1>1 DEF FrameOnStack, sp
<1>3. Quiet => Quiet'
  <2>1. MaskableEnabled' = MaskableEnabled
    BY <1>1 DEF MaskableEnabled
  <2>2. FaultsWaiting' = FaultsWaiting
    <3>1. CASE UNCHANGED cpuVars
      BY <3>1 DEF cpuVars, FaultsWaiting
    <3>2. CASE \E i \in MASKABLE_INTS : Interrupt(i)
      <4>1. PICK i \in MASKABLE_INTS : interrupt_queue' = Append(interrupt_queue, i)
        BY <3>2 DEF Interrupt
      <4>2. interrupt_queue \in Seq(Interrupts) /\ i \in Interrupts /\ i \notin Faults
        BY DEF CpuTypeOK, Interrupts, MASKABLE_INTS, Faults, INT_PIT, INT_CONSOLE,
           INT_MEMORY_ERROR, INT_DIVISION_ERROR, INT_GENERAL_ERROR
      <4>3. FaultsIn(interrupt_queue') = FaultsIn(interrupt_queue)
        BY <4>1, <4>2, FaultsAppend
      <4>. QED BY <4>3 DEF FaultsWaiting, FaultsIn
    <3>. QED BY <3>1, <3>2
  <2>. QED BY <2>1, <2>2 DEF Quiet
<1>4. phase # "fetch" \/ phase' # "exec"
  BY <1>1
<1>. QED BY <1>1, <1>2, <1>3, <1>4 DEF Enables, Enabled, Returns, TakeInterrupt, CregArg, DwAt, pc

LEMMA EnablesNext ==
  ASSUME CpuTypeOK, NEW s, NEW c, Enables(s, c), CpuStep \/ VOUTB \/ VINB
  PROVE  Enabled(s, c)'
<1>1. /\ phase = "exec" /\ ~terminated /\ Quiet /\ FrameOnStack(s, c)
      /\ pc \in Addr /\ pc + 4 \in Addr
      /\ mem[pc] = 240 /\ CregArg = CREG_INT_CONTROL /\ mem[pc + 4] = 244
  BY DEF Enables
<1>2. OpLength(mem[pc]) = 3 /\ InRam(pc, 1) /\ ManyInRam(pc + 1, 3) /\ mem[pc] \in Opcodes
  <2>1. OpLength(mem[pc]) = 3 /\ mem[pc] \in Opcodes
    BY <1>1 DEF OpLength, Opcodes
  <2>2. InRam(pc, 1) /\ ManyInRam(pc + 1, 3)
    BY <1>1, RamSizeAssumption DEF Addr, InRam, ManyInRam
  <2>. QED BY <2>1, <2>2
<1>3. \A ops : Op(ops) => 240 \in ops
  BY <1>1 DEF Op
<1>4. VCRL
  <2>1. ~ NoInterrupt /\ ~ TakeInterrupt /\ ~ CrashOnInterrupt
    BY <1>1 DEF NoInterrupt, TakeInterrupt, CrashOnInterrupt
  <2>2. ~ FetchOutsideRam /\ ~ UnknownOpcode
    BY <1>2 DEF FetchOutsideRam, UnknownOpcode
  <2>3. ~ UnknownCreg
    BY <1>1 DEF UnknownCreg, Cregs
  <2>4. /\ 240 \notin {0} /\ 240 \notin {1} /\ 240 \notin 16 .. 26 /\ 240 \notin {19, 20}
        /\ 240 \notin {2} /\ 240 \notin {4} /\ 240 \notin {3} /\ 240 \notin {5} /\ 240 \notin {32}
        /\ 240 \notin (33 .. 38) \cup {64} /\ 240 \notin {65} /\ 240 \notin {48} /\ 240 \notin {66}
        /\ 240 \notin {67} /\ 240 \notin {49} /\ 240 \notin {68} /\ 240 \notin {241}
        /\ 240 \notin {244} /\ 240 \notin {254, 255} /\ 240 \notin {242} /\ 240 \notin {243}
    OBVIOUS
  <2>5. ~ VOUTB /\ ~ VINB
    BY <1>3, <2>4 DEF VOUTB, VINB
  <2>. QED BY <1>3, <2>1, <2>2, <2>3, <2>4, <2>5 DEF CpuStep, Execute, VMOV, VSET, Alu, DivideByZero,
         VLD, VLDB, VST, VSTB, VCMP, JumpNear, VJMPR, VPUSH, VCALL, VCALLR, VPOP, VRET, VCRS, VIRET, Stop
<1>5. phase' = "fetch" /\ UNCHANGED <<mem, fr, cr, terminated, interrupt_queue>> /\ r' = R
  BY <1>4 DEF VCRL, Op, Advance
<1>6. sp' = sp /\ pc' = pc + 4
  <2>1. r \in [Reg -> Int] /\ pc \in Int
    BY DEF CpuTypeOK, pc, Reg
  <2>2. R[14] = r[14] /\ R[15] = r[15] + 1 + 3
    BY <1>2, <2>1 DEF R, Reg
  <2>. QED BY <1>5, <2>1, <2>2 DEF sp, pc
<1>7. FrameOnStack(s, c)'
  BY <1>1, <1>5, <1>6 DEF FrameOnStack
<1>8. Quiet'
  BY <1>1, <1>5 DEF Quiet, MaskableEnabled, FaultsWaiting
<1>. QED BY <1>1, <1>5, <1>6, <1>7, <1>8 DEF Enabled

LEMMA EnabledNext ==
  ASSUME CpuTypeOK, NEW s, NEW c, Enabled(s, c), CpuStep \/ VOUTB \/ VINB
  PROVE  Returns(s, c)'
<1>1. /\ phase = "fetch" /\ ~terminated /\ Quiet /\ FrameOnStack(s, c)
      /\ pc \in Addr /\ mem[pc] = 244
  BY DEF Enabled
<1>2. ~ TakeInterrupt /\ ~ CrashOnInterrupt
  BY <1>1, QuietTakesNothing
<1>3. \A ops : ~ Op(ops)
  BY <1>1 DEF Op
<1>4. NoInterrupt
  <2>1. ~ FetchOutsideRam /\ ~ UnknownOpcode
    BY <1>1 DEF FetchOutsideRam, UnknownOpcode
  <2>2. ~ VOUTB /\ ~ VINB
    BY <1>3 DEF VOUTB, VINB
  <2>. QED BY <1>2, <1>3, <2>1, <2>2 DEF CpuStep, Execute, VMOV, VSET, Alu, DivideByZero,
         VLD, VLDB, VST, VSTB, VCMP, JumpNear, VJMPR, VPUSH, VCALL, VCALLR, VPOP, VRET, UnknownCreg,
         VCRL, VCRS, VIRET, Stop
<1>5. phase' = "exec" /\ UNCHANGED <<mem, r, fr, terminated>>
  BY <1>4 DEF NoInterrupt
<1>6. FrameOnStack(s, c)' /\ pc' = pc
  BY <1>1, <1>5 DEF FrameOnStack, sp, pc
<1>. QED BY <1>1, <1>5, <1>6 DEF Returns

LEMMA ReturnsNext ==
  ASSUME CpuTypeOK, NEW s \in Int, NEW c \in [Slots -> Int], Returns(s, c), CpuStep \/ VOUTB \/ VINB
  PROVE  Returned(c)'
<1>1. /\ phase = "exec" /\ ~terminated /\ FrameOnStack(s, c)
      /\ pc \in Addr /\ mem[pc] = 244
  BY DEF Returns
<1>2. OpLength(mem[pc]) = 0 /\ InRam(pc, 1) /\ ManyInRam(pc + 1, 0) /\ mem[pc] \in Opcodes
  <2>1. OpLength(mem[pc]) = 0 /\ mem[pc] \in Opcodes
    BY <1>1 DEF OpLength, Opcodes
  <2>2. InRam(pc, 1) /\ ManyInRam(pc + 1, 0)
    BY <1>1, RamSizeAssumption DEF Addr, InRam, ManyInRam
  <2>. QED BY <2>1, <2>2
<1>3. \A ops : Op(ops) => 244 \in ops
  BY <1>1 DEF Op
<1>4. VIRET
  <2>1. ~ NoInterrupt /\ ~ TakeInterrupt /\ ~ CrashOnInterrupt
    BY <1>1 DEF NoInterrupt, TakeInterrupt, CrashOnInterrupt
  <2>2. ~ FetchOutsideRam /\ ~ UnknownOpcode
    BY <1>2 DEF FetchOutsideRam, UnknownOpcode
  <2>4. /\ 244 \notin {0} /\ 244 \notin {1} /\ 244 \notin 16 .. 26 /\ 244 \notin {19, 20}
        /\ 244 \notin {2} /\ 244 \notin {4} /\ 244 \notin {3} /\ 244 \notin {5} /\ 244 \notin {32}
        /\ 244 \notin (33 .. 38) \cup {64} /\ 244 \notin {65} /\ 244 \notin {48} /\ 244 \notin {66}
        /\ 244 \notin {67} /\ 244 \notin {49} /\ 244 \notin {68} /\ 244 \notin {241}
        /\ 244 \notin {240, 241} /\ 244 \notin {240}
        /\ 244 \notin {254, 255} /\ 244 \notin {242} /\ 244 \notin {243}
    OBVIOUS
  <2>5. ~ VOUTB /\ ~ VINB
    BY <1>3, <2>4 DEF VOUTB, VINB
  <2>6. ~ VMOV /\ ~ VSET /\ ~ Alu /\ ~ DivideByZero /\ ~ VLD /\ ~ VLDB /\ ~ VST /\ ~ VSTB /\ ~ VCMP
    BY <1>3, <2>4 DEF VMOV, VSET, Alu, DivideByZero, VLD, VLDB, VST, VSTB, VCMP
  <2>7. ~ JumpNear /\ ~ VJMPR /\ ~ VPUSH /\ ~ VCALL /\ ~ VCALLR /\ ~ VPOP /\ ~ VRET
    BY <1>3, <2>4 DEF JumpNear, VJMPR, VPUSH, VCALL, VCALLR, VPOP, VRET
  <2>8. ~ UnknownCreg /\ ~ VCRL /\ ~ VCRS /\ ~ Stop
    BY <1>3, <2>4 DEF UnknownCreg, VCRL, VCRS, Stop
  <2>. QED BY <2>1, <2>2, <2>5, <2>6, <2>7, <2>8 DEF CpuStep, Execute
<1>5. phase' = "fetch"
  BY <1>4 DEF VIRET, Op
<1>6. /\ fr' = c[16] % DwordMod
      /\ r' = [i \in Reg |-> c[i] % DwordMod]
  <2>1. mem \in Ram
    BY DEF CpuTypeOK
  <2>2. /\ Pushable(s) = 17 /\ sp = SlotAddr(s, 16)
        /\ \A x \in SlotAddr(s, 16) .. s - 1 : mem[x] = SaveContext(mem, s, c, 17)[x]
    BY <1>1 DEF FrameOnStack
  <2>. QED BY <1>4, <2>1, <2>2, ReturnRestores
<1>. QED BY <1>5, <1>6 DEF Returned

\* An interrupt puts the whole context on the stack and, when no load of a
\* control register is put off, turns the others off; while they are off and nothing has failed, nothing is taken.  A handler
\* that ends with "vcrl 0x110, r" and "viret", on the frame it was given, is
\* never interrupted between them, whatever the load turns on and whatever the
\* devices raise by then: the frame is gone before the next interrupt check, so
\* that handlers do not pile up on the stack (vm.py puts the load off for that).
THEOREM HandlersReturnUndisturbed ==
  ASSUME NEW s \in Int, NEW c \in [Slots -> Int]
  PROVE  MachineSpec => [][Undisturbed(s, c)]_machineVars
<1>1. MachineInv /\ [MachineNext]_machineVars => Undisturbed(s, c)
  <2>. SUFFICES ASSUME CpuTypeOK, [MachineNext]_machineVars PROVE Undisturbed(s, c)
    BY DEF MachineInv, MachineTypeOK
  <2>1. CASE \/ UNCHANGED cpuVars
             \/ /\ \E i \in MASKABLE_INTS : Interrupt(i)
                /\ UNCHANGED <<mem, r, fr, cr, defered_queue, phase, terminated>>
    BY <2>1, DevicesLeaveIt, QuietTakesNothing DEF Undisturbed
  <2>2. CASE CpuStep \/ VOUTB \/ VINB
    <3>1. /\ TakeInterrupt /\ sp = s /\ Context = c => FrameOnStack(s, c)'
          /\ TakeInterrupt /\ defered_queue = <<>> => ~ MaskableEnabled'
      <4>1. sp \in Int
        BY DEF CpuTypeOK, sp, Reg
      <4>. QED BY <4>1, TakingSaves
    <3>2. Quiet => ~ TakeInterrupt /\ ~ CrashOnInterrupt
      BY QuietTakesNothing
    <3>3. Enables(s, c) => Enabled(s, c)'
      BY <2>2, EnablesNext
    <3>4. Enabled(s, c) => Returns(s, c)'
      BY <2>2, EnabledNext
    <3>5. Returns(s, c) => Returned(c)'
      BY <2>2, ReturnsNext
    <3>. QED BY <3>1, <3>2, <3>3, <3>4, <3>5 DEF Undisturbed
  <2>. QED BY <2>1, <2>2, CpuSees
<1>. QED BY <1>1, MachineInvAlways, PTL DEF MachineSpec

-----------------------------------------------------------------------------
(* Programs in the RAM: what the assembler macros leave there.             *)

\* The bytes s lie in the RAM m from address a on.
Loaded(m, a, s) == \A i \in 1 .. Len(s) : m[a + i - 1] = s[i]

LEMMA Joined ==
  ASSUME NEW p \in Seq(Byte), NEW q \in Seq(Byte)
  PROVE  /\ p \o q \in Seq(Byte) /\ Len(p \o q) = Len(p) + Len(q)
         /\ \A m : \A a \in Int : Loaded(m, a, p \o q) =>
              Loaded(m, a, p) /\ Loaded(m, a + Len(p), q)
<1>1. /\ p \o q \in Seq(Byte) /\ Len(p \o q) = Len(p) + Len(q)
      /\ \A i \in 1 .. Len(p) + Len(q) : (p \o q)[i] = IF i <= Len(p) THEN p[i] ELSE q[i - Len(p)]
  BY ConcatProperties
<1>2. Len(p) \in Nat /\ Len(q) \in Nat
  BY LenProperties
<1>3. ASSUME NEW m, NEW a \in Int, Loaded(m, a, p \o q)
      PROVE  Loaded(m, a, p) /\ Loaded(m, a + Len(p), q)
  <2>1. \A i \in 1 .. Len(p) + Len(q) : m[a + i - 1] = (p \o q)[i]
    BY <1>1, <1>3 DEF Loaded
  <2>2. ASSUME NEW i \in 1 .. Len(p) PROVE m[a + i - 1] = p[i]
    <3>1. i \in 1 .. Len(p) + Len(q) /\ i <= Len(p) BY <1>2
    <3>. QED BY <1>1, <2>1, <3>1
  <2>3. ASSUME NEW i \in 1 .. Len(q) PROVE m[a + Len(p) + i - 1] = q[i]
    <3>1. i + Len(p) \in 1 .. Len(p) + Len(q) /\ ~ (i + Len(p) <= Len(p)) BY <1>2
    <3>2. m[a + (i + Len(p)) - 1] = q[(i + Len(p)) - Len(p)] BY <1>1, <2>1, <3>1
    <3>3. a + (i + Len(p)) - 1 = a + Len(p) + i - 1 /\ (i + Len(p)) - Len(p) = i BY <1>2
    <3>. QED BY <3>2, <3>3
  <2>. QED BY <2>2, <2>3 DEF Loaded
<1>. QED BY <1>1, <1>3

LEMMA Three ==
  ASSUME NEW x \in Byte, NEW y \in Byte, NEW z \in Byte
  PROVE  /\ <<x, y, z>> \in Seq(Byte) /\ Len(<<x, y, z>>) = 3
         /\ \A m : \A a \in Int : Loaded(m, a, <<x, y, z>>) =>
              m[a] = x /\ m[a + 1] = y /\ m[a + 2] = z
<1>1. ASSUME NEW m, NEW a \in Int, Loaded(m, a, <<x, y, z>>)
      PROVE  m[a] = x /\ m[a + 1] = y /\ m[a + 2] = z
  <2>1. m[a + 1 - 1] = x /\ m[a + 2 - 1] = y /\ m[a + 3 - 1] = z
    BY <1>1 DEF Loaded
  <2>2. a + 1 - 1 = a /\ a + 2 - 1 = a + 1 /\ a + 3 - 1 = a + 2 OBVIOUS
  <2>. QED BY <2>1, <2>2
<1>. QED BY <1>1

LEMMA PairLoaded ==
  ASSUME NEW x \in Byte, NEW y \in Byte
  PROVE  /\ <<x, y>> \in Seq(Byte) /\ Len(<<x, y>>) = 2
         /\ \A m : \A a \in Int : Loaded(m, a, <<x, y>>) => m[a] = x /\ m[a + 1] = y
<1>1. ASSUME NEW m, NEW a \in Int, Loaded(m, a, <<x, y>>) PROVE m[a] = x /\ m[a + 1] = y
  <2>1. m[a + 1 - 1] = x /\ m[a + 2 - 1] = y
    BY <1>1 DEF Loaded
  <2>2. a + 1 - 1 = a /\ a + 2 - 1 = a + 1 OBVIOUS
  <2>. QED BY <2>1, <2>2
<1>. QED BY <1>1

LEMMA OneLoaded ==
  ASSUME NEW x \in Byte
  PROVE  /\ <<x>> \in Seq(Byte) /\ Len(<<x>>) = 1
         /\ \A m : \A a \in Int : Loaded(m, a, <<x>>) => m[a] = x
<1>1. ASSUME NEW m, NEW a \in Int, Loaded(m, a, <<x>>) PROVE m[a] = x
  <2>1. m[a + 1 - 1] = x
    BY <1>1 DEF Loaded
  <2>2. a + 1 - 1 = a OBVIOUS
  <2>. QED BY <2>1, <2>2
<1>. QED BY <1>1

\* A word, and a dword, in little-endian order.
WordAt(m, a, v) == m[a] + 256 * m[a + 1] = v % 65536

LEMMA WordLoaded ==
  ASSUME NEW v \in Int
  PROVE  /\ Dw(v) \in Seq(Byte) /\ Len(Dw(v)) = 2
         /\ \A m : \A a \in Int : Loaded(m, a, Dw(v)) => WordAt(m, a, v)
<1>1. v % 256 \in Byte /\ (v % 65536) \div 256 \in Byte
  BY DEF Byte
<1>2. (v % 256) + 256 * ((v % 65536) \div 256) = v % 65536
  OBVIOUS
<1>3. ASSUME NEW m, NEW a \in Int, Loaded(m, a, Dw(v)) PROVE WordAt(m, a, v)
  <2>1. m[a] = v % 256 /\ m[a + 1] = (v % 65536) \div 256
    BY <1>1, <1>3, PairLoaded DEF Dw
  <2>. QED BY <1>2, <2>1 DEF WordAt
<1>. QED BY <1>1, <1>3, PairLoaded DEF Dw

LEMMA DwordLoaded ==
  ASSUME NEW v \in Int
  PROVE  /\ Dd(v) \in Seq(Byte) /\ Len(Dd(v)) = DwordBytes
         /\ \A m : \A a \in Int : Loaded(m, a, Dd(v)) => FetchDword(m, a) = v % DwordMod
<1>1. \A i \in 1 .. DwordBytes : ByteOf(v, i - 1) \in Byte
  BY ByteOfType, DwordBytesAssumption
<1>2. Dd(v) \in Seq(Byte) /\ Len(Dd(v)) = DwordBytes
  <2>1. DwordBytes \in Nat BY DwordBytesAssumption
  <2>2. Dd(v) \in [1 .. DwordBytes -> Byte] BY <1>1 DEF Dd
  <2>. QED BY <2>1, <2>2, SeqDef, LenProperties
<1>3. ASSUME NEW m, NEW a \in Int, Loaded(m, a, Dd(v)) PROVE FetchDword(m, a) = v % DwordMod
  <2>1. ASSUME NEW k \in 0 .. 3, k < DwordBytes PROVE m[a + k] = ByteOf(v, k)
    <3>1. k + 1 \in 1 .. DwordBytes BY <2>1, DwordBytesAssumption
    <3>2. m[a + (k + 1) - 1] = Dd(v)[k + 1] BY <1>2, <1>3, <3>1 DEF Loaded
    <3>3. a + (k + 1) - 1 = a + k /\ (k + 1) - 1 = k OBVIOUS
    <3>4. Dd(v)[k + 1] = ByteOf(v, (k + 1) - 1) BY <3>1 DEF Dd
    <3>. QED BY <3>2, <3>3, <3>4
  <2>. QED BY <2>1, BytesMakeTheDword
<1>. QED BY <1>2, <1>3

\* The instructions.
VsetAt(m, a, i, v) == m[a] = 1 /\ m[a + 1] = i /\ FetchDword(m, a + 2) = v % DwordMod
VcrlAt(m, a, id, i) == m[a] = 240 /\ m[a + 1] = i /\ WordAt(m, a + 2, id)
TwoAt(m, a, op, i, j) == m[a] = op /\ m[a + 1] = i /\ m[a + 2] = j
BranchAt(m, a, op, d) == m[a] = op /\ WordAt(m, a + 1, d)

LEMMA VsetLoaded ==
  ASSUME NEW i \in 0 .. 15, NEW v \in Int
  PROVE  /\ Vset(i, v) \in Seq(Byte) /\ Len(Vset(i, v)) = 2 + DwordBytes
         /\ \A m : \A a \in Int : Loaded(m, a, Vset(i, v)) => VsetAt(m, a, i, v)
<1>1. 1 \in Byte /\ i \in Byte
  BY DEF Byte
<1>2. <<1, i>> \in Seq(Byte) /\ Len(<<1, i>>) = 2 /\ Dd(v) \in Seq(Byte) /\ Len(Dd(v)) = DwordBytes
  BY <1>1, PairLoaded, DwordLoaded
<1>3. ASSUME NEW m, NEW a \in Int, Loaded(m, a, Vset(i, v)) PROVE VsetAt(m, a, i, v)
  <2>1. Loaded(m, a, <<1, i>>) /\ Loaded(m, a + 2, Dd(v))
    BY <1>2, <1>3, Joined DEF Vset
  <2>. QED BY <1>1, <2>1, PairLoaded, DwordLoaded DEF VsetAt
<1>. QED BY <1>2, <1>3, Joined DEF Vset

LEMMA VcrlLoaded ==
  ASSUME NEW id \in Int, NEW i \in 0 .. 15
  PROVE  /\ Vcrl(id, i) \in Seq(Byte) /\ Len(Vcrl(id, i)) = 4
         /\ \A m : \A a \in Int : Loaded(m, a, Vcrl(id, i)) => VcrlAt(m, a, id, i)
<1>1. 240 \in Byte /\ i \in Byte
  BY DEF Byte
<1>2. <<240, i>> \in Seq(Byte) /\ Len(<<240, i>>) = 2 /\ Dw(id) \in Seq(Byte) /\ Len(Dw(id)) = 2
  BY <1>1, PairLoaded, WordLoaded
<1>3. ASSUME NEW m, NEW a \in Int, Loaded(m, a, Vcrl(id, i)) PROVE VcrlAt(m, a, id, i)
  <2>1. Loaded(m, a, <<240, i>>) /\ Loaded(m, a + 2, Dw(id))
    BY <1>2, <1>3, Joined DEF Vcrl
  <2>2. a + 2 \in Int OBVIOUS
  <2>. QED BY <1>1, <2>1, <2>2, PairLoaded, WordLoaded DEF VcrlAt
<1>4. /\ <<240, i>> \o Dw(id) \in Seq(Byte)
      /\ Len(<<240, i>> \o Dw(id)) = Len(<<240, i>>) + Len(Dw(id))
  BY <1>2, Joined
<1>. QED BY <1>2, <1>3, <1>4 DEF Vcrl

LEMMA TwoLoaded ==
  ASSUME NEW op \in Byte, NEW i \in Byte, NEW j \in Byte
  PROVE  /\ Two(op, i, j) \in Seq(Byte) /\ Len(Two(op, i, j)) = 3
         /\ \A m : \A a \in Int : Loaded(m, a, Two(op, i, j)) => TwoAt(m, a, op, i, j)
  BY Three DEF Two, TwoAt

LEMMA BranchLoaded ==
  ASSUME NEW op \in Byte, NEW from \in Int, NEW to \in Int
  PROVE  /\ Branch(op, from, to) \in Seq(Byte) /\ Len(Branch(op, from, to)) = 3
         /\ \A m : \A a \in Int : Loaded(m, a, Branch(op, from, to)) =>
              BranchAt(m, a, op, to - (from + 3))
<1>. DEFINE d == to - (from + 3)
<1>1. d \in Int OBVIOUS
<1>. HIDE DEF d
<1>2. <<op>> \in Seq(Byte) /\ Len(<<op>>) = 1 /\ Dw(d) \in Seq(Byte) /\ Len(Dw(d)) = 2
  BY <1>1, OneLoaded, WordLoaded
<1>3. Branch(op, from, to) = <<op>> \o Dw(d)
  BY DEF Branch, d
<1>4. ASSUME NEW m, NEW a \in Int, Loaded(m, a, <<op>> \o Dw(d)) PROVE BranchAt(m, a, op, d)
  <2>1. Loaded(m, a, <<op>>) /\ Loaded(m, a + 1, Dw(d))
    BY <1>2, <1>4, Joined
  <2>2. a + 1 \in Int OBVIOUS
  <2>. QED BY <1>1, <2>1, <2>2, OneLoaded, WordLoaded DEF BranchAt
<1>5. <<op>> \o Dw(d) \in Seq(Byte) /\ Len(<<op>> \o Dw(d)) = Len(<<op>>) + Len(Dw(d))
  BY <1>2, Joined
<1>6. Branch(op, from, to) \in Seq(Byte) /\ Len(Branch(op, from, to)) = 3
  BY <1>2, <1>3, <1>5
<1>7. \A m : \A a \in Int : Loaded(m, a, Branch(op, from, to)) => BranchAt(m, a, op, d)
  BY <1>3, <1>4
<1>. QED BY <1>6, <1>7 DEF d

-----------------------------------------------------------------------------
(* One instruction of a program that has interrupts served.                *)

\* Where the jump at address a goes.
To(m, a) == (a + 3 + (m[a + 1] + 256 * m[(a + 1) + 1])) % RamSize

\* A program p, after its setup: p.main are the instructions of its main loop,
\* p.regs its registers there, p.handler those of its handlers up to the
\* last load of the control word, p.starts where they begin, p.ends the virets
\* after it, p.ints the interrupts its devices may raise.  The image of the
\* program, p.image, lies below the one frame that the stack will hold.
Below(a) == a \in Nat /\ a + 8 <= RamSize - 17 * DwordBytes
TimerAllowed(p, m, a) == m[a + 2] = 112 => INT_PIT \in p.ints
HandlerAt(p, m, a) ==
  /\ Below(a)
  /\ \/ m[a] = 1 /\ m[a + 1] % 16 < 14 /\ a + 2 + DwordBytes \in p.handler
     \/ m[a] = 32 /\ a + 3 \in p.handler
     \/ m[a] = 33 /\ a + 3 \in p.handler /\ To(m, a) \in p.handler
     \/ m[a] = 64 /\ To(m, a) \in p.handler
     \/ m[a] = 240 /\ WordAt(m, a + 2, CREG_INT_CONTROL) /\ a + 4 \in p.ends
     \/ m[a] = 242 /\ TimerAllowed(p, m, a) /\ a + 3 \in p.handler
     \/ m[a] = 243 /\ m[a + 1] % 16 < 14 /\ a + 3 \in p.handler
MainAt(p, m, a) ==
  /\ Below(a)
  /\ \/ m[a] = 64 /\ To(m, a) \in p.main
     \/ m[a] = 242 /\ TimerAllowed(p, m, a) /\ a + 3 \in p.main
EndAt(m, a) == Below(a) /\ m[a] = 244

\* The code of p is in m.
Holds(p, m) ==
  /\ Loaded(m, 0, p.image) /\ Len(p.image) \in Nat /\ Len(p.image) < RamSize - 17 * DwordBytes
  /\ \A a \in p.handler : HandlerAt(p, m, a)
  /\ \A a \in p.main : MainAt(p, m, a)
  /\ \A a \in p.ends : EndAt(m, a)

LEMMA HoldsBelow ==
  ASSUME NEW p, NEW m, NEW n, Holds(p, m),
         \A x \in Nat : x < RamSize - 17 * DwordBytes => n[x] = m[x]
  PROVE  Holds(p, n)
<1>1. ASSUME NEW a, Below(a)
      PROVE  /\ n[a] = m[a] /\ n[a + 1] = m[a + 1] /\ n[a + 2] = m[a + 2]
             /\ n[(a + 1) + 1] = m[(a + 1) + 1] /\ n[(a + 2) + 1] = m[(a + 2) + 1]
  BY <1>1, RamSizeAssumption, DwordBytesAssumption DEF Below
<1>2. ASSUME NEW a \in p.handler PROVE HandlerAt(p, n, a)
  BY <1>1, <1>2 DEF Holds, HandlerAt, TimerAllowed, WordAt, To
<1>3. ASSUME NEW a \in p.main PROVE MainAt(p, n, a)
  BY <1>1, <1>3 DEF Holds, MainAt, TimerAllowed, To
<1>4. ASSUME NEW a \in p.ends PROVE EndAt(n, a)
  BY <1>1, <1>4 DEF Holds, EndAt
<1>5. Loaded(n, 0, p.image)
  <2>1. ASSUME NEW i \in 1 .. Len(p.image) PROVE n[0 + i - 1] = p.image[i]
    <3>1. 0 + i - 1 \in Nat /\ 0 + i - 1 < RamSize - 17 * DwordBytes
      BY RamSizeAssumption, DwordBytesAssumption DEF Holds
    <3>. QED BY <3>1 DEF Holds, Loaded
  <2>. QED BY <2>1 DEF Loaded
<1>. QED BY <1>2, <1>3, <1>4, <1>5 DEF Holds

\* What the CPU does when it is about to execute one of these opcodes.
LEMMA Which ==
  ASSUME CpuTypeOK, phase = "exec", ~terminated, Below(pc), CpuStep \/ VOUTB \/ VINB,
         mem[pc] \in {1, 32, 33, 64, 240, 242, 243, 244}
  PROVE  /\ mem[pc] = 1 => VSET
         /\ mem[pc] = 32 => VCMP
         /\ mem[pc] = 33 => JumpNear
         /\ mem[pc] = 64 => JumpNear
         /\ mem[pc] = 240 => UnknownCreg \/ VCRL
         /\ mem[pc] = 242 => VOUTB
         /\ mem[pc] = 243 => VINB
         /\ mem[pc] = 244 => VIRET
<1>1. ~ NoInterrupt /\ ~ TakeInterrupt /\ ~ CrashOnInterrupt
  BY DEF NoInterrupt, TakeInterrupt, CrashOnInterrupt
<1>2. ~ FetchOutsideRam /\ ~ UnknownOpcode
  <2>1. mem[pc] \in Opcodes /\ OpLength(mem[pc]) \in 0 .. 5
    BY DwordModType DEF Opcodes, OpLength
  <2>2. InRam(pc, 1) /\ ManyInRam(pc + 1, OpLength(mem[pc]))
    BY <2>1, RamSizeAssumption, DwordBytesAssumption DEF InRam, ManyInRam, Below
  <2>. QED BY <2>1, <2>2 DEF FetchOutsideRam, UnknownOpcode
<1>3. /\ VMOV => mem[pc] = 0
      /\ VSET => mem[pc] = 1
      /\ Alu => mem[pc] \in 16 .. 26
      /\ DivideByZero => mem[pc] \in 16 .. 26
      /\ VLD => mem[pc] = 2
      /\ VLDB => mem[pc] = 4
      /\ VST => mem[pc] = 3
      /\ VSTB => mem[pc] = 5
  BY DEF VMOV, VSET, Alu, DivideByZero, VLD, VLDB, VST, VSTB, Op
<1>4. /\ VCMP => mem[pc] = 32
      /\ JumpNear => mem[pc] \in 33 .. 38 \/ mem[pc] = 64
      /\ VJMPR => mem[pc] = 65
      /\ VPUSH => mem[pc] = 48
      /\ VCALL => mem[pc] = 66
      /\ VCALLR => mem[pc] = 67
      /\ VPOP => mem[pc] = 49
      /\ VRET => mem[pc] = 68
  BY DEF VCMP, JumpNear, VJMPR, VPUSH, VCALL, VCALLR, VPOP, VRET, Op
<1>5. /\ UnknownCreg => mem[pc] \in {240, 241}
      /\ VCRL => mem[pc] = 240
      /\ VCRS => mem[pc] = 241
      /\ VIRET => mem[pc] = 244
      /\ Stop => mem[pc] \in {254, 255}
      /\ VOUTB => mem[pc] = 242
      /\ VINB => mem[pc] = 243
  BY DEF UnknownCreg, VCRL, VCRS, VIRET, Stop, VOUTB, VINB, Op
<1>6. \/ VMOV \/ VSET \/ Alu \/ DivideByZero \/ VLD \/ VLDB \/ VST \/ VSTB
      \/ VCMP \/ JumpNear \/ VJMPR \/ VPUSH \/ VCALL \/ VCALLR \/ VPOP \/ VRET
      \/ UnknownCreg \/ VCRL \/ VCRS \/ VIRET \/ Stop \/ VOUTB \/ VINB
  BY <1>1, <1>2 DEF CpuStep, Execute
<1>. QED BY <1>3, <1>4, <1>5, <1>6

\* The registers a handler sees.
LEMMA SeenRegisters ==
  ASSUME CpuTypeOK
  PROVE  /\ pc \in Int /\ R = [r EXCEPT ![15] = pc + 1 + OpLength(mem[pc])]
         /\ mem[pc] = 1 => OpLength(mem[pc]) = 1 + DwordBytes
         /\ mem[pc] \in {32, 33, 64, 242, 243} => OpLength(mem[pc]) = 2
         /\ mem[pc] = 240 => OpLength(mem[pc]) = 3
<1>1. pc \in Int /\ R = [r EXCEPT ![15] = pc + 1 + OpLength(mem[pc])]
  BY DEF R, pc, CpuTypeOK, Reg
<1>2. /\ mem[pc] = 1 => OpLength(mem[pc]) = 1 + DwordBytes
      /\ mem[pc] = 240 => OpLength(mem[pc]) = 3
  BY DEF OpLength
<1>3. mem[pc] \in {32, 33, 64, 242, 243} => OpLength(mem[pc]) = 2
  BY DEF OpLength
<1>. QED BY <1>1, <1>2, <1>3

\* The effect of an instruction on the registers, exactly or up to those that
\* a handler may change.
GoesTo(b) == r' = [r EXCEPT ![15] = b]
KeepsStack(b) == sp' = sp /\ pc' = b
OnlyLocal == phase' = "fetch" /\ UNCHANGED <<mem, cr, terminated, interrupt_queue>>

LEMMA StackKept ==
  ASSUME CpuTypeOK, NEW i \in Reg, i < 14, NEW b, NEW v, r' = [r EXCEPT ![15] = b, ![i] = v]
  PROVE  KeepsStack(b)
<1>1. r \in [Reg -> Int]
  BY DEF CpuTypeOK
<1>2. r'[14] = r[14] /\ r'[15] = b
  BY <1>1 DEF Reg
<1>. QED BY <1>2 DEF KeepsStack, sp, pc

LEMMA VsetRuns ==
  ASSUME CpuTypeOK, VSET, NEW i \in Reg, i < 14, mem[pc + 1] % 16 = i
  PROVE  /\ OnlyLocal /\ UNCHANGED <<fr, defered_queue>>
         /\ KeepsStack(pc + 2 + DwordBytes)
         /\ r' = [r EXCEPT ![15] = pc + 2 + DwordBytes, ![i] = FetchDword(mem, pc + 2)]
<1>1. mem[pc] = 1 /\ phase' = "fetch" /\ r' = [R EXCEPT ![i] = FetchDword(mem, pc + 2)]
  BY DEF VSET, Op, Set, X, Arg
<1>2. pc + 1 + (1 + DwordBytes) = pc + 2 + DwordBytes
  BY SeenRegisters, DwordBytesAssumption
<1>3. R = [r EXCEPT ![15] = pc + 2 + DwordBytes]
  <2>1. R = [r EXCEPT ![15] = pc + 1 + OpLength(mem[pc])] /\ OpLength(mem[pc]) = 1 + DwordBytes
    BY <1>1, SeenRegisters
  <2>. QED BY <1>2, <2>1
<1>4. r' = [r EXCEPT ![15] = pc + 2 + DwordBytes, ![i] = FetchDword(mem, pc + 2)]
  BY <1>1, <1>3
<1>5. KeepsStack(pc + 2 + DwordBytes)
  BY <1>4, StackKept
<1>. QED BY <1>1, <1>4, <1>5 DEF OnlyLocal, VSET, OnlyRegs

LEMMA CompareRuns ==
  ASSUME CpuTypeOK, VCMP
  PROVE  OnlyLocal /\ UNCHANGED defered_queue /\ KeepsStack(pc + 3)
<1>1. mem[pc] = 32 /\ phase' = "fetch" /\ r' = R
  BY DEF VCMP, Op, Advance
<1>2. r' = [r EXCEPT ![15] = pc + 3]
  BY <1>1, SeenRegisters
<1>. QED BY <1>1, <1>2 DEF OnlyLocal, VCMP, KeepsStack, sp, pc, CpuTypeOK, Reg

LEMMA JumpRuns ==
  ASSUME CpuTypeOK, JumpNear, mem[pc] \in {33, 64}
  PROVE  /\ OnlyLocal /\ UNCHANGED <<fr, defered_queue>>
         /\ \/ GoesTo(To(mem, pc)) /\ KeepsStack(To(mem, pc))
            \/ mem[pc] = 33 /\ GoesTo(pc + 3) /\ KeepsStack(pc + 3)
<1>1. /\ phase' = "fetch" /\ OnlyRegs
      /\ IF JumpTaken(mem[pc]) THEN Jump(Near) ELSE Advance
  BY DEF JumpNear, Op
<1>2. R = [r EXCEPT ![15] = pc + 3] /\ R[15] = pc + 3 /\ pc \in Int
  <2>1. R = [r EXCEPT ![15] = pc + 1 + OpLength(mem[pc])] /\ OpLength(mem[pc]) = 2 /\ pc \in Int
    BY SeenRegisters
  <2>2. pc + 1 + 2 = pc + 3 BY <2>1
  <2>3. r \in [Reg -> Int] /\ 15 \in Reg BY DEF CpuTypeOK, Reg
  <2>. QED BY <2>1, <2>2, <2>3
<1>3. Near % RamSize = To(mem, pc)
  BY <1>2 DEF Near, WordArg, DwAt, To
<1>4. CASE Jump(Near)
  <2>1. r' = [R EXCEPT ![15] = To(mem, pc)]
    BY <1>3, <1>4 DEF Jump, Set
  <2>2. r' = [r EXCEPT ![15] = To(mem, pc)]
    BY <1>2, <2>1 DEF CpuTypeOK
  <2>. QED BY <1>1, <2>2 DEF OnlyLocal, OnlyRegs, GoesTo, KeepsStack, sp, pc, CpuTypeOK, Reg
<1>5. CASE ~ JumpTaken(mem[pc]) /\ Advance
  <2>1. mem[pc] = 33
    BY <1>5 DEF JumpTaken
  <2>2. r' = [r EXCEPT ![15] = pc + 3]
    BY <1>2, <1>5 DEF Advance
  <2>. QED BY <1>1, <2>1, <2>2 DEF OnlyLocal, OnlyRegs, GoesTo, KeepsStack, sp, pc, CpuTypeOK, Reg
<1>. QED BY <1>1, <1>4, <1>5

LEMMA LoadRuns ==
  ASSUME CpuTypeOK, UnknownCreg \/ VCRL, mem[pc] = 240, NEW id \in Cregs, WordAt(mem, pc + 2, id)
  PROVE  /\ OnlyLocal /\ UNCHANGED fr /\ GoesTo(pc + 4) /\ KeepsStack(pc + 4)
         /\ defered_queue' = Append(defered_queue, [id |-> id, v |-> R[X]])
<1>1. CregArg = id
  BY DEF CregArg, DwAt, WordAt, Cregs, CREG_INT_FIRST, CREG_INT_LAST, CREG_INT_CONTROL
<1>2. VCRL
  BY <1>1 DEF UnknownCreg
<1>3. r' = [r EXCEPT ![15] = pc + 4]
  BY <1>2, SeenRegisters DEF VCRL, Advance
<1>. QED BY <1>1, <1>2, <1>3 DEF OnlyLocal, VCRL, Op, GoesTo, KeepsStack, sp, pc, CpuTypeOK, Reg

\* What writing to a port does to the timer.
TimerStays == pit_worker' = pit_worker /\ (active' => active)

LEMMA WriteRuns ==
  ASSUME CpuTypeOK, VOUTB
  PROVE  /\ OnlyLocal /\ UNCHANGED <<fr, defered_queue>> /\ GoesTo(pc + 3) /\ KeepsStack(pc + 3)
         /\ pit_worker' = pit_worker
         /\ TimerStays \/ mem[pc + 2] = 112
<1>1. mem[pc] = 242 /\ phase' = "fetch" /\ r' = R
  BY DEF VOUTB, Op, Advance
<1>2. r' = [r EXCEPT ![15] = pc + 3]
  BY <1>1, SeenRegisters
<1>3. pit_worker' = pit_worker /\ (TimerStays \/ mem[pc + 2] = 112)
  BY DEF VOUTB, TimerOut, TimerStays, Arg, pitVars
<1>. QED BY <1>1, <1>2, <1>3
     DEF OnlyLocal, VOUTB, OtherCpuVars, GoesTo, KeepsStack, sp, pc, CpuTypeOK, Reg

LEMMA ReadRuns ==
  ASSUME CpuTypeOK, VINB, NEW i \in Reg, i < 14, mem[pc + 1] % 16 = i
  PROVE  OnlyLocal /\ UNCHANGED <<fr, defered_queue>> /\ KeepsStack(pc + 3) /\ TimerStays
<1>1. mem[pc] = 243 /\ phase' = "fetch" /\ X = i
  BY DEF VINB, Op, X, Arg
<1>2. R = [r EXCEPT ![15] = pc + 3]
  BY <1>1, SeenRegisters
<1>3. r' = R \/ \E v : r' = [R EXCEPT ![i] = v]
  BY <1>1 DEF VINB, Set, Advance
<1>4. KeepsStack(pc + 3)
  <2>1. CASE r' = R
    BY <1>2, <2>1 DEF KeepsStack, sp, pc, CpuTypeOK, Reg
  <2>2. ASSUME NEW v, r' = [R EXCEPT ![i] = v] PROVE KeepsStack(pc + 3)
    <3>1. r' = [r EXCEPT ![15] = pc + 3, ![i] = v] BY <1>2, <2>2
    <3>. QED BY <3>1, StackKept
  <2>. QED BY <1>3, <2>1, <2>2
<1>5. TimerStays
  BY DEF VINB, TimerIn, TimerStays, pitVars
<1>. QED BY <1>1, <1>4, <1>5 DEF OnlyLocal, VINB, OtherCpuVars

\* The context of the main loop at its instruction a.
RegsAt(p, a) == [p.regs EXCEPT ![15] = a]
Ctx(p, a) == [j \in Slots |-> IF j = 16 THEN 0 ELSE RegsAt(p, a)[j]]

\* A program whose stack is empty in its main loop.
IsProgram(p) ==
  /\ p.regs \in [Reg -> 0 .. DwordMod - 1] /\ p.regs[14] = RamSize
  /\ p.ints \subseteq MASKABLE_INTS /\ INT_CONSOLE \in p.ints /\ p.starts \subseteq p.handler
StackFits == Pushable(RamSize) = 17 /\ RamSize < DwordMod

\* No fault waits, and only devices that p uses interrupt it.
Calm(p) ==
  /\ ~ terminated /\ interrupt_queue \in Seq(p.ints)
  /\ active \/ pit_worker = "raise" => INT_PIT \in p.ints

\* The invariant of a program that has been set up: it runs its main loop, or
\* one handler on one frame, with the interrupts off up to its viret.
OnMain(p) ==
  \E a \in p.main : r = RegsAt(p, a) /\ fr = 0 /\ defered_queue = <<>>
Serves(p) == pc \in p.handler /\ defered_queue = <<>> /\ ~ MaskableEnabled
PutOff(p) ==
  /\ pc \in p.ends /\ phase = "fetch" /\ ~ MaskableEnabled
  /\ \E l \in Load : l.id = CREG_INT_CONTROL /\ defered_queue = <<l>>
Ends(p) == pc \in p.ends /\ phase = "exec"
InHandler(p) ==
  (\E a \in p.main : FrameOnStack(RamSize, Ctx(p, a))) /\ (Serves(p) \/ PutOff(p) \/ Ends(p))
Vectors(p) == \A i \in p.ints : cr[CREG_INT_FIRST + i] \in p.starts
Running(p) == Holds(p, mem) /\ Vectors(p) /\ (OnMain(p) \/ InHandler(p))

LEMMA RunningStays ==
  ASSUME NEW p, Running(p), UNCHANGED <<mem, r, fr, cr, defered_queue, phase>>
  PROVE  Running(p)'
<1>1. OnMain(p) => OnMain(p)'
  BY DEF OnMain
<1>2. InHandler(p) => InHandler(p)'
  BY DEF InHandler, FrameOnStack, Serves, PutOff, Ends, sp, pc, MaskableEnabled
<1>3. Vectors(p)' /\ Holds(p, mem)'
  BY DEF Running, Vectors
<1>. QED BY <1>1, <1>2, <1>3 DEF Running

LEMMA CalmQuiet ==
  ASSUME CpuTypeOK, NEW p, IsProgram(p), Calm(p), ~ MaskableEnabled PROVE Quiet
<1>1. interrupt_queue \in Seq(p.ints) /\ p.ints \subseteq MASKABLE_INTS
  BY DEF Calm, IsProgram
<1>2. \A k \in DOMAIN interrupt_queue : interrupt_queue[k] \in p.ints
  BY <1>1, ElementOfSeq, LenProperties
<1>3. \A i \in p.ints : i \notin Faults
  BY <1>1 DEF MASKABLE_INTS, Faults, INT_PIT, INT_CONSOLE, INT_MEMORY_ERROR,
     INT_DIVISION_ERROR, INT_GENERAL_ERROR
<1>4. FaultsWaiting = {}
  BY <1>2, <1>3 DEF FaultsWaiting
<1>. QED BY <1>4 DEF Quiet

\* Each interrupt that a device raises is one of the program's.
LEMMA CalmStays ==
  ASSUME NEW p, IsProgram(p), Calm(p),
         Boot \/ ConsoleThread \/ TimerThread \/ Clock \/ Leave \/ UNCHANGED machineVars
  PROVE  Calm(p)'
<1>0. interrupt_queue \in Seq(p.ints) /\ INT_CONSOLE \in p.ints
  BY DEF Calm, IsProgram
<1>1. CASE Boot \/ Clock \/ Leave \/ UNCHANGED machineVars
  <2>1. UNCHANGED <<terminated, interrupt_queue, active, pit_worker>>
    BY <1>1 DEF Boot, Clock, Tick, Leave, machineVars, cpuVars, pitVars
  <2>. QED BY <2>1 DEF Calm
<1>2. CASE ConsoleThread
  <2>1. UNCHANGED <<terminated, active, pit_worker>>
    BY <1>2 DEF ConsoleThread, pitVars
  <2>2. UNCHANGED interrupt_queue \/ interrupt_queue' = Append(interrupt_queue, INT_CONSOLE)
    BY <1>2 DEF ConsoleThread, ConsoleWorker, RaiseConsole, Interrupt
  <2>3. interrupt_queue' \in Seq(p.ints)
    BY <1>0, <2>2, AppendProperties
  <2>. QED BY <2>1, <2>3 DEF Calm
<1>3. CASE TimerThread
  <2>1. UNCHANGED terminated
    BY <1>3 DEF TimerThread
  <2>2. CASE TimerExpires /\ UNCHANGED interrupt_queue
    BY <2>1, <2>2 DEF TimerExpires, Calm
  <2>3. CASE TimerExits /\ UNCHANGED interrupt_queue
    BY <2>1, <2>3 DEF TimerExits, Calm
  <2>4. CASE RaisePit
    <3>1. pit_worker = "raise" /\ interrupt_queue' = Append(interrupt_queue, INT_PIT)
          /\ pit_worker' = "poll" /\ active' = active
      BY <2>4 DEF RaisePit, Interrupt
    <3>2. INT_PIT \in p.ints
      BY <3>1 DEF Calm
    <3>3. interrupt_queue' \in Seq(p.ints)
      BY <1>0, <3>1, <3>2, AppendProperties
    <3>. QED BY <2>1, <3>1, <3>2, <3>3 DEF Calm
  <2>. QED BY <1>3, <2>2, <2>3, <2>4 DEF TimerThread
<1>. QED BY <1>1, <1>2, <1>3

\* Between two instructions the CPU takes an interrupt or does not.
LEMMA FetchStep ==
  ASSUME phase = "fetch", CpuStep \/ VOUTB \/ VINB
  PROVE  NoInterrupt \/ TakeInterrupt \/ CrashOnInterrupt
<1>1. \A ops : ~ Op(ops)
  BY DEF Op
<1>2. ~ FetchOutsideRam /\ ~ UnknownOpcode
  BY DEF FetchOutsideRam, UnknownOpcode
<1>3. ~ VOUTB /\ ~ VINB
  BY <1>1 DEF VOUTB, VINB
<1>. QED BY <1>1, <1>2, <1>3 DEF CpuStep, Execute, VMOV, VSET, Alu, DivideByZero,
       VLD, VLDB, VST, VSTB, VCMP, JumpNear, VJMPR, VPUSH, VCALL, VCALLR, VPOP, VRET, UnknownCreg,
       VCRL, VCRS, VIRET, Stop

LEMMA VectorsKept ==
  ASSUME NEW p, IsProgram(p), Vectors(p), cr \in [Cregs -> Int],
         \A id \in Cregs : id # CREG_INT_CONTROL => cr'[id] = cr[id]
  PROVE  Vectors(p)'
<1>1. \A i \in p.ints : CREG_INT_FIRST + i \in Cregs /\ CREG_INT_FIRST + i # CREG_INT_CONTROL
  BY DEF IsProgram, MASKABLE_INTS, INT_PIT, INT_CONSOLE, Cregs, CREG_INT_FIRST, CREG_INT_LAST,
     CREG_INT_CONTROL
<1>. QED BY <1>1 DEF Vectors

LEMMA NoInterruptRuns ==
  ASSUME CpuTypeOK, NEW p, IsProgram(p), Calm(p), Running(p), NoInterrupt
  PROVE  Running(p)'
<1>1. /\ phase = "fetch" /\ phase' = "exec" /\ defered_queue' = <<>>
      /\ UNCHANGED <<mem, r, fr, terminated, interrupt_queue>> /\ Drain
  BY DEF NoInterrupt
<1>2. Holds(p, mem)'
  BY <1>1 DEF Running
<1>3. CASE defered_queue = <<>>
  <2>1. cr' = cr
    BY <1>1, <1>3 DEF Drain
  <2>2. OnMain(p) => OnMain(p)'
    BY <1>1 DEF OnMain
  <2>3. InHandler(p) => InHandler(p)'
    <3>1. ~ PutOff(p) /\ ~ Ends(p)
      BY <1>1, <1>3 DEF PutOff, Ends
    <3>2. Serves(p) => Serves(p)'
      BY <1>1, <2>1 DEF Serves, pc, MaskableEnabled
    <3>. QED BY <1>1, <3>1, <3>2 DEF InHandler, FrameOnStack, sp
  <2>. QED BY <1>2, <2>1, <2>2, <2>3 DEF Running, Vectors
<1>4. CASE defered_queue # <<>>
  <2>1. InHandler(p) /\ PutOff(p)
    BY <1>1, <1>4 DEF Running, OnMain, InHandler, Serves, Ends
  <2>2. PICK l \in Load : l.id = CREG_INT_CONTROL /\ defered_queue = <<l>>
    BY <2>1 DEF PutOff
  <2>3. cr' = [cr EXCEPT ![CREG_INT_CONTROL] = l.v]
    BY <1>1, <2>2 DEF Drain
  <2>4. Vectors(p)'
    BY <2>3, VectorsKept DEF Running, CpuTypeOK
  <2>5. InHandler(p)'
    BY <1>1, <2>1 DEF InHandler, FrameOnStack, PutOff, Ends, sp, pc
  <2>. QED BY <1>2, <2>4, <2>5 DEF Running
<1>. QED BY <1>3, <1>4

LEMMA TakeInterruptRuns ==
  ASSUME CpuTypeOK, NEW p, IsProgram(p), StackFits, Calm(p), Running(p), TakeInterrupt
  PROVE  /\ Running(p)' /\ interrupt_queue' \in Seq(p.ints)
         /\ pc' \in p.starts /\ pc \in p.main
<1>1. phase = "fetch"
  BY DEF TakeInterrupt
<1>2. MaskableEnabled
  BY CalmQuiet, QuietTakesNothing
<1>3. OnMain(p)
  BY <1>1, <1>2 DEF Running, InHandler, Serves, PutOff, Ends
<1>4. PICK a \in p.main : r = RegsAt(p, a) /\ fr = 0 /\ defered_queue = <<>>
  BY <1>3 DEF OnMain
<1>5. p.regs \in [Reg -> 0 .. DwordMod - 1] /\ p.regs[14] = RamSize
  BY DEF IsProgram
<1>6. sp = RamSize /\ Context = Ctx(p, a)
  <2>1. sp = RamSize
    BY <1>4, <1>5 DEF RegsAt, sp, Reg
  <2>. QED BY <1>4, <2>1 DEF Context, Ctx
<1>7. FrameOnStack(RamSize, Ctx(p, a))' /\ ~ MaskableEnabled'
  BY <1>4, <1>6, RamSizeAssumption, TakingSaves
<1>8. PICK k \in Eligible :
        /\ interrupt_queue' = WithoutPosition(interrupt_queue, k)
        /\ r' = [r EXCEPT ![14] = SlotAddr(sp, 16),
                          ![15] = cr[CREG_INT_FIRST + (interrupt_queue[k] % 16)]]
  BY DEF TakeInterrupt
<1>9. interrupt_queue \in Seq(p.ints) /\ k \in 1 .. Len(interrupt_queue)
  BY <1>8 DEF Calm, Eligible
<1>10. interrupt_queue' \in Seq(p.ints)
  BY <1>8, <1>9, WithoutType
<1>11. pc' \in p.starts /\ pc' \in p.handler
  <2>1. interrupt_queue[k] \in p.ints
    BY <1>9, ElementOfSeq
  <2>2. interrupt_queue[k] % 16 = interrupt_queue[k]
    BY <2>1 DEF IsProgram, MASKABLE_INTS, INT_PIT, INT_CONSOLE
  <2>3. pc' = cr[CREG_INT_FIRST + (interrupt_queue[k] % 16)]
    BY <1>8 DEF pc, CpuTypeOK, Reg
  <2>. QED BY <2>1, <2>2, <2>3 DEF Running, Vectors, IsProgram
<1>12. defered_queue' = <<>>
  BY DEF TakeInterrupt
<1>13. Vectors(p)'
  <2>1. cr' = [cr EXCEPT ![CREG_INT_CONTROL] = (@ % DwordMod) - (@ % 2)]
    BY <1>4 DEF TakeInterrupt
  <2>2. cr \in [Cregs -> Int]
    BY DEF CpuTypeOK
  <2>. QED BY <2>1, <2>2, VectorsKept DEF Running
<1>14. Holds(p, mem)'
  <2>1. mem' = SaveContext(mem, RamSize, Ctx(p, a), 17)
    BY <1>6 DEF TakeInterrupt
  <2>2. ASSUME NEW x \in Nat, x < RamSize - 17 * DwordBytes PROVE mem'[x] = mem[x]
    <3>1. x \in Addr /\ x \notin RamSize - 17 * DwordBytes .. RamSize - 1
      BY <2>2, RamSizeAssumption, DwordBytesAssumption DEF Addr
    <3>. QED BY <2>1, <3>1 DEF SaveContext
  <2>3. Holds(p, mem)
    BY DEF Running
  <2>. QED BY <2>2, <2>3, HoldsBelow
<1>15. InHandler(p)'
  BY <1>7, <1>11, <1>12 DEF InHandler, Serves
<1>16. pc = a
  BY <1>4, <1>5 DEF RegsAt, pc, Reg
<1>. QED BY <1>10, <1>11, <1>13, <1>14, <1>15, <1>16 DEF Running

LEMMA NeverCrashes ==
  ASSUME CpuTypeOK, NEW p, IsProgram(p), StackFits, Calm(p), Running(p)
  PROVE  ~ CrashOnInterrupt
<1>. SUFFICES ASSUME CrashOnInterrupt PROVE FALSE
  OBVIOUS
<1>1. phase = "fetch" /\ Pushable(sp) < 17
  BY DEF CrashOnInterrupt
<1>2. MaskableEnabled
  BY CalmQuiet, QuietTakesNothing
<1>3. PICK a \in p.main : r = RegsAt(p, a)
  BY <1>1, <1>2 DEF Running, OnMain, InHandler, Serves, PutOff, Ends
<1>4. sp = RamSize
  BY <1>3 DEF RegsAt, sp, Reg, IsProgram
<1>. QED BY <1>1, <1>4 DEF StackFits

\* What an instruction of a handler does: it leaves the stack alone.
HandlerStep(p) ==
  /\ OnlyLocal /\ pit_worker' = pit_worker /\ (active' => active \/ INT_PIT \in p.ints)
  /\ sp' = sp
  /\ \/ UNCHANGED defered_queue /\ pc' \in p.handler
     \/ /\ \E l \in Load : l.id = CREG_INT_CONTROL /\ defered_queue' = Append(defered_queue, l)
        /\ pc' \in p.ends

LEMMA RegisterOf == ASSUME CpuTypeOK, NEW a, Below(a) PROVE mem[a + 1] % 16 \in Reg
<1>1. a + 1 \in Addr
  BY RamSizeAssumption, DwordBytesAssumption DEF Below, Addr
<1>2. mem[a + 1] \in 0 .. 255
  BY <1>1 DEF CpuTypeOK, Ram, Byte
<1>. QED BY <1>2 DEF Reg

LEMMA HandlerRuns ==
  ASSUME CpuTypeOK, NEW p, phase = "exec", ~terminated, HandlerAt(p, mem, pc), Cpu
  PROVE  HandlerStep(p)
<1>1. Below(pc)
  BY DEF HandlerAt
<1>2. mem[pc + 1] % 16 \in Reg
  BY <1>1, RegisterOf
<1>3. CpuStep \/ VOUTB \/ VINB
  BY DEF Cpu
<1>5. CASE mem[pc] = 1
  <2>1. VSET
    BY <1>1, <1>3, <1>5, Which
  <2>2. UNCHANGED pitVars
    BY <1>5, <2>1 DEF Cpu, VOUTB, VINB, Op
  <2>3. mem[pc + 1] % 16 < 14 /\ pc + 2 + DwordBytes \in p.handler
    BY <1>5 DEF HandlerAt
  <2>4. OnlyLocal /\ UNCHANGED defered_queue /\ KeepsStack(pc + 2 + DwordBytes)
    BY <1>2, <2>1, <2>3, VsetRuns
  <2>. QED BY <2>2, <2>3, <2>4 DEF HandlerStep, KeepsStack, pitVars
<1>6. CASE mem[pc] = 32
  <2>1. VCMP
    BY <1>1, <1>3, <1>6, Which
  <2>2. UNCHANGED pitVars
    BY <1>6, <2>1 DEF Cpu, VOUTB, VINB, Op
  <2>3. pc + 3 \in p.handler
    BY <1>6 DEF HandlerAt
  <2>. QED BY <2>1, <2>2, <2>3, CompareRuns DEF HandlerStep, KeepsStack, pitVars
<1>7. CASE mem[pc] \in {33, 64}
  <2>1. JumpNear
    BY <1>1, <1>3, <1>7, Which
  <2>2. UNCHANGED pitVars
    BY <1>7, <2>1 DEF Cpu, VOUTB, VINB, Op
  <2>3. To(mem, pc) \in p.handler /\ (mem[pc] = 33 => pc + 3 \in p.handler)
    BY <1>7 DEF HandlerAt
  <2>. QED BY <1>7, <2>1, <2>2, <2>3, JumpRuns DEF HandlerStep, KeepsStack, pitVars
<1>8. CASE mem[pc] = 240
  <2>1. UnknownCreg \/ VCRL
    BY <1>1, <1>3, <1>8, Which
  <2>2. UNCHANGED pitVars
    BY <1>8, <2>1 DEF Cpu, VOUTB, VINB, Op
  <2>3. WordAt(mem, pc + 2, CREG_INT_CONTROL) /\ pc + 4 \in p.ends
    BY <1>8 DEF HandlerAt
  <2>4. CREG_INT_CONTROL \in Cregs
    BY ControlWord
  <2>5. OnlyLocal /\ KeepsStack(pc + 4)
        /\ defered_queue' = Append(defered_queue, [id |-> CREG_INT_CONTROL, v |-> R[X]])
    BY <1>8, <2>1, <2>3, <2>4, LoadRuns
  <2>6. [id |-> CREG_INT_CONTROL, v |-> R[X]] \in Load
    <3>1. X \in Reg
      BY <1>2 DEF X, Arg
    <3>2. R \in Registers
      <4>1. r \in Registers /\ 15 \in Reg
        BY DEF CpuTypeOK, Registers, Reg
      <4>2. R = [r EXCEPT ![15] = pc + 1 + OpLength(mem[pc])] /\ OpLength(mem[pc]) = 3 /\ pc \in Int
        BY <1>8, SeenRegisters
      <4>3. pc + 1 + 3 \in Int
        BY <4>2
      <4>. QED BY <4>1, <4>2, <4>3, SetType
    <3>. QED BY <2>4, <3>1, <3>2, RValue DEF Load
  <2>. QED BY <2>2, <2>3, <2>5, <2>6 DEF HandlerStep, KeepsStack, pitVars
<1>9. CASE mem[pc] = 242
  <2>1. VOUTB
    BY <1>1, <1>3, <1>9, Which
  <2>2. TimerAllowed(p, mem, pc) /\ pc + 3 \in p.handler
    BY <1>9 DEF HandlerAt
  <2>. QED BY <2>1, <2>2, WriteRuns DEF HandlerStep, KeepsStack, TimerAllowed, TimerStays
<1>10. CASE mem[pc] = 243
  <2>1. VINB
    BY <1>1, <1>3, <1>10, Which
  <2>2. mem[pc + 1] % 16 < 14 /\ pc + 3 \in p.handler
    BY <1>10 DEF HandlerAt
  <2>. QED BY <1>2, <2>1, <2>2, ReadRuns DEF HandlerStep, KeepsStack, TimerStays
<1>. QED BY <1>5, <1>6, <1>7, <1>8, <1>9, <1>10 DEF HandlerAt

LEMMA ServesOn ==
  ASSUME CpuTypeOK, NEW p, Calm(p), Running(p), InHandler(p), Serves(p), phase = "exec", Cpu
  PROVE  Running(p)' /\ Calm(p)'
<1>1. HandlerStep(p)
  BY HandlerRuns DEF Running, Holds, Serves, Calm
<1>2. /\ phase' = "fetch" /\ UNCHANGED <<mem, cr, terminated, interrupt_queue>>
      /\ sp' = sp /\ defered_queue = <<>> /\ ~ MaskableEnabled'
  BY <1>1 DEF HandlerStep, OnlyLocal, Serves, MaskableEnabled
<1>3. \A a : FrameOnStack(RamSize, Ctx(p, a)) => FrameOnStack(RamSize, Ctx(p, a))'
  BY <1>2 DEF FrameOnStack
<1>4. Serves(p)' \/ PutOff(p)'
  <2>1. CASE UNCHANGED defered_queue /\ pc' \in p.handler
    BY <1>2, <2>1 DEF Serves
  <2>2. CASE /\ \E l \in Load : l.id = CREG_INT_CONTROL /\ defered_queue' = Append(defered_queue, l)
             /\ pc' \in p.ends
    <3>1. PICK l \in Load : l.id = CREG_INT_CONTROL /\ defered_queue' = Append(<<>>, l)
      BY <1>2, <2>2
    <3>2. Append(<<>>, l) = <<l>>
      OBVIOUS
    <3>. QED BY <1>2, <2>2, <3>1, <3>2 DEF PutOff
  <2>. QED BY <1>1, <2>1, <2>2 DEF HandlerStep
<1>5. InHandler(p)'
  BY <1>3, <1>4 DEF InHandler
<1>6. Calm(p)'
  BY <1>1, <1>2 DEF Calm, HandlerStep
<1>7. Vectors(p)' /\ Holds(p, mem)'
  BY <1>2 DEF Running, Vectors
<1>. QED BY <1>5, <1>6, <1>7 DEF Running

LEMMA EndsRun ==
  ASSUME CpuTypeOK, NEW p, IsProgram(p), StackFits, Calm(p), Running(p), defered_queue = <<>>,
         InHandler(p), Ends(p), Cpu
  PROVE  Running(p)' /\ Calm(p)' /\ pc' \in p.main
<1>1. /\ phase = "exec" /\ ~terminated /\ pc \in p.ends /\ Below(pc) /\ mem[pc] = 244
      /\ CpuStep \/ VOUTB \/ VINB
  BY DEF Ends, Calm, Running, Holds, EndAt, Cpu
<1>2. VIRET
  BY <1>1, Which
<1>3. UNCHANGED pitVars
  BY <1>1, <1>2 DEF Cpu, VOUTB, VINB, Op
<1>4. PICK a \in p.main : FrameOnStack(RamSize, Ctx(p, a))
  BY DEF InHandler
<1>. DEFINE c == Ctx(p, a)
<1>5. a \in 0 .. DwordMod - 1
  <2>1. Below(a) /\ RamSize < DwordMod /\ DwordMod \in Nat
    BY DwordModType DEF Running, Holds, MainAt, StackFits
  <2>. QED BY <2>1, RamSizeAssumption, DwordBytesAssumption DEF Below
<1>6. c \in [Slots -> 0 .. DwordMod - 1] /\ DwordMod \in Nat \ {0}
  <2>. DEFINE g == RegsAt(p, a)
              n == DwordMod
  <2>1. g \in [Reg -> 0 .. n - 1]
    BY <1>5 DEF RegsAt, IsProgram
  <2>2. n \in Nat \ {0}
    BY DwordModType
  <2>3. c = [j \in Slots |-> IF j = 16 THEN 0 ELSE g[j]]
    BY DEF Ctx
  <2>. HIDE DEF c, g, n
  <2>4. ASSUME NEW j \in Slots PROVE (IF j = 16 THEN 0 ELSE g[j]) \in 0 .. n - 1
    <3>1. 0 \in 0 .. n - 1
      BY <2>2
    <3>2. j # 16 => j \in Reg
      BY DEF Slots, Reg
    <3>3. j # 16 => g[j] \in 0 .. n - 1
      BY <2>1, <3>2
    <3>. QED BY <3>1, <3>3
  <2>5. c \in [Slots -> 0 .. n - 1]
    BY <2>3, <2>4
  <2>. QED BY <2>2, <2>5 DEF n
<1>7. \A j \in Slots : c[j] % DwordMod = c[j]
  BY <1>6
<1>8. c \in [Slots -> Int]
  BY <1>6
<1>9. /\ fr' = c[16] % DwordMod /\ r' = [i \in Reg |-> c[i] % DwordMod]
      /\ UNCHANGED <<mem, cr, interrupt_queue>>
  <2>1. /\ Pushable(RamSize) = 17 /\ sp = SlotAddr(RamSize, 16) /\ mem \in Ram
        /\ \A x \in SlotAddr(RamSize, 16) .. RamSize - 1 : mem[x] = SaveContext(mem, RamSize, c, 17)[x]
    BY <1>4 DEF FrameOnStack, CpuTypeOK
  <2>2. RamSize \in Int
    BY RamSizeAssumption
  <2>. HIDE DEF c
  <2>. QED BY <1>2, <1>8, <2>1, <2>2, ReturnRestores, Zenon
<1>10. fr' = 0 /\ r' = RegsAt(p, a)
  <2>1. \A i \in Reg : i \in Slots /\ i # 16
    BY DEF Reg, Slots
  <2>2. r' = [i \in Reg |-> RegsAt(p, a)[i]]
    BY <1>7, <1>9, <2>1 DEF Ctx
  <2>3. RegsAt(p, a) = [i \in Reg |-> RegsAt(p, a)[i]]
    BY DEF RegsAt, IsProgram
  <2>4. 16 \in Slots /\ c[16] = 0
    BY DEF Slots, Ctx
  <2>. QED BY <1>7, <1>9, <2>2, <2>3, <2>4
<1>11. UNCHANGED <<defered_queue, terminated>>
  BY <1>2 DEF VIRET
<1>12. OnMain(p)'
  BY <1>10, <1>11 DEF OnMain
<1>13. Calm(p)'
  BY <1>3, <1>9, <1>11 DEF Calm, pitVars
<1>14. pc' \in p.main
  <2>1. p.regs \in [Reg -> 0 .. DwordMod - 1] /\ 15 \in Reg
    BY DEF IsProgram, Reg
  <2>2. r'[15] = a
    BY <1>10, <2>1 DEF RegsAt
  <2>. QED BY <2>2 DEF pc
<1>. QED BY <1>9, <1>12, <1>13, <1>14 DEF Running, Vectors

LEMMA MainRuns ==
  ASSUME CpuTypeOK, NEW p, IsProgram(p), Calm(p), Running(p), OnMain(p), phase = "exec", Cpu
  PROVE  Running(p)' /\ Calm(p)'
<1>1. PICK a \in p.main : r = RegsAt(p, a) /\ fr = 0 /\ defered_queue = <<>>
  BY DEF OnMain
<1>2. pc = a
  BY <1>1 DEF RegsAt, pc, IsProgram, Reg
<1>3. MainAt(p, mem, pc) /\ Below(pc) /\ ~terminated /\ (CpuStep \/ VOUTB \/ VINB)
  BY <1>2 DEF Running, Holds, MainAt, Calm, Cpu
<1>4. /\ OnlyLocal /\ UNCHANGED <<fr, defered_queue>>
      /\ pit_worker' = pit_worker /\ (active' => active \/ INT_PIT \in p.ints)
      /\ \E b \in p.main : GoesTo(b)
  <2>1. CASE mem[pc] = 64
    <3>1. JumpNear
      BY <1>3, <2>1, Which
    <3>2. UNCHANGED pitVars
      BY <2>1, <3>1 DEF Cpu, VOUTB, VINB, Op
    <3>3. To(mem, pc) \in p.main
      BY <1>3, <2>1 DEF MainAt
    <3>. QED BY <2>1, <3>1, <3>2, <3>3, JumpRuns DEF pitVars
  <2>2. CASE mem[pc] = 242
    <3>1. VOUTB
      BY <1>3, <2>2, Which
    <3>2. TimerAllowed(p, mem, pc) /\ pc + 3 \in p.main
      BY <1>3, <2>2 DEF MainAt
    <3>. QED BY <3>1, <3>2, WriteRuns DEF TimerAllowed, TimerStays
  <2>. QED BY <1>3, <2>1, <2>2 DEF MainAt
<1>5. PICK b \in p.main : r' = [r EXCEPT ![15] = b]
  BY <1>4 DEF GoesTo
<1>6. r' = RegsAt(p, b)
  BY <1>1, <1>5 DEF RegsAt, IsProgram, Reg
<1>7. OnMain(p)'
  BY <1>1, <1>4, <1>6 DEF OnMain
<1>8. UNCHANGED <<mem, cr, terminated, interrupt_queue>>
  BY <1>4 DEF OnlyLocal
<1>9. Calm(p)'
  BY <1>4, <1>8 DEF Calm
<1>. QED BY <1>7, <1>8, <1>9 DEF Running, Vectors

\* One handler at a time, and each returns to the main loop as it was.
LEMMA RunningNext ==
  ASSUME MachineInv, NEW p, IsProgram(p), StackFits, Calm(p), Running(p), [MachineNext]_machineVars
  PROVE  Running(p)' /\ Calm(p)'
<1>1. CpuTypeOK /\ (phase = "exec" => defered_queue = <<>>) /\ phase \in {"fetch", "exec"}
  BY DEF MachineInv, MachineTypeOK, QueuesOK, CpuTypeOK
<1>2. CASE Boot \/ ConsoleThread \/ TimerThread \/ Clock \/ Leave \/ UNCHANGED machineVars
  <2>1. UNCHANGED <<mem, r, fr, cr, defered_queue, phase>>
    BY <1>2 DEF Boot, ConsoleThread, TimerThread, Clock, Leave, machineVars, cpuVars
  <2>. QED BY <1>2, <2>1, CalmStays, RunningStays
<1>3. CASE Cpu /\ phase = "fetch"
  <2>1. NoInterrupt \/ TakeInterrupt
    <3>1. CpuStep \/ VOUTB \/ VINB
      BY <1>3 DEF Cpu
    <3>. QED BY <1>1, <1>3, <3>1, FetchStep, NeverCrashes
  <2>2. UNCHANGED <<pit_worker, active>>
    BY <1>3 DEF Cpu, VOUTB, VINB, Op, pitVars
  <2>3. CASE NoInterrupt
    <3>1. UNCHANGED <<terminated, interrupt_queue>>
      BY <2>3 DEF NoInterrupt
    <3>2. Calm(p)'
      BY <2>2, <3>1 DEF Calm
    <3>. QED BY <1>1, <2>3, <3>2, NoInterruptRuns
  <2>4. CASE TakeInterrupt
    <3>1. UNCHANGED terminated
      BY <2>4 DEF TakeInterrupt
    <3>2. Running(p)' /\ interrupt_queue' \in Seq(p.ints)
      BY <1>1, <2>4, TakeInterruptRuns
    <3>. QED BY <2>2, <3>1, <3>2 DEF Calm
  <2>. QED BY <2>1, <2>3, <2>4
<1>4. CASE Cpu /\ phase = "exec"
  <2>1. CASE OnMain(p)
    BY <1>1, <1>4, <2>1, MainRuns
  <2>2. CASE InHandler(p) /\ Serves(p)
    BY <1>1, <1>4, <2>2, ServesOn
  <2>3. CASE InHandler(p) /\ Ends(p)
    BY <1>1, <1>4, <2>3, EndsRun
  <2>. QED BY <1>4, <2>1, <2>2, <2>3 DEF Running, InHandler, PutOff
<1>. QED BY <1>1, <1>2, <1>3, <1>4 DEF MachineNext

-----------------------------------------------------------------------------
(* The setup of a program, before its main loop: interrupts are off, and   *)
(* only r0 and r1 are used.                                                *)

\* The RAM sizes for which a jump, whose distance is taken modulo 2^16, can
\* reach backwards, and a dword can hold an address.  vm.py has 2^16 and 2^32.
UsualRam ==
  /\ RamSize \in {256, 512, 1024, 2048, 4096, 8192, 16384, 32768, 65536}
  /\ RamSize < DwordMod

LEMMA UsualFits == ASSUME UsualRam PROVE StackFits
<1>. DEFINE s == RamSize
            fits(n) == n = 0 \/ \A j \in {0, n - 1} : InRam(SlotAddr(s, j), DwordBytes)
            last(n) == fits(n) /\ (n < 17 => ~ fits(n + 1))
<1>1. Pushable(s) = CHOOSE n \in 0 .. 17 : last(n)
  BY DEF Pushable
<1>2. ASSUME NEW j \in 0 .. 16 PROVE InRam(SlotAddr(s, j), DwordBytes)
  <2>1. CASE DwordBytes = 1
    BY <2>1 DEF UsualRam, InRam, SlotAddr
  <2>2. CASE DwordBytes = 2
    BY <2>2 DEF UsualRam, InRam, SlotAddr
  <2>3. CASE DwordBytes = 3
    BY <2>3 DEF UsualRam, InRam, SlotAddr
  <2>4. CASE DwordBytes = 4
    BY <2>4 DEF UsualRam, InRam, SlotAddr
  <2>. QED BY <2>1, <2>2, <2>3, <2>4, DwordBytesAssumption
<1>3. \A n \in 0 .. 17 : fits(n)
  <2>. TAKE n \in 0 .. 17
  <2>1. n = 0 \/ (0 \in 0 .. 16 /\ n - 1 \in 0 .. 16)
    OBVIOUS
  <2>. QED BY <1>2, <2>1
<1>. HIDE DEF fits
<1>4. \A n \in 0 .. 17 : last(n) <=> n = 17
  <2>. TAKE n \in 0 .. 17
  <2>1. n = 17 \/ n + 1 \in 0 .. 17
    OBVIOUS
  <2>. QED BY <1>3, <2>1
<1>5. Pushable(s) = 17
  <2>1. 17 \in 0 .. 17 /\ last(17)
    BY <1>4
  <2>. HIDE DEF last
  <2>2. Pushable(s) \in 0 .. 17 /\ last(Pushable(s))
    BY <1>1, <2>1
  <2>. QED BY <1>4, <2>2
<1>. QED BY <1>5 DEF StackFits, UsualRam

\* A jump comes down at its label, before it or behind it.
LEMMA JumpLands ==
  ASSUME UsualRam, NEW m, NEW op, NEW a \in Nat, NEW to \in Nat, a + 3 < 256, to < 256,
         BranchAt(m, a, op, to - (a + 3))
  PROVE  m[a] = op /\ To(m, a) = to
<1>. DEFINE d == to - (a + 3)
<1>1. m[a] = op /\ m[a + 1] + 256 * m[(a + 1) + 1] = d % 65536
  BY DEF BranchAt, WordAt
<1>2. d \in -256 .. 256 /\ a + 3 + d = to
  OBVIOUS
<1>. HIDE DEF d
<1>3. d % 65536 = IF d < 0 THEN d + 65536 ELSE d
  BY <1>2
<1>4. To(m, a) = (IF d < 0 THEN to + 65536 ELSE to) % RamSize
  <2>1. To(m, a) = (a + 3 + (d % 65536)) % RamSize
    BY <1>1 DEF To
  <2>2. a + 3 + (d % 65536) = IF d < 0 THEN to + 65536 ELSE to
    BY <1>2, <1>3
  <2>. QED BY <2>1, <2>2
<1>5. (to + 65536) % RamSize = to /\ to % RamSize = to
  BY DEF UsualRam
<1>. QED BY <1>1, <1>4, <1>5

\* The image of a program is loaded at address 0.
LEMMA ImageLoaded ==
  ASSUME UsualRam, NEW image \in Seq(Byte), Len(image) <= 256, CpuInit(image)
  PROVE  Loaded(mem, 0, image)
<1>1. mem = StoreMany([x \in Addr |-> 0], 0, image) /\ Len(image) \in Nat
  BY LenProperties DEF CpuInit
<1>2. ASSUME NEW i \in 1 .. Len(image) PROVE mem[0 + i - 1] = image[i]
  <2>1. 0 + i - 1 \in Addr /\ 0 + i - 1 \in 0 .. 0 + Len(image) - 1 /\ (0 + i - 1) - 0 + 1 = i
    BY <1>1, <1>2 DEF Addr, UsualRam
  <2>. QED BY <1>1, <2>1 DEF StoreMany
<1>. QED BY <1>2 DEF Loaded

\* The control registers once the load that is put off has happened.
Pending == IF defered_queue = <<>> THEN cr
           ELSE [cr EXCEPT ![defered_queue[1].id] = defered_queue[1].v]
SetupRegs(a, x, y) ==
  [i \in Reg |-> IF i = 0 THEN x ELSE IF i = 1 THEN y ELSE IF i = 14 THEN RamSize
                 ELSE IF i = 15 THEN a ELSE 0]

\* The setup is at its instruction a: r0 and r1, the two vectors and the
\* control word.
Row(a, x, y, k8, k9, c) ==
  /\ r = SetupRegs(a, x, y) /\ fr = 0
  /\ Pending[CREG_INT_FIRST + INT_PIT] = k8 /\ Pending[CREG_INT_FIRST + INT_CONSOLE] = k9
  /\ Pending[CREG_INT_CONTROL] = c
  /\ phase = "fetch" => cr[CREG_INT_CONTROL] = 0

CregIds == {CREG_INT_FIRST + INT_PIT, CREG_INT_FIRST + INT_CONSOLE, CREG_INT_CONTROL}
LEMMA CregIdsType == CregIds \subseteq Cregs
  BY DEF CregIds, Cregs, CREG_INT_FIRST, CREG_INT_LAST, CREG_INT_CONTROL, INT_PIT, INT_CONSOLE

SetupSpelled(a, x, y, g) ==
  /\ g = [i \in Reg |-> g[i]]
  /\ \A i \in Reg : g[i] = IF i = 0 THEN x ELSE IF i = 1 THEN y ELSE IF i = 14 THEN RamSize
                          ELSE IF i = 15 THEN a ELSE 0

LEMMA SetupSpelt ==
  ASSUME NEW a \in Int, NEW x \in Int, NEW y \in Int, NEW g
  PROVE  g = SetupRegs(a, x, y) <=> SetupSpelled(a, x, y, g)
  BY DEF SetupRegs, SetupSpelled

LEMMA SetupSays ==
  ASSUME NEW a \in Int, NEW x \in Int, NEW y \in Int
  PROVE  SetupRegs(a, x, y)[0] = x /\ SetupRegs(a, x, y)[1] = y
<1>1. 0 \in Reg /\ 1 \in Reg BY DEF Reg
<1>. QED BY <1>1 DEF SetupRegs

LEMMA RowInit ==
  ASSUME NEW image, CpuInit(image) PROVE Row(0, 0, 0, DwordMax, DwordMax, 0)
<1>1. /\ cr = [c \in Cregs |-> IF c = CREG_INT_CONTROL THEN 0 ELSE DwordMax]
      /\ r = [i \in Reg |-> IF i = 14 THEN RamSize ELSE 0] /\ fr = 0 /\ defered_queue = <<>>
  BY DEF CpuInit, IntInit
<1>2. r = SetupRegs(0, 0, 0)
  BY <1>1 DEF SetupRegs
<1>3. /\ cr[CREG_INT_FIRST + INT_PIT] = DwordMax /\ cr[CREG_INT_FIRST + INT_CONSOLE] = DwordMax
      /\ cr[CREG_INT_CONTROL] = 0
  BY <1>1, CregIdsType DEF CregIds, CREG_INT_FIRST, CREG_INT_CONTROL, INT_PIT, INT_CONSOLE
<1>. QED BY <1>1, <1>2, <1>3 DEF Row, Pending

LEMMA RowStays ==
  ASSUME NEW a, NEW x, NEW y, NEW k8, NEW k9, NEW c, Row(a, x, y, k8, k9, c),
         UNCHANGED <<r, fr, cr, defered_queue, phase>>
  PROVE  Row(a, x, y, k8, k9, c)'
  BY DEF Row, Pending

\* Nothing is taken in the setup, and the load that was put off happens.
LEMMA RowFetch ==
  ASSUME CpuTypeOK, NEW p, IsProgram(p), Calm(p),
         NEW a, NEW x, NEW y, NEW k8, NEW k9, NEW c, Row(a, x, y, k8, k9, c), phase = "fetch", Cpu
  PROVE  Row(a, x, y, k8, k9, c)' /\ UNCHANGED mem /\ Calm(p)'
<1>1. ~ MaskableEnabled
  BY DEF Row, MaskableEnabled
<1>2. NoInterrupt
  <2>1. CpuStep \/ VOUTB \/ VINB
    BY DEF Cpu
  <2>2. ~ TakeInterrupt /\ ~ CrashOnInterrupt
    BY <1>1, CalmQuiet, QuietTakesNothing
  <2>. QED BY <2>1, <2>2, FetchStep
<1>3. /\ phase' = "exec" /\ defered_queue' = <<>> /\ cr' = Pending
      /\ UNCHANGED <<mem, r, fr, terminated, interrupt_queue>>
  BY <1>2 DEF NoInterrupt, Drain, Pending
<1>4. Pending' = Pending
  BY <1>3 DEF Pending
<1>5. Row(a, x, y, k8, k9, c)'
  BY <1>3, <1>4 DEF Row
<1>6. UNCHANGED pitVars
  BY DEF Cpu, VOUTB, VINB, Op
<1>. QED BY <1>3, <1>5, <1>6 DEF Calm, pitVars

\* One instruction of the setup.
LEMMA RowExec ==
  ASSUME CpuTypeOK, NEW p, Calm(p),
         NEW a, NEW x, NEW y, NEW k8, NEW k9, NEW c, Row(a, x, y, k8, k9, c),
         phase = "exec", Below(a), mem[a] \in {1, 240, 242}, Cpu
  PROVE  /\ pc = a /\ ~ terminated
         /\ mem[a] = 1 => VSET /\ UNCHANGED pitVars
         /\ mem[a] = 240 => (UnknownCreg \/ VCRL) /\ UNCHANGED pitVars
         /\ mem[a] = 242 => VOUTB
<1>1. pc = a /\ ~ terminated
  BY DEF Row, SetupRegs, pc, Reg, Calm
<1>2. CpuStep \/ VOUTB \/ VINB
  BY DEF Cpu
<1>3. /\ mem[a] = 1 => VSET
      /\ mem[a] = 240 => UnknownCreg \/ VCRL
      /\ mem[a] = 242 => VOUTB
  BY <1>1, <1>2, Which
<1>4. mem[a] \in {1, 240} => UNCHANGED pitVars
  <2>1. mem[a] \in {1, 240} => ~ VOUTB /\ ~ VINB
    BY <1>1 DEF VOUTB, VINB, Op
  <2>. QED BY <2>1 DEF Cpu
<1>. QED BY <1>1, <1>3, <1>4

LEMMA CalmLocal ==
  ASSUME NEW p, Calm(p), OnlyLocal, TimerStays PROVE Calm(p)'
  BY DEF Calm, OnlyLocal, TimerStays

LEMMA RowVset ==
  ASSUME CpuTypeOK, NEW p, Calm(p), defered_queue = <<>>,
         NEW a \in Nat, NEW x \in Int, NEW y \in Int, NEW k8, NEW k9, Row(a, x, y, k8, k9, 0),
         phase = "exec", Below(a), NEW i \in 0 .. 1, NEW v \in Nat, v < DwordMod,
         VsetAt(mem, a, i, v), Cpu
  PROVE  /\ Row(a + 2 + DwordBytes, IF i = 0 THEN v ELSE x, IF i = 1 THEN v ELSE y, k8, k9, 0)'
         /\ UNCHANGED mem /\ Calm(p)'
<1>1. mem[a] = 1 /\ mem[a + 1] = i /\ FetchDword(mem, a + 2) = v
  <2>1. DwordMod \in Nat \ {0}
    BY DwordModType
  <2>2. v % DwordMod = v
    BY <2>1
  <2>. QED BY <2>2 DEF VsetAt
<1>2. pc = a /\ VSET /\ UNCHANGED pitVars
  BY <1>1, RowExec
<1>3. mem[pc + 1] % 16 = i /\ i \in Reg /\ i < 14
  BY <1>1, <1>2 DEF Reg
<1>4. /\ OnlyLocal /\ UNCHANGED <<fr, defered_queue>>
      /\ r' = [r EXCEPT ![15] = a + 2 + DwordBytes, ![i] = v]
  BY <1>1, <1>2, <1>3, VsetRuns
<1>5. r' = SetupRegs(a + 2 + DwordBytes, IF i = 0 THEN v ELSE x, IF i = 1 THEN v ELSE y)
  <2>1. r = SetupRegs(a, x, y) BY DEF Row
  <2>. DEFINE b == a + 2 + DwordBytes
  <2>2. b \in Int /\ v \in Int BY DwordBytesAssumption
  <2>3. r' = [r EXCEPT ![15] = b, ![i] = v] BY <1>4
  <2>. HIDE DEF b
  <2>. DEFINE x2 == IF i = 0 THEN v ELSE x
              y2 == IF i = 1 THEN v ELSE y
  <2>4. SetupSpelled(a, x, y, r) BY <2>1, SetupSpelt
  <2>5. /\ r' = [k \in Reg |-> r'[k]]
        /\ \A k \in Reg : r'[k] = IF k = i THEN v ELSE IF k = 15 THEN b ELSE r[k]
    BY <2>3, <2>4 DEF SetupSpelled
  <2>6. SetupSpelled(b, x2, y2, r')
    BY <2>4, <2>5 DEF SetupSpelled
  <2>7. x2 \in Int /\ y2 \in Int
    OBVIOUS
  <2>. HIDE DEF x2, y2
  <2>8. r' = SetupRegs(b, x2, y2)
    BY <2>2, <2>6, <2>7, SetupSpelt
  <2>. QED BY <2>8 DEF b, x2, y2
<1>6. Row(a + 2 + DwordBytes, IF i = 0 THEN v ELSE x, IF i = 1 THEN v ELSE y, k8, k9, 0)'
  BY <1>4, <1>5 DEF Row, OnlyLocal, Pending
<1>. QED BY <1>2, <1>4, <1>6, CalmLocal DEF OnlyLocal, TimerStays, pitVars

LEMMA RowVcrl ==
  ASSUME CpuTypeOK, NEW p, Calm(p), defered_queue = <<>>,
         NEW a \in Nat, NEW x \in Int, NEW y \in Int, NEW k8, NEW k9, Row(a, x, y, k8, k9, 0),
         phase = "exec", Below(a), NEW i \in 0 .. 1, NEW id \in CregIds, VcrlAt(mem, a, id, i), Cpu,
         NEW w, w = IF i = 0 THEN x ELSE y
  PROVE  /\ Row(a + 4, x, y, IF id = CREG_INT_FIRST + INT_PIT THEN w ELSE k8,
                IF id = CREG_INT_FIRST + INT_CONSOLE THEN w ELSE k9,
                IF id = CREG_INT_CONTROL THEN w ELSE 0)'
         /\ UNCHANGED mem /\ Calm(p)'
<1>1. mem[a] = 240 /\ mem[a + 1] = i /\ WordAt(mem, a + 2, id)
  BY DEF VcrlAt
<1>2. pc = a /\ (UnknownCreg \/ VCRL) /\ UNCHANGED pitVars
  BY <1>1, RowExec
<1>3. id \in Cregs
  BY CregIdsType
<1>4. /\ OnlyLocal /\ UNCHANGED fr /\ r' = [r EXCEPT ![15] = a + 4]
      /\ defered_queue' = Append(<<>>, [id |-> id, v |-> R[X]])
  BY <1>1, <1>2, <1>3, LoadRuns DEF GoesTo
<1>5. R[X] = w
  <2>1. X = i
    BY <1>1, <1>2 DEF X, Arg
  <2>2. R = [r EXCEPT ![15] = pc + 1 + OpLength(mem[pc])] /\ r = SetupRegs(a, x, y)
    BY SeenRegisters DEF Row
  <2>3. R[i] = r[i]
    BY <2>2
  <2>4. r[0] = x /\ r[1] = y
    BY <2>2, SetupSays
  <2>. QED BY <2>1, <2>3, <2>4
<1>6. defered_queue' = <<[id |-> id, v |-> w]>>
  <2>1. \A l : Append(<<>>, l) = <<l>>
    OBVIOUS
  <2>. QED BY <1>4, <1>5, <2>1
<1>7. Pending' = [cr EXCEPT ![id] = w]
  <2>1. cr' = cr
    BY <1>4 DEF OnlyLocal
  <2>. QED BY <1>6, <2>1 DEF Pending
<1>8. r' = SetupRegs(a + 4, x, y)
  <2>1. r = SetupRegs(a, x, y) /\ a + 4 \in Int BY DEF Row
  <2>2. SetupSpelled(a, x, y, r) BY <2>1, SetupSpelt
  <2>3. r' = [k \in Reg |-> r'[k]] /\ \A k \in Reg : r'[k] = IF k = 15 THEN a + 4 ELSE r[k]
    BY <1>4, <2>2 DEF SetupSpelled
  <2>4. SetupSpelled(a + 4, x, y, r')
    BY <2>2, <2>3 DEF SetupSpelled
  <2>. QED BY <2>1, <2>4, SetupSpelt
<1>9. Pending = cr
  BY DEF Pending
<1>10. /\ CREG_INT_FIRST + INT_PIT # CREG_INT_FIRST + INT_CONSOLE
       /\ CREG_INT_FIRST + INT_PIT # CREG_INT_CONTROL
       /\ CREG_INT_FIRST + INT_CONSOLE # CREG_INT_CONTROL
       /\ CREG_INT_FIRST + INT_PIT \in Cregs /\ CREG_INT_FIRST + INT_CONSOLE \in Cregs
       /\ CREG_INT_CONTROL \in Cregs /\ cr \in [Cregs -> Int]
  BY CregIdsType DEF CregIds, CREG_INT_FIRST, CREG_INT_CONTROL, INT_PIT, INT_CONSOLE, CpuTypeOK
<1>11. /\ Pending'[CREG_INT_FIRST + INT_PIT] = IF id = CREG_INT_FIRST + INT_PIT THEN w ELSE k8
       /\ Pending'[CREG_INT_FIRST + INT_CONSOLE] = IF id = CREG_INT_FIRST + INT_CONSOLE THEN w ELSE k9
       /\ Pending'[CREG_INT_CONTROL] = IF id = CREG_INT_CONTROL THEN w ELSE 0
       /\ cr'[CREG_INT_CONTROL] = 0
  BY <1>4, <1>7, <1>9, <1>10 DEF Row, OnlyLocal
<1>12. Row(a + 4, x, y, IF id = CREG_INT_FIRST + INT_PIT THEN w ELSE k8,
           IF id = CREG_INT_FIRST + INT_CONSOLE THEN w ELSE k9,
           IF id = CREG_INT_CONTROL THEN w ELSE 0)'
  BY <1>4, <1>8, <1>11 DEF Row
<1>. QED BY <1>2, <1>4, <1>12, CalmLocal DEF OnlyLocal, TimerStays, pitVars

LEMMA RowVoutb ==
  ASSUME CpuTypeOK, NEW p, Calm(p), defered_queue = <<>>,
         NEW a \in Nat, NEW x \in Int, NEW y \in Int, NEW k8, NEW k9, NEW c, Row(a, x, y, k8, k9, c),
         phase = "exec", Below(a), NEW i, NEW port \in Nat, port # 112,
         TwoAt(mem, a, 242, i, port), Cpu
  PROVE  /\ r' = SetupRegs(a + 3, x, y) /\ UNCHANGED <<mem, fr, cr, defered_queue>> /\ Calm(p)'
         /\ c = 0 => Row(a + 3, x, y, k8, k9, 0)'
<1>1. mem[a] = 242 /\ mem[a + 2] = port
  BY DEF TwoAt
<1>2. pc = a /\ VOUTB
  BY <1>1, RowExec
<1>3. OnlyLocal /\ UNCHANGED <<fr, defered_queue>> /\ r' = [r EXCEPT ![15] = a + 3] /\ TimerStays
  BY <1>1, <1>2, WriteRuns DEF GoesTo
<1>4. r' = SetupRegs(a + 3, x, y)
  <2>1. r = SetupRegs(a, x, y) /\ a + 3 \in Int BY DEF Row
  <2>2. SetupSpelled(a, x, y, r) BY <2>1, SetupSpelt
  <2>3. r' = [k \in Reg |-> r'[k]] /\ \A k \in Reg : r'[k] = IF k = 15 THEN a + 3 ELSE r[k]
    BY <1>3, <2>2 DEF SetupSpelled
  <2>4. SetupSpelled(a + 3, x, y, r')
    BY <2>2, <2>3 DEF SetupSpelled
  <2>. QED BY <2>1, <2>4, SetupSpelt
<1>5. c = 0 => Row(a + 3, x, y, k8, k9, 0)'
  BY <1>3, <1>4 DEF Row, Pending, OnlyLocal
<1>. QED BY <1>3, <1>4, <1>5, CalmLocal DEF OnlyLocal

-----------------------------------------------------------------------------
(* The images of the guest programs, decoded.                              *)

\* A piece of code p of n bytes, and what one more instruction adds to it.
Code(p, n) == p \in Seq(Byte) /\ Len(p) = n /\ n \in Nat

OneAt(m, a, op) == m[a] = op

LEMMA ThenCode ==
  ASSUME NEW n, NEW p, Code(p, n), NEW k, NEW q, Code(q, k), NEW m, NEW a \in Int
  PROVE  /\ Code(p \o q, n + k)
         /\ Loaded(m, a, p \o q) => Loaded(m, a, p) /\ Loaded(m, a + n, q)
<1>1. p \in Seq(Byte) /\ q \in Seq(Byte) /\ Len(p) = n /\ Len(q) = k /\ n + k \in Nat
  BY DEF Code
<1>2. p \o q \in Seq(Byte) /\ Len(p \o q) = n + k
  BY <1>1, Joined
<1>3. Loaded(m, a, p \o q) => Loaded(m, a, p) /\ Loaded(m, a + n, q)
  BY <1>1, Joined
<1>. QED BY <1>1, <1>2, <1>3 DEF Code

LEMMA ThenVset ==
  ASSUME NEW n, NEW p, Code(p, n), NEW i \in 0 .. 15, NEW v \in Int, NEW m, NEW a \in Int
  PROVE  /\ Code(p \o Vset(i, v), n + (2 + DwordBytes))
         /\ Loaded(m, a, p \o Vset(i, v)) => Loaded(m, a, p) /\ VsetAt(m, a + n, i, v)
<1>1. Code(Vset(i, v), 2 + DwordBytes)
  <2>1. Vset(i, v) \in Seq(Byte) /\ Len(Vset(i, v)) = 2 + DwordBytes
    BY VsetLoaded
  <2>2. 2 + DwordBytes \in Nat
    BY DwordBytesAssumption
  <2>. QED BY <2>1, <2>2 DEF Code
<1>2. a + n \in Int
  BY DEF Code
<1>. QED BY <1>1, <1>2, ThenCode, VsetLoaded

LEMMA ThenVcrl ==
  ASSUME NEW n, NEW p, Code(p, n), NEW i \in 0 .. 15, NEW id \in Int, NEW m, NEW a \in Int
  PROVE  /\ Code(p \o Vcrl(id, i), n + 4)
         /\ Loaded(m, a, p \o Vcrl(id, i)) => Loaded(m, a, p) /\ VcrlAt(m, a + n, id, i)
<1>1. Code(Vcrl(id, i), 4)
  BY VcrlLoaded DEF Code
<1>2. a + n \in Int
  BY DEF Code
<1>. QED BY <1>1, <1>2, ThenCode, VcrlLoaded

LEMMA ThenTwo ==
  ASSUME NEW n, NEW p, Code(p, n), NEW op \in Byte, NEW i \in Byte, NEW j \in Byte,
         NEW m, NEW a \in Int
  PROVE  /\ Code(p \o Two(op, i, j), n + 3)
         /\ Loaded(m, a, p \o Two(op, i, j)) => Loaded(m, a, p) /\ TwoAt(m, a + n, op, i, j)
<1>1. Code(Two(op, i, j), 3)
  BY TwoLoaded DEF Code
<1>2. a + n \in Int
  BY DEF Code
<1>. QED BY <1>1, <1>2, ThenCode, TwoLoaded

LEMMA ThenBranch ==
  ASSUME NEW n, NEW p, Code(p, n), NEW op \in Byte, NEW to \in Int, NEW m
  PROVE  /\ Code(p \o Branch(op, n, to), n + 3)
         /\ Loaded(m, 0, p \o Branch(op, n, to)) =>
              Loaded(m, 0, p) /\ BranchAt(m, n, op, to - (n + 3))
<1>1. n \in Int /\ 0 + n = n /\ 0 \in Int
  BY DEF Code
<1>. DEFINE q == Branch(op, n, to)
<1>2. q \in Seq(Byte) /\ Len(q) = 3 /\ (Loaded(m, n, q) => BranchAt(m, n, op, to - (n + 3)))
  BY <1>1, BranchLoaded
<1>. HIDE DEF q
<1>3. Code(q, 3)
  BY <1>2 DEF Code
<1>4. Code(p \o q, n + 3) /\ (Loaded(m, 0, p \o q) => Loaded(m, 0, p) /\ Loaded(m, 0 + n, q))
  BY <1>1, <1>3, ThenCode
<1>5. Loaded(m, 0 + n, q) => Loaded(m, n, q)
  BY <1>1
<1>. QED BY <1>2, <1>4, <1>5 DEF q

LEMMA ThenViret ==
  ASSUME NEW n, NEW p, Code(p, n), NEW m, NEW a \in Int
  PROVE  /\ Code(p \o Viret, n + 1)
         /\ Loaded(m, a, p \o Viret) => Loaded(m, a, p) /\ OneAt(m, a + n, 244)
<1>1. 244 \in Byte
  BY DEF Byte
<1>2. a + n \in Int
  BY DEF Code
<1>3. Viret \in Seq(Byte) /\ Len(Viret) = 1 /\ (Loaded(m, a + n, Viret) => m[a + n] = 244)
  BY <1>1, <1>2, OneLoaded DEF Viret
<1>4. Code(Viret, 1)
  BY <1>3 DEF Code
<1>5. /\ Code(p \o Viret, n + 1)
      /\ Loaded(m, a, p \o Viret) => Loaded(m, a, p) /\ Loaded(m, a + n, Viret)
  BY <1>4, ThenCode
<1>. QED BY <1>3, <1>5 DEF OneAt

\* The first instruction of a piece of code.
LEMMA FirstTwo ==
  ASSUME NEW op \in Byte, NEW i \in Byte, NEW j \in Byte, NEW m, NEW a \in Int
  PROVE  /\ Code(Two(op, i, j), 3)
         /\ Loaded(m, a, Two(op, i, j)) => TwoAt(m, a, op, i, j)
  BY TwoLoaded DEF Code

LEMMA FirstVset ==
  ASSUME NEW i \in 0 .. 15, NEW v \in Int, NEW m, NEW a \in Int
  PROVE  /\ Code(Vset(i, v), 2 + DwordBytes)
         /\ Loaded(m, a, Vset(i, v)) => VsetAt(m, a, i, v)
<1>1. Vset(i, v) \in Seq(Byte) /\ Len(Vset(i, v)) = 2 + DwordBytes
  BY VsetLoaded
<1>2. 2 + DwordBytes \in Nat
  BY DwordBytesAssumption
<1>3. Loaded(m, a, Vset(i, v)) => VsetAt(m, a, i, v)
  BY VsetLoaded
<1>. QED BY <1>1, <1>2, <1>3 DEF Code

\* console_test.nasm
LEMMA ConsoleSetupLoaded ==
  ASSUME NEW h \in Int, NEW m
  PROVE  /\ Code(ConsoleSetup(h), 15 + 2 * DwordBytes)
         /\ Loaded(m, 0, ConsoleSetup(h)) =>
              /\ VsetAt(m, 0, 0, h)
              /\ VcrlAt(m, 2 + DwordBytes, 265, 0)
              /\ VsetAt(m, 6 + DwordBytes, 0, 1)
              /\ VcrlAt(m, 8 + 2 * DwordBytes, 272, 0)
              /\ TwoAt(m, 12 + 2 * DwordBytes, 242, 0, 34)
<1>. DEFINE s1 == Vset(0, h)
            s2 == s1 \o Vcrl(265, 0)
            s3 == s2 \o Vset(0, 1)
            s4 == s3 \o Vcrl(272, 0)
            s5 == s4 \o Two(242, 0, 34)
<1>0. DwordBytes \in Nat
  BY DwordBytesAssumption
<1>1. /\ Code(s1, 2 + DwordBytes)
      /\ Loaded(m, 0, s1) => VsetAt(m, 0, 0, h)
  <2>1. 0 \in 0 .. 15 /\ h \in Int /\ 0 \in Int
    BY <1>0
  <2>. QED BY <2>1, <1>0, FirstVset
<1>. HIDE DEF s1
<1>2. /\ Code(s2, 6 + DwordBytes)
      /\ Loaded(m, 0, s2) => Loaded(m, 0, s1) /\ VcrlAt(m, 2 + DwordBytes, 265, 0)
  <2>1. 0 \in 0 .. 15 /\ 265 \in Int /\ 0 \in Int
    BY <1>0
  <2>4. /\ Code(s2, 2 + DwordBytes + 4)
        /\ Loaded(m, 0, s2) => Loaded(m, 0, s1) /\ VcrlAt(m, 0 + (2 + DwordBytes), 265, 0)
    BY <2>1, <1>1, ThenVcrl, Zenon
  <2>5. 2 + DwordBytes + 4 = 6 + DwordBytes /\ 0 + (2 + DwordBytes) = 2 + DwordBytes
    BY <1>0
  <2>. HIDE DEF s2
  <2>. QED BY <2>4, <2>5
<1>. HIDE DEF s2
<1>3. /\ Code(s3, 8 + 2 * DwordBytes)
      /\ Loaded(m, 0, s3) => Loaded(m, 0, s2) /\ VsetAt(m, 6 + DwordBytes, 0, 1)
  <2>1. 0 \in 0 .. 15 /\ 1 \in Int /\ 0 \in Int
    BY <1>0
  <2>4. /\ Code(s3, 6 + DwordBytes + (2 + DwordBytes))
        /\ Loaded(m, 0, s3) => Loaded(m, 0, s2) /\ VsetAt(m, 0 + (6 + DwordBytes), 0, 1)
    BY <2>1, <1>2, ThenVset, Zenon
  <2>5. 6 + DwordBytes + (2 + DwordBytes) = 8 + 2 * DwordBytes /\ 0 + (6 + DwordBytes) = 6 + DwordBytes
    BY <1>0
  <2>. HIDE DEF s3
  <2>. QED BY <2>4, <2>5
<1>. HIDE DEF s3
<1>4. /\ Code(s4, 12 + 2 * DwordBytes)
      /\ Loaded(m, 0, s4) => Loaded(m, 0, s3) /\ VcrlAt(m, 8 + 2 * DwordBytes, 272, 0)
  <2>1. 0 \in 0 .. 15 /\ 272 \in Int /\ 0 \in Int
    BY <1>0
  <2>4. /\ Code(s4, 8 + 2 * DwordBytes + 4)
        /\ Loaded(m, 0, s4) => Loaded(m, 0, s3) /\ VcrlAt(m, 0 + (8 + 2 * DwordBytes), 272, 0)
    BY <2>1, <1>3, ThenVcrl, Zenon
  <2>5. 8 + 2 * DwordBytes + 4 = 12 + 2 * DwordBytes /\ 0 + (8 + 2 * DwordBytes) = 8 + 2 * DwordBytes
    BY <1>0
  <2>. HIDE DEF s4
  <2>. QED BY <2>4, <2>5
<1>. HIDE DEF s4
<1>5. /\ Code(s5, 15 + 2 * DwordBytes)
      /\ Loaded(m, 0, s5) => Loaded(m, 0, s4) /\ TwoAt(m, 12 + 2 * DwordBytes, 242, 0, 34)
  <2>1. 242 \in Byte /\ 0 \in Byte /\ 34 \in Byte /\ 0 \in Int
    BY <1>0 DEF Byte
  <2>4. /\ Code(s5, 12 + 2 * DwordBytes + 3)
        /\ Loaded(m, 0, s5) => Loaded(m, 0, s4) /\ TwoAt(m, 0 + (12 + 2 * DwordBytes), 242, 0, 34)
    BY <2>1, <1>4, ThenTwo, Zenon
  <2>5. /\ 12 + 2 * DwordBytes + 3 = 15 + 2 * DwordBytes
        /\ 0 + (12 + 2 * DwordBytes) = 12 + 2 * DwordBytes
    BY <1>0
  <2>. HIDE DEF s5
  <2>. QED BY <2>4, <2>5
<1>6. ConsoleSetup(h) = s5
  BY DEF ConsoleSetup, Voutb, s1, s2, s3, s4
<1>. HIDE DEF s5
<1>. QED BY <1>1, <1>2, <1>3, <1>4, <1>5, <1>6

LEMMA ConsolePromptLoaded ==
  ASSUME NEW m, NEW a \in Int
  PROVE  /\ Code(console_prompt, 17 + 4 * DwordBytes)
         /\ Loaded(m, a, console_prompt) =>
              /\ VsetAt(m, a, 0, 67)
              /\ VsetAt(m, a + 2 + DwordBytes, 1, 58)
              /\ VsetAt(m, a + 4 + 2 * DwordBytes, 2, 32)
              /\ TwoAt(m, a + 6 + 3 * DwordBytes, 242, 0, 32)
              /\ TwoAt(m, a + 9 + 3 * DwordBytes, 242, 1, 32)
              /\ TwoAt(m, a + 12 + 3 * DwordBytes, 242, 2, 32)
              /\ VsetAt(m, a + 15 + 3 * DwordBytes, 1, 0)
<1>. DEFINE s1 == Vset(0, 67)
            s2 == s1 \o Vset(1, 58)
            s3 == s2 \o Vset(2, 32)
            s4 == s3 \o Two(242, 0, 32)
            s5 == s4 \o Two(242, 1, 32)
            s6 == s5 \o Two(242, 2, 32)
            s7 == s6 \o Vset(1, 0)
<1>0. DwordBytes \in Nat
  BY DwordBytesAssumption
<1>1. /\ Code(s1, 2 + DwordBytes)
      /\ Loaded(m, a, s1) => VsetAt(m, a, 0, 67)
  <2>1. 0 \in 0 .. 15 /\ 67 \in Int
    BY <1>0
  <2>. QED BY <2>1, <1>0, FirstVset
<1>. HIDE DEF s1
<1>2. /\ Code(s2, 4 + 2 * DwordBytes)
      /\ Loaded(m, a, s2) => Loaded(m, a, s1) /\ VsetAt(m, a + 2 + DwordBytes, 1, 58)
  <2>1. 1 \in 0 .. 15 /\ 58 \in Int
    BY <1>0
  <2>4. /\ Code(s2, 2 + DwordBytes + (2 + DwordBytes))
        /\ Loaded(m, a, s2) => Loaded(m, a, s1) /\ VsetAt(m, a + (2 + DwordBytes), 1, 58)
    BY <2>1, <1>1, ThenVset, Zenon
  <2>5. /\ 2 + DwordBytes + (2 + DwordBytes) = 4 + 2 * DwordBytes
        /\ a + (2 + DwordBytes) = a + 2 + DwordBytes
    BY <1>0
  <2>. HIDE DEF s2
  <2>. QED BY <2>4, <2>5
<1>. HIDE DEF s2
<1>3. /\ Code(s3, 6 + 3 * DwordBytes)
      /\ Loaded(m, a, s3) => Loaded(m, a, s2) /\ VsetAt(m, a + 4 + 2 * DwordBytes, 2, 32)
  <2>1. 2 \in 0 .. 15 /\ 32 \in Int
    BY <1>0
  <2>4. /\ Code(s3, 4 + 2 * DwordBytes + (2 + DwordBytes))
        /\ Loaded(m, a, s3) => Loaded(m, a, s2) /\ VsetAt(m, a + (4 + 2 * DwordBytes), 2, 32)
    BY <2>1, <1>2, ThenVset, Zenon
  <2>5. /\ 4 + 2 * DwordBytes + (2 + DwordBytes) = 6 + 3 * DwordBytes
        /\ a + (4 + 2 * DwordBytes) = a + 4 + 2 * DwordBytes
    BY <1>0
  <2>. HIDE DEF s3
  <2>. QED BY <2>4, <2>5
<1>. HIDE DEF s3
<1>4. /\ Code(s4, 9 + 3 * DwordBytes)
      /\ Loaded(m, a, s4) => Loaded(m, a, s3) /\ TwoAt(m, a + 6 + 3 * DwordBytes, 242, 0, 32)
  <2>1. 242 \in Byte /\ 0 \in Byte /\ 32 \in Byte
    BY <1>0 DEF Byte
  <2>4. /\ Code(s4, 6 + 3 * DwordBytes + 3)
        /\ Loaded(m, a, s4) => Loaded(m, a, s3) /\ TwoAt(m, a + (6 + 3 * DwordBytes), 242, 0, 32)
    BY <2>1, <1>3, ThenTwo, Zenon
  <2>5. /\ 6 + 3 * DwordBytes + 3 = 9 + 3 * DwordBytes
        /\ a + (6 + 3 * DwordBytes) = a + 6 + 3 * DwordBytes
    BY <1>0
  <2>. HIDE DEF s4
  <2>. QED BY <2>4, <2>5
<1>. HIDE DEF s4
<1>5. /\ Code(s5, 12 + 3 * DwordBytes)
      /\ Loaded(m, a, s5) => Loaded(m, a, s4) /\ TwoAt(m, a + 9 + 3 * DwordBytes, 242, 1, 32)
  <2>1. 242 \in Byte /\ 1 \in Byte /\ 32 \in Byte
    BY <1>0 DEF Byte
  <2>4. /\ Code(s5, 9 + 3 * DwordBytes + 3)
        /\ Loaded(m, a, s5) => Loaded(m, a, s4) /\ TwoAt(m, a + (9 + 3 * DwordBytes), 242, 1, 32)
    BY <2>1, <1>4, ThenTwo, Zenon
  <2>5. /\ 9 + 3 * DwordBytes + 3 = 12 + 3 * DwordBytes
        /\ a + (9 + 3 * DwordBytes) = a + 9 + 3 * DwordBytes
    BY <1>0
  <2>. HIDE DEF s5
  <2>. QED BY <2>4, <2>5
<1>. HIDE DEF s5
<1>6. /\ Code(s6, 15 + 3 * DwordBytes)
      /\ Loaded(m, a, s6) => Loaded(m, a, s5) /\ TwoAt(m, a + 12 + 3 * DwordBytes, 242, 2, 32)
  <2>1. 242 \in Byte /\ 2 \in Byte /\ 32 \in Byte
    BY <1>0 DEF Byte
  <2>4. /\ Code(s6, 12 + 3 * DwordBytes + 3)
        /\ Loaded(m, a, s6) => Loaded(m, a, s5) /\ TwoAt(m, a + (12 + 3 * DwordBytes), 242, 2, 32)
    BY <2>1, <1>5, ThenTwo, Zenon
  <2>5. /\ 12 + 3 * DwordBytes + 3 = 15 + 3 * DwordBytes
        /\ a + (12 + 3 * DwordBytes) = a + 12 + 3 * DwordBytes
    BY <1>0
  <2>. HIDE DEF s6
  <2>. QED BY <2>4, <2>5
<1>. HIDE DEF s6
<1>7. /\ Code(s7, 17 + 4 * DwordBytes)
      /\ Loaded(m, a, s7) => Loaded(m, a, s6) /\ VsetAt(m, a + 15 + 3 * DwordBytes, 1, 0)
  <2>1. 1 \in 0 .. 15 /\ 0 \in Int
    BY <1>0
  <2>4. /\ Code(s7, 15 + 3 * DwordBytes + (2 + DwordBytes))
        /\ Loaded(m, a, s7) => Loaded(m, a, s6) /\ VsetAt(m, a + (15 + 3 * DwordBytes), 1, 0)
    BY <2>1, <1>6, ThenVset, Zenon
  <2>5. /\ 15 + 3 * DwordBytes + (2 + DwordBytes) = 17 + 4 * DwordBytes
        /\ a + (15 + 3 * DwordBytes) = a + 15 + 3 * DwordBytes
    BY <1>0
  <2>. HIDE DEF s7
  <2>. QED BY <2>4, <2>5
<1>8. console_prompt = s7
  BY DEF console_prompt, Voutb, s1, s2, s3, s4, s5, s6
<1>. HIDE DEF s7
<1>. QED BY <1>1, <1>2, <1>3, <1>4, <1>5, <1>6, <1>7, <1>8

LEMMA ConsoleLabels ==
  /\ console_infloop = 15 + 2 * DwordBytes /\ console_int_9 = 18 + 2 * DwordBytes
  /\ console_while = 35 + 6 * DwordBytes /\ console_end = 53 + 6 * DwordBytes
<1>0. 0 \in Int
  OBVIOUS
<1>1. Code(ConsoleSetup(0), 15 + 2 * DwordBytes)
  BY <1>0, ConsoleSetupLoaded, Zenon
<1>2. Code(console_prompt, 17 + 4 * DwordBytes)
  BY <1>0, ConsolePromptLoaded, Zenon
<1>3. Len(ConsoleSetup(0)) = 15 + 2 * DwordBytes /\ Len(console_prompt) = 17 + 4 * DwordBytes
  BY <1>1, <1>2 DEF Code
<1>4. DwordBytes \in Nat
  BY DwordBytesAssumption
<1>. QED BY <1>3, <1>4 DEF console_infloop, console_int_9, console_while, console_end

LEMMA ConsoleLoaded ==
  ASSUME NEW m
  PROVE  /\ Code(console_test, 63 + 7 * DwordBytes)
         /\ Loaded(m, 0, console_test) =>
              /\ Loaded(m, 0, ConsoleSetup(console_int_9))

              /\ BranchAt(m, 15 + 2 * DwordBytes, 64,
                          (15 + 2 * DwordBytes) - (15 + 2 * DwordBytes + 3))
              /\ Loaded(m, 18 + 2 * DwordBytes, console_prompt)
              /\ TwoAt(m, 35 + 6 * DwordBytes, 243, 0, 33)
              /\ TwoAt(m, 38 + 6 * DwordBytes, 32, 0, 1)

              /\ BranchAt(m, 41 + 6 * DwordBytes, 33,
                          (53 + 6 * DwordBytes) - (41 + 6 * DwordBytes + 3))
              /\ TwoAt(m, 44 + 6 * DwordBytes, 243, 0, 32)
              /\ TwoAt(m, 47 + 6 * DwordBytes, 242, 0, 32)

              /\ BranchAt(m, 50 + 6 * DwordBytes, 64,
                          (35 + 6 * DwordBytes) - (50 + 6 * DwordBytes + 3))
              /\ VsetAt(m, 53 + 6 * DwordBytes, 0, 1)
              /\ TwoAt(m, 55 + 7 * DwordBytes, 242, 0, 34)
              /\ VcrlAt(m, 58 + 7 * DwordBytes, 272, 0)
              /\ OneAt(m, 62 + 7 * DwordBytes, 244)
<1>. DEFINE s1 == ConsoleSetup(console_int_9)
            s2 == s1 \o Branch(64, 15 + 2 * DwordBytes, 15 + 2 * DwordBytes)
            s3 == s2 \o console_prompt
            s4 == s3 \o Two(243, 0, 33)
            s5 == s4 \o Two(32, 0, 1)
            s6 == s5 \o Branch(33, 41 + 6 * DwordBytes, 53 + 6 * DwordBytes)
            s7 == s6 \o Two(243, 0, 32)
            s8 == s7 \o Two(242, 0, 32)
            s9 == s8 \o Branch(64, 50 + 6 * DwordBytes, 35 + 6 * DwordBytes)
            s10 == s9 \o Vset(0, 1)
            s11 == s10 \o Two(242, 0, 34)
            s12 == s11 \o Vcrl(272, 0)
            s13 == s12 \o Viret
<1>0. DwordBytes \in Nat /\ 0 \in Int /\ console_int_9 \in Int
  BY DwordBytesAssumption, ConsoleLabels
<1>1. /\ Code(s1, 15 + 2 * DwordBytes)
      /\ Loaded(m, 0, s1) => Loaded(m, 0, ConsoleSetup(console_int_9))
  BY <1>0, ConsoleSetupLoaded, Zenon
<1>. HIDE DEF s1
<1>2. /\ Code(s2, 18 + 2 * DwordBytes)
      /\ Loaded(m, 0, s2) => Loaded(m, 0, s1)
                             /\ BranchAt(m, 15 + 2 * DwordBytes, 64,
                                         (15 + 2 * DwordBytes) - (15 + 2 * DwordBytes + 3))
  <2>1. 64 \in Byte /\ 15 + 2 * DwordBytes \in Int
    BY <1>0 DEF Byte
  <2>4. /\ Code(s2, 15 + 2 * DwordBytes + 3)
        /\ Loaded(m, 0, s2) => Loaded(m, 0, s1)
                               /\ BranchAt(m, 15 + 2 * DwordBytes, 64,
                                           (15 + 2 * DwordBytes) - (15 + 2 * DwordBytes + 3))
    BY <2>1, <1>1, ThenBranch, Zenon
  <2>5. 15 + 2 * DwordBytes + 3 = 18 + 2 * DwordBytes
    BY <1>0
  <2>. HIDE DEF s2
  <2>. QED BY <2>4, <2>5
<1>. HIDE DEF s2
<1>3. /\ Code(s3, 35 + 6 * DwordBytes)
      /\ Loaded(m, 0, s3) => Loaded(m, 0, s2) /\ Loaded(m, 18 + 2 * DwordBytes, console_prompt)
  <2>1. 0 \in Int
    BY <1>0
  <2>3. Code(console_prompt, 17 + 4 * DwordBytes)
    BY <1>0, ConsolePromptLoaded, Zenon
  <2>4. /\ Code(s3, 18 + 2 * DwordBytes + (17 + 4 * DwordBytes))
        /\ Loaded(m, 0, s3) => Loaded(m, 0, s2) /\ Loaded(m, 0 + (18 + 2 * DwordBytes), console_prompt)
    BY <2>1, <1>2, <2>3, ThenCode, Zenon
  <2>5. /\ 18 + 2 * DwordBytes + (17 + 4 * DwordBytes) = 35 + 6 * DwordBytes
        /\ 0 + (18 + 2 * DwordBytes) = 18 + 2 * DwordBytes
    BY <1>0
  <2>. HIDE DEF s3
  <2>. QED BY <2>4, <2>5
<1>. HIDE DEF s3
<1>4. /\ Code(s4, 38 + 6 * DwordBytes)
      /\ Loaded(m, 0, s4) => Loaded(m, 0, s3) /\ TwoAt(m, 35 + 6 * DwordBytes, 243, 0, 33)
  <2>1. 243 \in Byte /\ 0 \in Byte /\ 33 \in Byte /\ 0 \in Int
    BY <1>0 DEF Byte
  <2>4. /\ Code(s4, 35 + 6 * DwordBytes + 3)
        /\ Loaded(m, 0, s4) => Loaded(m, 0, s3) /\ TwoAt(m, 0 + (35 + 6 * DwordBytes), 243, 0, 33)
    BY <2>1, <1>3, ThenTwo, Zenon
  <2>5. /\ 35 + 6 * DwordBytes + 3 = 38 + 6 * DwordBytes
        /\ 0 + (35 + 6 * DwordBytes) = 35 + 6 * DwordBytes
    BY <1>0
  <2>. HIDE DEF s4
  <2>. QED BY <2>4, <2>5
<1>. HIDE DEF s4
<1>5. /\ Code(s5, 41 + 6 * DwordBytes)
      /\ Loaded(m, 0, s5) => Loaded(m, 0, s4) /\ TwoAt(m, 38 + 6 * DwordBytes, 32, 0, 1)
  <2>1. 32 \in Byte /\ 0 \in Byte /\ 1 \in Byte /\ 0 \in Int
    BY <1>0 DEF Byte
  <2>4. /\ Code(s5, 38 + 6 * DwordBytes + 3)
        /\ Loaded(m, 0, s5) => Loaded(m, 0, s4) /\ TwoAt(m, 0 + (38 + 6 * DwordBytes), 32, 0, 1)
    BY <2>1, <1>4, ThenTwo, Zenon
  <2>5. /\ 38 + 6 * DwordBytes + 3 = 41 + 6 * DwordBytes
        /\ 0 + (38 + 6 * DwordBytes) = 38 + 6 * DwordBytes
    BY <1>0
  <2>. HIDE DEF s5
  <2>. QED BY <2>4, <2>5
<1>. HIDE DEF s5
<1>6. /\ Code(s6, 44 + 6 * DwordBytes)
      /\ Loaded(m, 0, s6) => Loaded(m, 0, s5)
                             /\ BranchAt(m, 41 + 6 * DwordBytes, 33,
                                         (53 + 6 * DwordBytes) - (41 + 6 * DwordBytes + 3))
  <2>1. 33 \in Byte /\ 53 + 6 * DwordBytes \in Int
    BY <1>0 DEF Byte
  <2>4. /\ Code(s6, 41 + 6 * DwordBytes + 3)
        /\ Loaded(m, 0, s6) => Loaded(m, 0, s5)
                               /\ BranchAt(m, 41 + 6 * DwordBytes, 33,
                                           (53 + 6 * DwordBytes) - (41 + 6 * DwordBytes + 3))
    BY <2>1, <1>5, ThenBranch, Zenon
  <2>5. 41 + 6 * DwordBytes + 3 = 44 + 6 * DwordBytes
    BY <1>0
  <2>. HIDE DEF s6
  <2>. QED BY <2>4, <2>5
<1>. HIDE DEF s6
<1>7. /\ Code(s7, 47 + 6 * DwordBytes)
      /\ Loaded(m, 0, s7) => Loaded(m, 0, s6) /\ TwoAt(m, 44 + 6 * DwordBytes, 243, 0, 32)
  <2>1. 243 \in Byte /\ 0 \in Byte /\ 32 \in Byte /\ 0 \in Int
    BY <1>0 DEF Byte
  <2>4. /\ Code(s7, 44 + 6 * DwordBytes + 3)
        /\ Loaded(m, 0, s7) => Loaded(m, 0, s6) /\ TwoAt(m, 0 + (44 + 6 * DwordBytes), 243, 0, 32)
    BY <2>1, <1>6, ThenTwo, Zenon
  <2>5. /\ 44 + 6 * DwordBytes + 3 = 47 + 6 * DwordBytes
        /\ 0 + (44 + 6 * DwordBytes) = 44 + 6 * DwordBytes
    BY <1>0
  <2>. HIDE DEF s7
  <2>. QED BY <2>4, <2>5
<1>. HIDE DEF s7
<1>8. /\ Code(s8, 50 + 6 * DwordBytes)
      /\ Loaded(m, 0, s8) => Loaded(m, 0, s7) /\ TwoAt(m, 47 + 6 * DwordBytes, 242, 0, 32)
  <2>1. 242 \in Byte /\ 0 \in Byte /\ 32 \in Byte /\ 0 \in Int
    BY <1>0 DEF Byte
  <2>4. /\ Code(s8, 47 + 6 * DwordBytes + 3)
        /\ Loaded(m, 0, s8) => Loaded(m, 0, s7) /\ TwoAt(m, 0 + (47 + 6 * DwordBytes), 242, 0, 32)
    BY <2>1, <1>7, ThenTwo, Zenon
  <2>5. /\ 47 + 6 * DwordBytes + 3 = 50 + 6 * DwordBytes
        /\ 0 + (47 + 6 * DwordBytes) = 47 + 6 * DwordBytes
    BY <1>0
  <2>. HIDE DEF s8
  <2>. QED BY <2>4, <2>5
<1>. HIDE DEF s8
<1>9. /\ Code(s9, 53 + 6 * DwordBytes)
      /\ Loaded(m, 0, s9) => Loaded(m, 0, s8)
                             /\ BranchAt(m, 50 + 6 * DwordBytes, 64,
                                         (35 + 6 * DwordBytes) - (50 + 6 * DwordBytes + 3))
  <2>1. 64 \in Byte /\ 35 + 6 * DwordBytes \in Int
    BY <1>0 DEF Byte
  <2>4. /\ Code(s9, 50 + 6 * DwordBytes + 3)
        /\ Loaded(m, 0, s9) => Loaded(m, 0, s8)
                               /\ BranchAt(m, 50 + 6 * DwordBytes, 64,
                                           (35 + 6 * DwordBytes) - (50 + 6 * DwordBytes + 3))
    BY <2>1, <1>8, ThenBranch, Zenon
  <2>5. 50 + 6 * DwordBytes + 3 = 53 + 6 * DwordBytes
    BY <1>0
  <2>. HIDE DEF s9
  <2>. QED BY <2>4, <2>5
<1>. HIDE DEF s9
<1>10. /\ Code(s10, 55 + 7 * DwordBytes)
       /\ Loaded(m, 0, s10) => Loaded(m, 0, s9) /\ VsetAt(m, 53 + 6 * DwordBytes, 0, 1)
  <2>1. 0 \in 0 .. 15 /\ 1 \in Int /\ 0 \in Int
    BY <1>0
  <2>4. /\ Code(s10, 53 + 6 * DwordBytes + (2 + DwordBytes))
        /\ Loaded(m, 0, s10) => Loaded(m, 0, s9) /\ VsetAt(m, 0 + (53 + 6 * DwordBytes), 0, 1)
    BY <2>1, <1>9, ThenVset, Zenon
  <2>5. /\ 53 + 6 * DwordBytes + (2 + DwordBytes) = 55 + 7 * DwordBytes
        /\ 0 + (53 + 6 * DwordBytes) = 53 + 6 * DwordBytes
    BY <1>0
  <2>. HIDE DEF s10
  <2>. QED BY <2>4, <2>5
<1>. HIDE DEF s10
<1>11. /\ Code(s11, 58 + 7 * DwordBytes)
       /\ Loaded(m, 0, s11) => Loaded(m, 0, s10) /\ TwoAt(m, 55 + 7 * DwordBytes, 242, 0, 34)
  <2>1. 242 \in Byte /\ 0 \in Byte /\ 34 \in Byte /\ 0 \in Int
    BY <1>0 DEF Byte
  <2>4. /\ Code(s11, 55 + 7 * DwordBytes + 3)
        /\ Loaded(m, 0, s11) => Loaded(m, 0, s10) /\ TwoAt(m, 0 + (55 + 7 * DwordBytes), 242, 0, 34)
    BY <2>1, <1>10, ThenTwo, Zenon
  <2>5. /\ 55 + 7 * DwordBytes + 3 = 58 + 7 * DwordBytes
        /\ 0 + (55 + 7 * DwordBytes) = 55 + 7 * DwordBytes
    BY <1>0
  <2>. HIDE DEF s11
  <2>. QED BY <2>4, <2>5
<1>. HIDE DEF s11
<1>12. /\ Code(s12, 62 + 7 * DwordBytes)
       /\ Loaded(m, 0, s12) => Loaded(m, 0, s11) /\ VcrlAt(m, 58 + 7 * DwordBytes, 272, 0)
  <2>1. 0 \in 0 .. 15 /\ 272 \in Int /\ 0 \in Int
    BY <1>0
  <2>4. /\ Code(s12, 58 + 7 * DwordBytes + 4)
        /\ Loaded(m, 0, s12) => Loaded(m, 0, s11) /\ VcrlAt(m, 0 + (58 + 7 * DwordBytes), 272, 0)
    BY <2>1, <1>11, ThenVcrl, Zenon
  <2>5. /\ 58 + 7 * DwordBytes + 4 = 62 + 7 * DwordBytes
        /\ 0 + (58 + 7 * DwordBytes) = 58 + 7 * DwordBytes
    BY <1>0
  <2>. HIDE DEF s12
  <2>. QED BY <2>4, <2>5
<1>. HIDE DEF s12
<1>13. /\ Code(s13, 63 + 7 * DwordBytes)
       /\ Loaded(m, 0, s13) => Loaded(m, 0, s12) /\ OneAt(m, 62 + 7 * DwordBytes, 244)
  <2>1. 0 \in Int
    BY <1>0
  <2>4. /\ Code(s13, 62 + 7 * DwordBytes + 1)
        /\ Loaded(m, 0, s13) => Loaded(m, 0, s12) /\ OneAt(m, 0 + (62 + 7 * DwordBytes), 244)
    BY <2>1, <1>12, ThenViret, Zenon
  <2>5. /\ 62 + 7 * DwordBytes + 1 = 63 + 7 * DwordBytes
        /\ 0 + (62 + 7 * DwordBytes) = 62 + 7 * DwordBytes
    BY <1>0
  <2>. HIDE DEF s13
  <2>. QED BY <2>4, <2>5
<1>14. console_test = s13
  <2>. DEFINE labelled(infloop, top, end, again, while) ==
                ConsoleSetup(console_int_9) \o Branch(64, infloop, infloop) \o console_prompt
                \o Two(243, 0, 33) \o Two(32, 0, 1) \o Branch(33, top, end)
                \o Two(243, 0, 32) \o Two(242, 0, 32) \o Branch(64, again, while)
                \o Vset(0, 1) \o Two(242, 0, 34) \o Vcrl(272, 0) \o Viret
  <2>1. console_while + 6 = 41 + 6 * DwordBytes /\ console_while + 15 = 50 + 6 * DwordBytes
    BY <1>0, ConsoleLabels
  <2>2. console_test = labelled(console_infloop, console_while + 6, console_end,
                                console_while + 15, console_while)
    BY Zenon DEF console_test, Vjmp, Vjz, Vinb, Vcmp, Voutb
  <2>3. s13 = labelled(15 + 2 * DwordBytes, 41 + 6 * DwordBytes, 53 + 6 * DwordBytes,
                       50 + 6 * DwordBytes, 35 + 6 * DwordBytes)
    BY Zenon DEF s1, s2, s3, s4, s5, s6, s7, s8, s9, s10, s11, s12
  <2>. HIDE DEF labelled, s13
  <2>. QED BY <2>1, <2>2, <2>3, ConsoleLabels
<1>. HIDE DEF s13
<1>. QED BY <1>1, <1>2, <1>3, <1>4, <1>5, <1>6, <1>7, <1>8, <1>9, <1>10, <1>11, <1>12, <1>13, <1>14

\* Both devices at once.
LEMMA BothSetupLoaded ==
  ASSUME NEW p \in Int, NEW c \in Int, NEW m
  PROVE  /\ Code(BothSetup(p, c), 27 + 3 * DwordBytes)
         /\ Loaded(m, 0, BothSetup(p, c)) =>
              /\ VsetAt(m, 0, 0, 1)
              /\ VsetAt(m, 2 + DwordBytes, 1, p)
              /\ VcrlAt(m, 4 + 2 * DwordBytes, 264, 1)
              /\ VsetAt(m, 8 + 2 * DwordBytes, 1, c)
              /\ VcrlAt(m, 10 + 3 * DwordBytes, 265, 1)
              /\ TwoAt(m, 14 + 3 * DwordBytes, 242, 0, 113)
              /\ VcrlAt(m, 17 + 3 * DwordBytes, 272, 0)
              /\ TwoAt(m, 21 + 3 * DwordBytes, 242, 0, 34)
              /\ TwoAt(m, 24 + 3 * DwordBytes, 242, 0, 112)
<1>. DEFINE s1 == Vset(0, 1)
            s2 == s1 \o Vset(1, p)
            s3 == s2 \o Vcrl(264, 1)
            s4 == s3 \o Vset(1, c)
            s5 == s4 \o Vcrl(265, 1)
            s6 == s5 \o Two(242, 0, 113)
            s7 == s6 \o Vcrl(272, 0)
            s8 == s7 \o Two(242, 0, 34)
            s9 == s8 \o Two(242, 0, 112)
<1>0. DwordBytes \in Nat
  BY DwordBytesAssumption
<1>1. /\ Code(s1, 2 + DwordBytes)
      /\ Loaded(m, 0, s1) => VsetAt(m, 0, 0, 1)
  <2>1. 0 \in 0 .. 15 /\ 1 \in Int /\ 0 \in Int
    BY <1>0
  <2>. QED BY <2>1, <1>0, FirstVset
<1>. HIDE DEF s1
<1>2. /\ Code(s2, 4 + 2 * DwordBytes)
      /\ Loaded(m, 0, s2) => Loaded(m, 0, s1) /\ VsetAt(m, 2 + DwordBytes, 1, p)
  <2>1. 1 \in 0 .. 15 /\ p \in Int /\ 0 \in Int
    BY <1>0
  <2>4. /\ Code(s2, 2 + DwordBytes + (2 + DwordBytes))
        /\ Loaded(m, 0, s2) => Loaded(m, 0, s1) /\ VsetAt(m, 0 + (2 + DwordBytes), 1, p)
    BY <2>1, <1>1, ThenVset, Zenon
  <2>5. 2 + DwordBytes + (2 + DwordBytes) = 4 + 2 * DwordBytes /\ 0 + (2 + DwordBytes) = 2 + DwordBytes
    BY <1>0
  <2>. HIDE DEF s2
  <2>. QED BY <2>4, <2>5
<1>. HIDE DEF s2
<1>3. /\ Code(s3, 8 + 2 * DwordBytes)
      /\ Loaded(m, 0, s3) => Loaded(m, 0, s2) /\ VcrlAt(m, 4 + 2 * DwordBytes, 264, 1)
  <2>1. 1 \in 0 .. 15 /\ 264 \in Int /\ 0 \in Int
    BY <1>0
  <2>4. /\ Code(s3, 4 + 2 * DwordBytes + 4)
        /\ Loaded(m, 0, s3) => Loaded(m, 0, s2) /\ VcrlAt(m, 0 + (4 + 2 * DwordBytes), 264, 1)
    BY <2>1, <1>2, ThenVcrl, Zenon
  <2>5. 4 + 2 * DwordBytes + 4 = 8 + 2 * DwordBytes /\ 0 + (4 + 2 * DwordBytes) = 4 + 2 * DwordBytes
    BY <1>0
  <2>. HIDE DEF s3
  <2>. QED BY <2>4, <2>5
<1>. HIDE DEF s3
<1>4. /\ Code(s4, 10 + 3 * DwordBytes)
      /\ Loaded(m, 0, s4) => Loaded(m, 0, s3) /\ VsetAt(m, 8 + 2 * DwordBytes, 1, c)
  <2>1. 1 \in 0 .. 15 /\ c \in Int /\ 0 \in Int
    BY <1>0
  <2>4. /\ Code(s4, 8 + 2 * DwordBytes + (2 + DwordBytes))
        /\ Loaded(m, 0, s4) => Loaded(m, 0, s3) /\ VsetAt(m, 0 + (8 + 2 * DwordBytes), 1, c)
    BY <2>1, <1>3, ThenVset, Zenon
  <2>5. /\ 8 + 2 * DwordBytes + (2 + DwordBytes) = 10 + 3 * DwordBytes
        /\ 0 + (8 + 2 * DwordBytes) = 8 + 2 * DwordBytes
    BY <1>0
  <2>. HIDE DEF s4
  <2>. QED BY <2>4, <2>5
<1>. HIDE DEF s4
<1>5. /\ Code(s5, 14 + 3 * DwordBytes)
      /\ Loaded(m, 0, s5) => Loaded(m, 0, s4) /\ VcrlAt(m, 10 + 3 * DwordBytes, 265, 1)
  <2>1. 1 \in 0 .. 15 /\ 265 \in Int /\ 0 \in Int
    BY <1>0
  <2>4. /\ Code(s5, 10 + 3 * DwordBytes + 4)
        /\ Loaded(m, 0, s5) => Loaded(m, 0, s4) /\ VcrlAt(m, 0 + (10 + 3 * DwordBytes), 265, 1)
    BY <2>1, <1>4, ThenVcrl, Zenon
  <2>5. /\ 10 + 3 * DwordBytes + 4 = 14 + 3 * DwordBytes
        /\ 0 + (10 + 3 * DwordBytes) = 10 + 3 * DwordBytes
    BY <1>0
  <2>. HIDE DEF s5
  <2>. QED BY <2>4, <2>5
<1>. HIDE DEF s5
<1>6. /\ Code(s6, 17 + 3 * DwordBytes)
      /\ Loaded(m, 0, s6) => Loaded(m, 0, s5) /\ TwoAt(m, 14 + 3 * DwordBytes, 242, 0, 113)
  <2>1. 242 \in Byte /\ 0 \in Byte /\ 113 \in Byte /\ 0 \in Int
    BY <1>0 DEF Byte
  <2>4. /\ Code(s6, 14 + 3 * DwordBytes + 3)
        /\ Loaded(m, 0, s6) => Loaded(m, 0, s5) /\ TwoAt(m, 0 + (14 + 3 * DwordBytes), 242, 0, 113)
    BY <2>1, <1>5, ThenTwo, Zenon
  <2>5. /\ 14 + 3 * DwordBytes + 3 = 17 + 3 * DwordBytes
        /\ 0 + (14 + 3 * DwordBytes) = 14 + 3 * DwordBytes
    BY <1>0
  <2>. HIDE DEF s6
  <2>. QED BY <2>4, <2>5
<1>. HIDE DEF s6
<1>7. /\ Code(s7, 21 + 3 * DwordBytes)
      /\ Loaded(m, 0, s7) => Loaded(m, 0, s6) /\ VcrlAt(m, 17 + 3 * DwordBytes, 272, 0)
  <2>1. 0 \in 0 .. 15 /\ 272 \in Int /\ 0 \in Int
    BY <1>0
  <2>4. /\ Code(s7, 17 + 3 * DwordBytes + 4)
        /\ Loaded(m, 0, s7) => Loaded(m, 0, s6) /\ VcrlAt(m, 0 + (17 + 3 * DwordBytes), 272, 0)
    BY <2>1, <1>6, ThenVcrl, Zenon
  <2>5. /\ 17 + 3 * DwordBytes + 4 = 21 + 3 * DwordBytes
        /\ 0 + (17 + 3 * DwordBytes) = 17 + 3 * DwordBytes
    BY <1>0
  <2>. HIDE DEF s7
  <2>. QED BY <2>4, <2>5
<1>. HIDE DEF s7
<1>8. /\ Code(s8, 24 + 3 * DwordBytes)
      /\ Loaded(m, 0, s8) => Loaded(m, 0, s7) /\ TwoAt(m, 21 + 3 * DwordBytes, 242, 0, 34)
  <2>1. 242 \in Byte /\ 0 \in Byte /\ 34 \in Byte /\ 0 \in Int
    BY <1>0 DEF Byte
  <2>4. /\ Code(s8, 21 + 3 * DwordBytes + 3)
        /\ Loaded(m, 0, s8) => Loaded(m, 0, s7) /\ TwoAt(m, 0 + (21 + 3 * DwordBytes), 242, 0, 34)
    BY <2>1, <1>7, ThenTwo, Zenon
  <2>5. /\ 21 + 3 * DwordBytes + 3 = 24 + 3 * DwordBytes
        /\ 0 + (21 + 3 * DwordBytes) = 21 + 3 * DwordBytes
    BY <1>0
  <2>. HIDE DEF s8
  <2>. QED BY <2>4, <2>5
<1>. HIDE DEF s8
<1>9. /\ Code(s9, 27 + 3 * DwordBytes)
      /\ Loaded(m, 0, s9) => Loaded(m, 0, s8) /\ TwoAt(m, 24 + 3 * DwordBytes, 242, 0, 112)
  <2>1. 242 \in Byte /\ 0 \in Byte /\ 112 \in Byte /\ 0 \in Int
    BY <1>0 DEF Byte
  <2>4. /\ Code(s9, 24 + 3 * DwordBytes + 3)
        /\ Loaded(m, 0, s9) => Loaded(m, 0, s8) /\ TwoAt(m, 0 + (24 + 3 * DwordBytes), 242, 0, 112)
    BY <2>1, <1>8, ThenTwo, Zenon
  <2>5. /\ 24 + 3 * DwordBytes + 3 = 27 + 3 * DwordBytes
        /\ 0 + (24 + 3 * DwordBytes) = 24 + 3 * DwordBytes
    BY <1>0
  <2>. HIDE DEF s9
  <2>. QED BY <2>4, <2>5
<1>10. BothSetup(p, c) = s9
  BY DEF BothSetup, Voutb, s1, s2, s3, s4, s5, s6, s7, s8
<1>. HIDE DEF s9
<1>. QED BY <1>1, <1>2, <1>3, <1>4, <1>5, <1>6, <1>7, <1>8, <1>9, <1>10

LEMMA BothInt8Loaded ==
  ASSUME NEW m, NEW a \in Int
  PROVE  /\ Code(both_int_8, 10 + DwordBytes)
         /\ Loaded(m, a, both_int_8) =>
              /\ VsetAt(m, a, 0, 1)
              /\ TwoAt(m, a + 2 + DwordBytes, 242, 0, 112)
              /\ VcrlAt(m, a + 5 + DwordBytes, 272, 0)
              /\ OneAt(m, a + 9 + DwordBytes, 244)
<1>. DEFINE s1 == Vset(0, 1)
            s2 == s1 \o Two(242, 0, 112)
            s3 == s2 \o Vcrl(272, 0)
            s4 == s3 \o Viret
<1>0. DwordBytes \in Nat
  BY DwordBytesAssumption
<1>1. /\ Code(s1, 2 + DwordBytes)
      /\ Loaded(m, a, s1) => VsetAt(m, a, 0, 1)
  <2>1. 0 \in 0 .. 15 /\ 1 \in Int
    BY <1>0
  <2>. QED BY <2>1, <1>0, FirstVset
<1>. HIDE DEF s1
<1>2. /\ Code(s2, 5 + DwordBytes)
      /\ Loaded(m, a, s2) => Loaded(m, a, s1) /\ TwoAt(m, a + 2 + DwordBytes, 242, 0, 112)
  <2>1. 242 \in Byte /\ 0 \in Byte /\ 112 \in Byte
    BY <1>0 DEF Byte
  <2>4. /\ Code(s2, 2 + DwordBytes + 3)
        /\ Loaded(m, a, s2) => Loaded(m, a, s1) /\ TwoAt(m, a + (2 + DwordBytes), 242, 0, 112)
    BY <2>1, <1>1, ThenTwo, Zenon
  <2>5. 2 + DwordBytes + 3 = 5 + DwordBytes /\ a + (2 + DwordBytes) = a + 2 + DwordBytes
    BY <1>0
  <2>. HIDE DEF s2
  <2>. QED BY <2>4, <2>5
<1>. HIDE DEF s2
<1>3. /\ Code(s3, 9 + DwordBytes)
      /\ Loaded(m, a, s3) => Loaded(m, a, s2) /\ VcrlAt(m, a + 5 + DwordBytes, 272, 0)
  <2>1. 0 \in 0 .. 15 /\ 272 \in Int
    BY <1>0
  <2>4. /\ Code(s3, 5 + DwordBytes + 4)
        /\ Loaded(m, a, s3) => Loaded(m, a, s2) /\ VcrlAt(m, a + (5 + DwordBytes), 272, 0)
    BY <2>1, <1>2, ThenVcrl, Zenon
  <2>5. 5 + DwordBytes + 4 = 9 + DwordBytes /\ a + (5 + DwordBytes) = a + 5 + DwordBytes
    BY <1>0
  <2>. HIDE DEF s3
  <2>. QED BY <2>4, <2>5
<1>. HIDE DEF s3
<1>4. /\ Code(s4, 10 + DwordBytes)
      /\ Loaded(m, a, s4) => Loaded(m, a, s3) /\ OneAt(m, a + 9 + DwordBytes, 244)
  <2>4. /\ Code(s4, 9 + DwordBytes + 1)
        /\ Loaded(m, a, s4) => Loaded(m, a, s3) /\ OneAt(m, a + (9 + DwordBytes), 244)
    BY <1>3, ThenViret, Zenon
  <2>5. 9 + DwordBytes + 1 = 10 + DwordBytes /\ a + (9 + DwordBytes) = a + 9 + DwordBytes
    BY <1>0
  <2>. HIDE DEF s4
  <2>. QED BY <2>4, <2>5
<1>5. both_int_8 = s4
  BY DEF both_int_8, Voutb, s1, s2, s3
<1>. HIDE DEF s4
<1>. QED BY <1>1, <1>2, <1>3, <1>4, <1>5

LEMMA BothInt9Loaded ==
  ASSUME NEW m, NEW a \in Int
  PROVE  /\ Code(both_int_9, 16 + DwordBytes)
         /\ Loaded(m, a, both_int_9) =>
              /\ TwoAt(m, a, 243, 1, 32)
              /\ TwoAt(m, a + 3, 242, 1, 32)
              /\ VsetAt(m, a + 6, 0, 1)
              /\ TwoAt(m, a + 8 + DwordBytes, 242, 0, 34)
              /\ VcrlAt(m, a + 11 + DwordBytes, 272, 0)
              /\ OneAt(m, a + 15 + DwordBytes, 244)
<1>. DEFINE s1 == Two(243, 1, 32)
            s2 == s1 \o Two(242, 1, 32)
            s3 == s2 \o Vset(0, 1)
            s4 == s3 \o Two(242, 0, 34)
            s5 == s4 \o Vcrl(272, 0)
            s6 == s5 \o Viret
<1>0. DwordBytes \in Nat
  BY DwordBytesAssumption
<1>1. /\ Code(s1, 3)
      /\ Loaded(m, a, s1) => TwoAt(m, a, 243, 1, 32)
  <2>1. 243 \in Byte /\ 1 \in Byte /\ 32 \in Byte
    BY <1>0 DEF Byte
  <2>. QED BY <2>1, <1>0, FirstTwo
<1>. HIDE DEF s1
<1>2. /\ Code(s2, 6)
      /\ Loaded(m, a, s2) => Loaded(m, a, s1) /\ TwoAt(m, a + 3, 242, 1, 32)
  <2>1. 242 \in Byte /\ 1 \in Byte /\ 32 \in Byte
    BY <1>0 DEF Byte
  <2>4. /\ Code(s2, 3 + 3)
        /\ Loaded(m, a, s2) => Loaded(m, a, s1) /\ TwoAt(m, a + (3), 242, 1, 32)
    BY <2>1, <1>1, ThenTwo, Zenon
  <2>5. 3 + 3 = 6 /\ a + (3) = a + 3
    BY <1>0
  <2>. HIDE DEF s2
  <2>. QED BY <2>4, <2>5
<1>. HIDE DEF s2
<1>3. /\ Code(s3, 8 + DwordBytes)
      /\ Loaded(m, a, s3) => Loaded(m, a, s2) /\ VsetAt(m, a + 6, 0, 1)
  <2>1. 0 \in 0 .. 15 /\ 1 \in Int
    BY <1>0
  <2>4. /\ Code(s3, 6 + (2 + DwordBytes))
        /\ Loaded(m, a, s3) => Loaded(m, a, s2) /\ VsetAt(m, a + (6), 0, 1)
    BY <2>1, <1>2, ThenVset, Zenon
  <2>5. 6 + (2 + DwordBytes) = 8 + DwordBytes /\ a + (6) = a + 6
    BY <1>0
  <2>. HIDE DEF s3
  <2>. QED BY <2>4, <2>5
<1>. HIDE DEF s3
<1>4. /\ Code(s4, 11 + DwordBytes)
      /\ Loaded(m, a, s4) => Loaded(m, a, s3) /\ TwoAt(m, a + 8 + DwordBytes, 242, 0, 34)
  <2>1. 242 \in Byte /\ 0 \in Byte /\ 34 \in Byte
    BY <1>0 DEF Byte
  <2>4. /\ Code(s4, 8 + DwordBytes + 3)
        /\ Loaded(m, a, s4) => Loaded(m, a, s3) /\ TwoAt(m, a + (8 + DwordBytes), 242, 0, 34)
    BY <2>1, <1>3, ThenTwo, Zenon
  <2>5. 8 + DwordBytes + 3 = 11 + DwordBytes /\ a + (8 + DwordBytes) = a + 8 + DwordBytes
    BY <1>0
  <2>. HIDE DEF s4
  <2>. QED BY <2>4, <2>5
<1>. HIDE DEF s4
<1>5. /\ Code(s5, 15 + DwordBytes)
      /\ Loaded(m, a, s5) => Loaded(m, a, s4) /\ VcrlAt(m, a + 11 + DwordBytes, 272, 0)
  <2>1. 0 \in 0 .. 15 /\ 272 \in Int
    BY <1>0
  <2>4. /\ Code(s5, 11 + DwordBytes + 4)
        /\ Loaded(m, a, s5) => Loaded(m, a, s4) /\ VcrlAt(m, a + (11 + DwordBytes), 272, 0)
    BY <2>1, <1>4, ThenVcrl, Zenon
  <2>5. 11 + DwordBytes + 4 = 15 + DwordBytes /\ a + (11 + DwordBytes) = a + 11 + DwordBytes
    BY <1>0
  <2>. HIDE DEF s5
  <2>. QED BY <2>4, <2>5
<1>. HIDE DEF s5
<1>6. /\ Code(s6, 16 + DwordBytes)
      /\ Loaded(m, a, s6) => Loaded(m, a, s5) /\ OneAt(m, a + 15 + DwordBytes, 244)
  <2>4. /\ Code(s6, 15 + DwordBytes + 1)
        /\ Loaded(m, a, s6) => Loaded(m, a, s5) /\ OneAt(m, a + (15 + DwordBytes), 244)
    BY <1>5, ThenViret, Zenon
  <2>5. 15 + DwordBytes + 1 = 16 + DwordBytes /\ a + (15 + DwordBytes) = a + 15 + DwordBytes
    BY <1>0
  <2>. HIDE DEF s6
  <2>. QED BY <2>4, <2>5
<1>7. both_int_9 = s6
  BY DEF both_int_9, Vinb, Voutb, s1, s2, s3, s4, s5
<1>. HIDE DEF s6
<1>. QED BY <1>1, <1>2, <1>3, <1>4, <1>5, <1>6, <1>7

LEMMA BothLabels ==
  both_infloop = 27 + 3 * DwordBytes /\ Len(both_int_8) = 10 + DwordBytes
<1>0. 0 \in Int
  OBVIOUS
<1>1. Code(BothSetup(0, 0), 27 + 3 * DwordBytes)
  BY <1>0, BothSetupLoaded, Zenon
<1>2. Code(both_int_8, 10 + DwordBytes)
  BY <1>0, BothInt8Loaded, Zenon
<1>. QED BY <1>1, <1>2 DEF Code, both_infloop

LEMMA BothLoaded ==
  ASSUME NEW m
  PROVE  /\ Code(both_test, 56 + 5 * DwordBytes)
         /\ Loaded(m, 0, both_test) =>
              /\ Loaded(m, 0, BothSetup(30 + 3 * DwordBytes, 40 + 4 * DwordBytes))

              /\ BranchAt(m, 27 + 3 * DwordBytes, 64,
                          (27 + 3 * DwordBytes) - (27 + 3 * DwordBytes + 3))
              /\ Loaded(m, 30 + 3 * DwordBytes, both_int_8)
              /\ Loaded(m, 40 + 4 * DwordBytes, both_int_9)
<1>. DEFINE s1 == BothSetup(30 + 3 * DwordBytes, 40 + 4 * DwordBytes)
            s2 == s1 \o Branch(64, 27 + 3 * DwordBytes, 27 + 3 * DwordBytes)
            s3 == s2 \o both_int_8
            s4 == s3 \o both_int_9
<1>0. DwordBytes \in Nat /\ 0 \in Int /\ 30 + 3 * DwordBytes \in Int /\ 40 + 4 * DwordBytes \in Int
  BY DwordBytesAssumption
<1>1. /\ Code(s1, 27 + 3 * DwordBytes)
      /\ Loaded(m, 0, s1) => Loaded(m, 0, BothSetup(30 + 3 * DwordBytes, 40 + 4 * DwordBytes))
  BY <1>0, BothSetupLoaded, Zenon
<1>. HIDE DEF s1
<1>2. /\ Code(s2, 30 + 3 * DwordBytes)
      /\ Loaded(m, 0, s2) => Loaded(m, 0, s1)
                             /\ BranchAt(m, 27 + 3 * DwordBytes, 64,
                                         (27 + 3 * DwordBytes) - (27 + 3 * DwordBytes + 3))
  <2>1. 64 \in Byte /\ 27 + 3 * DwordBytes \in Int
    BY <1>0 DEF Byte
  <2>4. /\ Code(s2, 27 + 3 * DwordBytes + 3)
        /\ Loaded(m, 0, s2) => Loaded(m, 0, s1)
                               /\ BranchAt(m, 27 + 3 * DwordBytes, 64,
                                           (27 + 3 * DwordBytes) - (27 + 3 * DwordBytes + 3))
    BY <2>1, <1>1, ThenBranch, Zenon
  <2>5. 27 + 3 * DwordBytes + 3 = 30 + 3 * DwordBytes
    BY <1>0
  <2>. HIDE DEF s2
  <2>. QED BY <2>4, <2>5
<1>. HIDE DEF s2
<1>3. /\ Code(s3, 40 + 4 * DwordBytes)
      /\ Loaded(m, 0, s3) => Loaded(m, 0, s2) /\ Loaded(m, 30 + 3 * DwordBytes, both_int_8)
  <2>1. 0 \in Int
    BY <1>0
  <2>3. Code(both_int_8, 10 + DwordBytes)
    BY <1>0, BothInt8Loaded, Zenon
  <2>4. /\ Code(s3, 30 + 3 * DwordBytes + (10 + DwordBytes))
        /\ Loaded(m, 0, s3) => Loaded(m, 0, s2) /\ Loaded(m, 0 + (30 + 3 * DwordBytes), both_int_8)
    BY <2>1, <1>2, <2>3, ThenCode, Zenon
  <2>5. /\ 30 + 3 * DwordBytes + (10 + DwordBytes) = 40 + 4 * DwordBytes
        /\ 0 + (30 + 3 * DwordBytes) = 30 + 3 * DwordBytes
    BY <1>0
  <2>. HIDE DEF s3
  <2>. QED BY <2>4, <2>5
<1>. HIDE DEF s3
<1>4. /\ Code(s4, 56 + 5 * DwordBytes)
      /\ Loaded(m, 0, s4) => Loaded(m, 0, s3) /\ Loaded(m, 40 + 4 * DwordBytes, both_int_9)
  <2>1. 0 \in Int
    BY <1>0
  <2>3. Code(both_int_9, 16 + DwordBytes)
    BY <1>0, BothInt9Loaded, Zenon
  <2>4. /\ Code(s4, 40 + 4 * DwordBytes + (16 + DwordBytes))
        /\ Loaded(m, 0, s4) => Loaded(m, 0, s3) /\ Loaded(m, 0 + (40 + 4 * DwordBytes), both_int_9)
    BY <2>1, <1>3, <2>3, ThenCode, Zenon
  <2>5. /\ 40 + 4 * DwordBytes + (16 + DwordBytes) = 56 + 5 * DwordBytes
        /\ 0 + (40 + 4 * DwordBytes) = 40 + 4 * DwordBytes
    BY <1>0
  <2>. HIDE DEF s4
  <2>. QED BY <2>4, <2>5
<1>5. both_test = s4
  <2>. DEFINE labelled(infloop, timer, console) ==
                BothSetup(timer, console) \o Branch(64, infloop, infloop) \o both_int_8 \o both_int_9
  <2>1. /\ both_infloop + 3 = 30 + 3 * DwordBytes
        /\ both_infloop + 3 + Len(both_int_8) = 40 + 4 * DwordBytes
    BY <1>0, BothLabels
  <2>2. both_test = labelled(both_infloop, both_infloop + 3, both_infloop + 3 + Len(both_int_8))
    BY Zenon DEF both_test, Vjmp
  <2>3. s4 = labelled(27 + 3 * DwordBytes, 30 + 3 * DwordBytes, 40 + 4 * DwordBytes)
    BY Zenon DEF s1, s2, s3
  <2>. HIDE DEF labelled, s4
  <2>. QED BY <2>1, <2>2, <2>3, BothLabels
<1>. HIDE DEF s4
<1>. QED BY <1>1, <1>2, <1>3, <1>4, <1>5

-----------------------------------------------------------------------------
(* The two programs, set up and running.                                   *)

LEMMA SmallBelow ==
  ASSUME UsualRam, NEW a \in Nat, a <= 150 PROVE Below(a)
<1>1. RamSize >= 256 /\ 17 * DwordBytes <= 68 /\ RamSize \in Nat /\ DwordBytes \in Nat
  BY DwordBytesAssumption DEF UsualRam
<1>. QED BY <1>1 DEF Below

\* The instructions of a handler.
LEMMA VsetHandles ==
  ASSUME NEW p, NEW m, NEW a, Below(a), NEW i \in 0 .. 13, NEW v, VsetAt(m, a, i, v),
         a + 2 + DwordBytes \in p.handler
  PROVE  HandlerAt(p, m, a)
<1>1. i % 16 = i
  OBVIOUS
<1>2. m[a] = 1 /\ m[a + 1] % 16 < 14
  BY <1>1 DEF VsetAt
<1>. QED BY <1>2 DEF HandlerAt

LEMMA CompareHandles ==
  ASSUME NEW p, NEW m, NEW a, Below(a), NEW i, NEW j, TwoAt(m, a, 32, i, j), a + 3 \in p.handler
  PROVE  HandlerAt(p, m, a)
  BY DEF HandlerAt, TwoAt

LEMMA WriteHandles ==
  ASSUME NEW p, NEW m, NEW a, Below(a), NEW i, NEW j \in Nat, TwoAt(m, a, 242, i, j),
         j # 112 \/ INT_PIT \in p.ints, a + 3 \in p.handler
  PROVE  HandlerAt(p, m, a)
  BY DEF HandlerAt, TwoAt, TimerAllowed

LEMMA ReadHandles ==
  ASSUME NEW p, NEW m, NEW a, Below(a), NEW i \in 0 .. 13, NEW j, TwoAt(m, a, 243, i, j),
         a + 3 \in p.handler
  PROVE  HandlerAt(p, m, a)
<1>1. i % 16 = i
  OBVIOUS
<1>2. m[a] = 243 /\ m[a + 1] % 16 < 14
  BY <1>1 DEF TwoAt
<1>. QED BY <1>2 DEF HandlerAt

LEMMA BranchHandles ==
  ASSUME UsualRam, NEW p, NEW m, NEW a \in Nat, Below(a), NEW op \in {33, 64}, NEW to \in Nat,
         a + 3 < 256, to < 256, BranchAt(m, a, op, to - (a + 3)),
         to \in p.handler, op = 33 => a + 3 \in p.handler
  PROVE  HandlerAt(p, m, a)
<1>1. m[a] = op /\ To(m, a) = to
  BY JumpLands
<1>. QED BY <1>1 DEF HandlerAt

LEMMA JumpHere ==
  ASSUME UsualRam, NEW m, NEW op, NEW a \in Nat, a + 3 < 256, BranchAt(m, a, op, a - (a + 3))
  PROVE  m[a] = op /\ To(m, a) = a
<1>. DEFINE to == a
<1>1. to \in Nat /\ to < 256 /\ BranchAt(m, a, op, to - (a + 3)) /\ to = a
  OBVIOUS
<1>. HIDE DEF to
<1>. QED BY <1>1, JumpLands

LEMMA LoadHandles ==
  ASSUME NEW p, NEW m, NEW a, Below(a), NEW i, VcrlAt(m, a, 272, i), a + 4 \in p.ends
  PROVE  HandlerAt(p, m, a)
  BY DEF HandlerAt, VcrlAt, CREG_INT_CONTROL

\* One step of a setup that is not an instruction.
LEMMA RowGoes ==
  ASSUME MachineInv, NEW p, IsProgram(p), Calm(p), [MachineNext]_machineVars,
         NEW a, NEW x, NEW y, NEW k8, NEW k9, NEW c, Row(a, x, y, k8, k9, c)
  PROVE  \/ Row(a, x, y, k8, k9, c)' /\ UNCHANGED mem /\ Calm(p)'
         \/ CpuTypeOK /\ phase = "exec" /\ defered_queue = <<>> /\ Cpu
<1>1. CpuTypeOK /\ (phase = "exec" => defered_queue = <<>>) /\ phase \in {"fetch", "exec"}
  BY DEF MachineInv, MachineTypeOK, QueuesOK, CpuTypeOK
<1>2. CASE Boot \/ ConsoleThread \/ TimerThread \/ Clock \/ Leave \/ UNCHANGED machineVars
  <2>1. UNCHANGED <<mem, r, fr, cr, defered_queue, phase>>
    BY <1>2 DEF Boot, ConsoleThread, TimerThread, Clock, Leave, machineVars, cpuVars
  <2>. QED BY <1>2, <2>1, CalmStays, RowStays
<1>3. CASE Cpu /\ phase = "fetch"
  BY <1>1, <1>3, RowFetch
<1>. QED BY <1>1, <1>2, <1>3 DEF MachineNext

LEMMA StillLoaded == ASSUME NEW s, Loaded(mem, 0, s), UNCHANGED mem PROVE Loaded(mem, 0, s)'
  BY DEF Loaded

\* console_test.nasm, set up.
Console ==
  [main |-> {15 + 2 * DwordBytes},
   handler |-> {18 + 2 * DwordBytes, 20 + 3 * DwordBytes, 22 + 4 * DwordBytes, 24 + 5 * DwordBytes,
                27 + 5 * DwordBytes, 30 + 5 * DwordBytes, 33 + 5 * DwordBytes, 35 + 6 * DwordBytes,
                38 + 6 * DwordBytes, 41 + 6 * DwordBytes, 44 + 6 * DwordBytes, 47 + 6 * DwordBytes,
                50 + 6 * DwordBytes, 53 + 6 * DwordBytes, 55 + 7 * DwordBytes, 58 + 7 * DwordBytes},
   starts |-> {18 + 2 * DwordBytes},
   ends |-> {62 + 7 * DwordBytes},
   image |-> console_test,
   ints |-> {INT_CONSOLE},
   regs |-> SetupRegs(0, 1, 0)]

LEMMA SetupRegsType ==
  ASSUME UsualRam, NEW y \in 0 .. 255
  PROVE  SetupRegs(0, 1, y) \in [Reg -> 0 .. DwordMod - 1] /\ SetupRegs(0, 1, y)[14] = RamSize
<1>1. DwordMod \in Nat /\ RamSize \in Nat /\ RamSize >= 256 /\ RamSize < DwordMod
  BY DwordModType DEF UsualRam
<1>2. {0, 1, y, RamSize} \subseteq 0 .. DwordMod - 1
  BY <1>1
<1>3. 14 \in Reg
  BY DEF Reg
<1>. QED BY <1>2, <1>3 DEF SetupRegs

LEMMA ConsoleIsProgram == ASSUME UsualRam PROVE IsProgram(Console)
<1>1. SetupRegs(0, 1, 0) \in [Reg -> 0 .. DwordMod - 1] /\ SetupRegs(0, 1, 0)[14] = RamSize
  BY SetupRegsType
<1>. QED BY <1>1 DEF IsProgram, Console, MASKABLE_INTS

LEMMA RegsAreSetup ==
  ASSUME NEW p, NEW y \in Int, p.regs = SetupRegs(0, 1, y), NEW a \in Int
  PROVE  RegsAt(p, a) = SetupRegs(a, 1, y)
<1>1. SetupSpelled(0, 1, y, p.regs)
  BY SetupSpelt
<1>2. /\ RegsAt(p, a) = [k \in Reg |-> RegsAt(p, a)[k]]
      /\ \A k \in Reg : RegsAt(p, a)[k] = IF k = 15 THEN a ELSE p.regs[k]
  BY <1>1 DEF RegsAt, SetupSpelled
<1>3. SetupSpelled(a, 1, y, RegsAt(p, a))
  BY <1>1, <1>2 DEF SetupSpelled
<1>. QED BY <1>3, SetupSpelt

LEMMA ConsoleHolds ==
  ASSUME UsualRam, Loaded(mem, 0, console_test)
  PROVE  Holds(Console, mem)
<1>. DEFINE D == DwordBytes
<1>0. D \in 1 .. 4
  BY DwordBytesAssumption
<1>1. /\ Loaded(mem, 18 + 2 * D, console_prompt)
      /\ BranchAt(mem, 15 + 2 * D, 64, (15 + 2 * D) - (15 + 2 * D + 3))
      /\ TwoAt(mem, 35 + 6 * D, 243, 0, 33) /\ TwoAt(mem, 38 + 6 * D, 32, 0, 1)
      /\ BranchAt(mem, 41 + 6 * D, 33, (53 + 6 * D) - (41 + 6 * D + 3))
      /\ TwoAt(mem, 44 + 6 * D, 243, 0, 32) /\ TwoAt(mem, 47 + 6 * D, 242, 0, 32)
      /\ BranchAt(mem, 50 + 6 * D, 64, (35 + 6 * D) - (50 + 6 * D + 3))
      /\ VsetAt(mem, 53 + 6 * D, 0, 1) /\ TwoAt(mem, 55 + 7 * D, 242, 0, 34)
      /\ VcrlAt(mem, 58 + 7 * D, 272, 0) /\ OneAt(mem, 62 + 7 * D, 244)
  BY ConsoleLoaded
<1>2. /\ VsetAt(mem, 18 + 2 * D, 0, 67) /\ VsetAt(mem, 18 + 2 * D + 2 + D, 1, 58)
      /\ VsetAt(mem, 18 + 2 * D + 4 + 2 * D, 2, 32)
      /\ TwoAt(mem, 18 + 2 * D + 6 + 3 * D, 242, 0, 32)
      /\ TwoAt(mem, 18 + 2 * D + 9 + 3 * D, 242, 1, 32)
      /\ TwoAt(mem, 18 + 2 * D + 12 + 3 * D, 242, 2, 32) /\ VsetAt(mem, 18 + 2 * D + 15 + 3 * D, 1, 0)
  <2>1. 18 + 2 * D \in Int
    BY <1>0
  <2>. QED BY <1>1, <2>1, ConsolePromptLoaded, Zenon
<1>3. /\ 18 + 2 * D + 2 + D = 20 + 3 * D /\ 18 + 2 * D + 4 + 2 * D = 22 + 4 * D
      /\ 18 + 2 * D + 6 + 3 * D = 24 + 5 * D /\ 18 + 2 * D + 9 + 3 * D = 27 + 5 * D
      /\ 18 + 2 * D + 12 + 3 * D = 30 + 5 * D /\ 18 + 2 * D + 15 + 3 * D = 33 + 5 * D
  BY <1>0
<1>4. /\ VsetAt(mem, 20 + 3 * D, 1, 58) /\ VsetAt(mem, 22 + 4 * D, 2, 32)
      /\ VsetAt(mem, 33 + 5 * D, 1, 0)
      /\ TwoAt(mem, 24 + 5 * D, 242, 0, 32) /\ TwoAt(mem, 27 + 5 * D, 242, 1, 32)
      /\ TwoAt(mem, 30 + 5 * D, 242, 2, 32)
  BY <1>2, <1>3
<1>5. \A a \in Console.handler \cup Console.main \cup Console.ends : Below(a) /\ a \in Nat
  <2>1. ASSUME NEW a \in Console.handler \cup Console.main \cup Console.ends
        PROVE  a \in Nat /\ a <= 150
    BY <1>0 DEF Console
  <2>. QED BY <2>1, SmallBelow
<1>6. HandlerAt(Console, mem, 18 + 2 * D)
  <2>1. 18 + 2 * D \in Console.handler /\ 18 + 2 * D + 2 + D \in Console.handler
    BY <1>0 DEF Console
  <2>. QED BY <1>2, <1>5, <2>1, VsetHandles
<1>7. HandlerAt(Console, mem, 20 + 3 * D)
  <2>1. 20 + 3 * D \in Console.handler /\ 20 + 3 * D + 2 + D \in Console.handler
    BY <1>0 DEF Console
  <2>. QED BY <1>4, <1>5, <2>1, VsetHandles
<1>8. HandlerAt(Console, mem, 22 + 4 * D)
  <2>1. 22 + 4 * D \in Console.handler /\ 22 + 4 * D + 2 + D \in Console.handler
    BY <1>0 DEF Console
  <2>. QED BY <1>4, <1>5, <2>1, VsetHandles
<1>9. HandlerAt(Console, mem, 24 + 5 * D)
  <2>1. 24 + 5 * D \in Console.handler /\ 24 + 5 * D + 3 \in Console.handler
    BY <1>0 DEF Console
  <2>. QED BY <1>4, <1>5, <2>1, WriteHandles
<1>10. HandlerAt(Console, mem, 27 + 5 * D)
  <2>1. 27 + 5 * D \in Console.handler /\ 27 + 5 * D + 3 \in Console.handler
    BY <1>0 DEF Console
  <2>. QED BY <1>4, <1>5, <2>1, WriteHandles
<1>11. HandlerAt(Console, mem, 30 + 5 * D)
  <2>1. 30 + 5 * D \in Console.handler /\ 30 + 5 * D + 3 \in Console.handler
    BY <1>0 DEF Console
  <2>. QED BY <1>4, <1>5, <2>1, WriteHandles
<1>12. HandlerAt(Console, mem, 33 + 5 * D)
  <2>1. 33 + 5 * D \in Console.handler /\ 33 + 5 * D + 2 + D \in Console.handler
    BY <1>0 DEF Console
  <2>. QED BY <1>4, <1>5, <2>1, VsetHandles
<1>13. HandlerAt(Console, mem, 35 + 6 * D)
  <2>1. 35 + 6 * D \in Console.handler /\ 35 + 6 * D + 3 \in Console.handler
    BY <1>0 DEF Console
  <2>. QED BY <1>1, <1>5, <2>1, ReadHandles
<1>14. HandlerAt(Console, mem, 38 + 6 * D)
  <2>1. 38 + 6 * D \in Console.handler /\ 38 + 6 * D + 3 \in Console.handler
    BY <1>0 DEF Console
  <2>. QED BY <1>1, <1>5, <2>1, CompareHandles
<1>15. HandlerAt(Console, mem, 41 + 6 * D)
  <2>1. /\ 41 + 6 * D \in Console.handler /\ 41 + 6 * D + 3 \in Console.handler
        /\ 53 + 6 * D \in Console.handler
        /\ 41 + 6 * D + 3 < 256 /\ 53 + 6 * D < 256
    BY <1>0 DEF Console
  <2>. QED BY <1>1, <1>5, <2>1, BranchHandles
<1>16. HandlerAt(Console, mem, 44 + 6 * D)
  <2>1. 44 + 6 * D \in Console.handler /\ 44 + 6 * D + 3 \in Console.handler
    BY <1>0 DEF Console
  <2>. QED BY <1>1, <1>5, <2>1, ReadHandles
<1>17. HandlerAt(Console, mem, 47 + 6 * D)
  <2>1. 47 + 6 * D \in Console.handler /\ 47 + 6 * D + 3 \in Console.handler
    BY <1>0 DEF Console
  <2>. QED BY <1>1, <1>5, <2>1, WriteHandles
<1>18. HandlerAt(Console, mem, 50 + 6 * D)
  <2>1. /\ 50 + 6 * D \in Console.handler /\ 50 + 6 * D + 3 \in Console.handler
        /\ 35 + 6 * D \in Console.handler
        /\ 50 + 6 * D + 3 < 256 /\ 35 + 6 * D < 256
    BY <1>0 DEF Console
  <2>. QED BY <1>1, <1>5, <2>1, BranchHandles
<1>19. HandlerAt(Console, mem, 53 + 6 * D)
  <2>1. 53 + 6 * D \in Console.handler /\ 53 + 6 * D + 2 + D \in Console.handler
    BY <1>0 DEF Console
  <2>. QED BY <1>1, <1>5, <2>1, VsetHandles
<1>20. HandlerAt(Console, mem, 55 + 7 * D)
  <2>1. 55 + 7 * D \in Console.handler /\ 55 + 7 * D + 3 \in Console.handler
    BY <1>0 DEF Console
  <2>. QED BY <1>1, <1>5, <2>1, WriteHandles
<1>21. HandlerAt(Console, mem, 58 + 7 * D)
  <2>1. 58 + 7 * D \in Console.handler /\ 58 + 7 * D + 4 \in Console.ends
    BY <1>0 DEF Console
  <2>. QED BY <1>1, <1>5, <2>1, LoadHandles
<1>22. MainAt(Console, mem, 15 + 2 * D)
  <2>. DEFINE a == 15 + 2 * D
  <2>1. a \in Console.main /\ a + 3 < 256 /\ a < 256 /\ a \in Nat
    BY <1>0 DEF Console
  <2>2. BranchAt(mem, a, 64, a - (a + 3))
    BY <1>1
  <2>. HIDE DEF a
  <2>3. mem[a] = 64 /\ To(mem, a) = a
    BY <2>1, <2>2, JumpHere
  <2>4. MainAt(Console, mem, a)
    BY <1>5, <2>1, <2>3 DEF MainAt
  <2>. QED BY <2>4 DEF a
<1>23. EndAt(mem, 62 + 7 * D)
  <2>1. 62 + 7 * D \in Console.ends
    BY DEF Console
  <2>. QED BY <1>1, <1>5, <2>1 DEF EndAt, OneAt
<1>24. \A a \in Console.handler : HandlerAt(Console, mem, a)
  <2>. HIDE DEF D
  <2>1. Console.handler =
          {18 + 2 * D, 20 + 3 * D, 22 + 4 * D, 24 + 5 * D, 27 + 5 * D, 30 + 5 * D, 33 + 5 * D,
           35 + 6 * D, 38 + 6 * D, 41 + 6 * D, 44 + 6 * D, 47 + 6 * D, 50 + 6 * D, 53 + 6 * D,
           55 + 7 * D, 58 + 7 * D}
    BY DEF Console, D
  <2>. QED BY <2>1, <1>6, <1>7, <1>8, <1>9, <1>10, <1>11, <1>12, <1>13, <1>14, <1>15,
           <1>16, <1>17, <1>18, <1>19, <1>20, <1>21
<1>25. Console.main = {15 + 2 * D} /\ Console.ends = {62 + 7 * D} /\ Console.image = console_test
  BY DEF Console
<1>26. Len(console_test) \in Nat /\ Len(console_test) < RamSize - 17 * D
  <2>1. Len(console_test) = 63 + 7 * D
    BY ConsoleLoaded, Zenon DEF Code
  <2>2. 63 + 7 * D \in Nat /\ 63 + 7 * D <= 150
    BY <1>0
  <2>. QED BY <2>1, <2>2, SmallBelow, RamSizeAssumption, <1>0 DEF Below
<1>. QED BY <1>22, <1>23, <1>24, <1>25, <1>26 DEF Holds

\* The setup of console_test: its five instructions.
ConsoleUp ==
  /\ Loaded(mem, 0, console_test)
  /\ LET h == 18 + 2 * DwordBytes
     IN  \/ Row(0, 0, 0, DwordMax, DwordMax, 0)
         \/ Row(2 + DwordBytes, h, 0, DwordMax, DwordMax, 0)
         \/ Row(6 + DwordBytes, h, 0, DwordMax, h, 0)
         \/ Row(8 + 2 * DwordBytes, 1, 0, DwordMax, h, 0)
         \/ Row(12 + 2 * DwordBytes, 1, 0, DwordMax, h, 1)

\* The main loop after a setup.
LEMMA RowDone ==
  ASSUME NEW p, IsProgram(p), NEW y \in Int, p.regs = SetupRegs(0, 1, y),
         NEW a \in Int, NEW x, NEW z, NEW k8, NEW k9, NEW c, Row(a, x, z, k8, k9, c),
         defered_queue = <<>>, Holds(p, mem),
         INT_PIT \in p.ints => k8 \in p.starts, k9 \in p.starts,
         NEW b \in p.main, b \in Int, r' = SetupRegs(b, 1, y),
         UNCHANGED <<mem, fr, cr, defered_queue>>
  PROVE  Running(p)'
<1>1. Holds(p, mem)'
  OBVIOUS
<1>2. Vectors(p)'
  <2>1. cr[CREG_INT_FIRST + INT_PIT] = k8 /\ cr[CREG_INT_FIRST + INT_CONSOLE] = k9
    BY DEF Row, Pending
  <2>2. \A i \in p.ints : i = INT_PIT \/ i = INT_CONSOLE
    BY DEF IsProgram, MASKABLE_INTS
  <2>. QED BY <2>1, <2>2 DEF Vectors
<1>3. OnMain(p)'
  <2>1. RegsAt(p, b) = SetupRegs(b, 1, y)
    BY RegsAreSetup
  <2>2. r' = RegsAt(p, b) /\ fr' = 0 /\ defered_queue' = <<>>
    BY <2>1 DEF Row
  <2>. QED BY <2>2 DEF OnMain
<1>. QED BY <1>1, <1>2, <1>3 DEF Running

LEMMA ConsoleUpNext ==
  ASSUME UsualRam, MachineInv, Calm(Console), ConsoleUp, [MachineNext]_machineVars
  PROVE  Calm(Console)' /\ (ConsoleUp' \/ Running(Console)')
<1>. DEFINE D == DwordBytes
            h == 18 + 2 * D
            p == Console
<1>0. /\ D \in 1 .. 4 /\ h \in Nat /\ h < 256 /\ h < DwordMod /\ 1 < DwordMod
      /\ 1 \in Nat /\ 1 \in Int /\ 0 \in Int /\ 0 \in 0 .. 1 /\ 0 \in Nat
  BY DwordBytesAssumption, DwordModType DEF UsualRam
<1>1. /\ VsetAt(mem, 0, 0, h) /\ VcrlAt(mem, 2 + D, 265, 0) /\ VsetAt(mem, 6 + D, 0, 1)
      /\ VcrlAt(mem, 8 + 2 * D, 272, 0) /\ TwoAt(mem, 12 + 2 * D, 242, 0, 34)
  <2>1. Loaded(mem, 0, ConsoleSetup(console_int_9)) /\ console_int_9 = h
    BY ConsoleLoaded, ConsoleLabels DEF ConsoleUp
  <2>. QED BY <1>0, <2>1, ConsoleSetupLoaded
<1>2. IsProgram(p) /\ Holds(p, mem)
  BY ConsoleIsProgram, ConsoleHolds DEF ConsoleUp
<1>3. /\ 265 \in CregIds /\ 272 \in CregIds /\ CREG_INT_FIRST + INT_PIT = 264
      /\ CREG_INT_FIRST + INT_CONSOLE = 265 /\ CREG_INT_CONTROL = 272
  BY DEF CregIds, CREG_INT_FIRST, INT_PIT, INT_CONSOLE, CREG_INT_CONTROL
<1>4. ASSUME UNCHANGED mem PROVE Loaded(mem, 0, console_test)'
  BY <1>4, StillLoaded DEF ConsoleUp
<1>. HIDE DEF p
<1>5. CASE Row(0, 0, 0, DwordMax, DwordMax, 0)
  <2>1. CASE Row(0, 0, 0, DwordMax, DwordMax, 0)' /\ UNCHANGED mem /\ Calm(p)'
    BY <1>4, <2>1 DEF ConsoleUp, p
  <2>2. CASE CpuTypeOK /\ phase = "exec" /\ defered_queue = <<>> /\ Cpu
    <3>1. Below(0) /\ 0 \in Nat
      BY <1>0, SmallBelow
    <3>2. Row(2 + D, h, 0, DwordMax, DwordMax, 0)' /\ UNCHANGED mem /\ Calm(p)'
      BY <1>0, <1>1, <1>5, <2>2, <3>1, RowVset DEF p
    <3>. QED BY <1>4, <3>2 DEF ConsoleUp, p
  <2>. QED BY <1>2, <1>5, <2>1, <2>2, RowGoes DEF p
<1>6. CASE Row(2 + D, h, 0, DwordMax, DwordMax, 0)
  <2>1. CASE Row(2 + D, h, 0, DwordMax, DwordMax, 0)' /\ UNCHANGED mem /\ Calm(p)'
    BY <1>4, <2>1 DEF ConsoleUp, p
  <2>2. CASE CpuTypeOK /\ phase = "exec" /\ defered_queue = <<>> /\ Cpu
    <3>1. Below(2 + D) /\ 2 + D \in Nat
      BY <1>0, SmallBelow
    <3>2. Row(6 + D, h, 0, DwordMax, h, 0)' /\ UNCHANGED mem /\ Calm(p)'
      BY <1>0, <1>1, <1>3, <1>6, <2>2, <3>1, RowVcrl DEF p
    <3>. QED BY <1>4, <3>2 DEF ConsoleUp, p
  <2>. QED BY <1>2, <1>6, <2>1, <2>2, RowGoes DEF p
<1>7. CASE Row(6 + D, h, 0, DwordMax, h, 0)
  <2>1. CASE Row(6 + D, h, 0, DwordMax, h, 0)' /\ UNCHANGED mem /\ Calm(p)'
    BY <1>4, <2>1 DEF ConsoleUp, p
  <2>2. CASE CpuTypeOK /\ phase = "exec" /\ defered_queue = <<>> /\ Cpu
    <3>1. Below(6 + D) /\ 6 + D \in Nat
      BY <1>0, SmallBelow
    <3>2. Row(8 + 2 * D, 1, 0, DwordMax, h, 0)' /\ UNCHANGED mem /\ Calm(p)'
      BY <1>0, <1>1, <1>7, <2>2, <3>1, RowVset DEF p
    <3>. QED BY <1>4, <3>2 DEF ConsoleUp, p
  <2>. QED BY <1>2, <1>7, <2>1, <2>2, RowGoes DEF p
<1>8. CASE Row(8 + 2 * D, 1, 0, DwordMax, h, 0)
  <2>1. CASE Row(8 + 2 * D, 1, 0, DwordMax, h, 0)' /\ UNCHANGED mem /\ Calm(p)'
    BY <1>4, <2>1 DEF ConsoleUp, p
  <2>2. CASE CpuTypeOK /\ phase = "exec" /\ defered_queue = <<>> /\ Cpu
    <3>1. Below(8 + 2 * D) /\ 8 + 2 * D \in Nat
      BY <1>0, SmallBelow
    <3>2. Row(12 + 2 * D, 1, 0, DwordMax, h, 1)' /\ UNCHANGED mem /\ Calm(p)'
      BY <1>0, <1>1, <1>3, <1>8, <2>2, <3>1, RowVcrl DEF p
    <3>. QED BY <1>4, <3>2 DEF ConsoleUp, p
  <2>. QED BY <1>2, <1>8, <2>1, <2>2, RowGoes DEF p
<1>9. CASE Row(12 + 2 * D, 1, 0, DwordMax, h, 1)
  <2>1. CASE Row(12 + 2 * D, 1, 0, DwordMax, h, 1)' /\ UNCHANGED mem /\ Calm(p)'
    BY <1>4, <2>1 DEF ConsoleUp, p
  <2>2. CASE CpuTypeOK /\ phase = "exec" /\ defered_queue = <<>> /\ Cpu
    <3>1. Below(12 + 2 * D) /\ 12 + 2 * D \in Nat
      BY <1>0, SmallBelow
    <3>2. r' = SetupRegs(15 + 2 * D, 1, 0) /\ UNCHANGED <<mem, fr, cr, defered_queue>> /\ Calm(p)'
      BY <1>0, <1>1, <1>9, <2>2, <3>1, RowVoutb DEF p
    <3>3. /\ p.regs = SetupRegs(0, 1, 0) /\ INT_PIT \notin p.ints /\ h \in p.starts
          /\ 15 + 2 * D \in p.main /\ 15 + 2 * D \in Int
      BY <1>0 DEF p, Console, INT_PIT, INT_CONSOLE
    <3>4. Running(p)'
      BY <1>0, <1>2, <1>9, <2>2, <3>2, <3>3, RowDone
    <3>. QED BY <3>2, <3>4 DEF p
  <2>. QED BY <1>2, <1>9, <2>1, <2>2, RowGoes DEF p
<1>. QED BY <1>5, <1>6, <1>7, <1>8, <1>9 DEF ConsoleUp, p

\* Both devices at once, set up.
Both ==
  [main |-> {24 + 3 * DwordBytes, 27 + 3 * DwordBytes},
   handler |-> {30 + 3 * DwordBytes, 32 + 4 * DwordBytes, 35 + 4 * DwordBytes, 40 + 4 * DwordBytes,
                43 + 4 * DwordBytes, 46 + 4 * DwordBytes, 48 + 5 * DwordBytes, 51 + 5 * DwordBytes},
   starts |-> {30 + 3 * DwordBytes, 40 + 4 * DwordBytes},
   ends |-> {39 + 4 * DwordBytes, 55 + 5 * DwordBytes},
   image |-> both_test,
   ints |-> MASKABLE_INTS,
   regs |-> SetupRegs(0, 1, 40 + 4 * DwordBytes)]

LEMMA BothIsProgram == ASSUME UsualRam PROVE IsProgram(Both)
<1>. DEFINE c == 40 + 4 * DwordBytes
<1>1. c \in 0 .. 255
  BY DwordBytesAssumption
<1>. HIDE DEF c
<1>2. SetupRegs(0, 1, c) \in [Reg -> 0 .. DwordMod - 1] /\ SetupRegs(0, 1, c)[14] = RamSize
  BY <1>1, SetupRegsType
<1>3. /\ Both.regs = SetupRegs(0, 1, c) /\ Both.ints = MASKABLE_INTS
      /\ Both.starts \subseteq Both.handler
  BY DEF Both, c
<1>. QED BY <1>2, <1>3 DEF IsProgram, MASKABLE_INTS

LEMMA BothHolds ==
  ASSUME UsualRam, Loaded(mem, 0, both_test)
  PROVE  Holds(Both, mem)
<1>. DEFINE D == DwordBytes
<1>0. D \in 1 .. 4
  BY DwordBytesAssumption
<1>1. /\ Loaded(mem, 0, BothSetup(30 + 3 * D, 40 + 4 * D))
      /\ BranchAt(mem, 27 + 3 * D, 64, (27 + 3 * D) - (27 + 3 * D + 3))
      /\ Loaded(mem, 30 + 3 * D, both_int_8) /\ Loaded(mem, 40 + 4 * D, both_int_9)
  BY BothLoaded
<1>2. TwoAt(mem, 24 + 3 * D, 242, 0, 112)
  <2>1. 30 + 3 * D \in Int /\ 40 + 4 * D \in Int
    BY <1>0
  <2>. QED BY <1>1, <2>1, BothSetupLoaded
<1>3. /\ VsetAt(mem, 30 + 3 * D, 0, 1) /\ TwoAt(mem, 30 + 3 * D + 2 + D, 242, 0, 112)
      /\ VcrlAt(mem, 30 + 3 * D + 5 + D, 272, 0) /\ OneAt(mem, 30 + 3 * D + 9 + D, 244)
  <2>1. 30 + 3 * D \in Int
    BY <1>0
  <2>. QED BY <1>1, <2>1, BothInt8Loaded, Zenon
<1>4. /\ TwoAt(mem, 40 + 4 * D, 243, 1, 32) /\ TwoAt(mem, 40 + 4 * D + 3, 242, 1, 32)
      /\ VsetAt(mem, 40 + 4 * D + 6, 0, 1) /\ TwoAt(mem, 40 + 4 * D + 8 + D, 242, 0, 34)
      /\ VcrlAt(mem, 40 + 4 * D + 11 + D, 272, 0) /\ OneAt(mem, 40 + 4 * D + 15 + D, 244)
  <2>. DEFINE b == 40 + 4 * D
  <2>1. Loaded(mem, b, both_int_9) /\ b \in Int
    BY <1>0, <1>1
  <2>. HIDE DEF b
  <2>2. /\ TwoAt(mem, b, 243, 1, 32) /\ TwoAt(mem, b + 3, 242, 1, 32) /\ VsetAt(mem, b + 6, 0, 1)
        /\ TwoAt(mem, b + 8 + D, 242, 0, 34) /\ VcrlAt(mem, b + 11 + D, 272, 0)
        /\ OneAt(mem, b + 15 + D, 244)
    BY <2>1, BothInt9Loaded
  <2>. QED BY <2>2 DEF b
<1>5. /\ 30 + 3 * D + 2 + D = 32 + 4 * D /\ 30 + 3 * D + 5 + D = 35 + 4 * D
      /\ 30 + 3 * D + 9 + D = 39 + 4 * D /\ 40 + 4 * D + 3 = 43 + 4 * D /\ 40 + 4 * D + 6 = 46 + 4 * D
      /\ 40 + 4 * D + 8 + D = 48 + 5 * D /\ 40 + 4 * D + 11 + D = 51 + 5 * D
      /\ 40 + 4 * D + 15 + D = 55 + 5 * D
  BY <1>0
<1>6. /\ TwoAt(mem, 32 + 4 * D, 242, 0, 112) /\ VcrlAt(mem, 35 + 4 * D, 272, 0)
      /\ OneAt(mem, 39 + 4 * D, 244) /\ TwoAt(mem, 43 + 4 * D, 242, 1, 32)
      /\ VsetAt(mem, 46 + 4 * D, 0, 1)
      /\ TwoAt(mem, 48 + 5 * D, 242, 0, 34) /\ VcrlAt(mem, 51 + 5 * D, 272, 0)
      /\ OneAt(mem, 55 + 5 * D, 244)
  BY <1>3, <1>4, <1>5
<1>7. \A a \in Both.handler \cup Both.main \cup Both.ends : Below(a) /\ a \in Nat
  <2>1. ASSUME NEW a \in Both.handler \cup Both.main \cup Both.ends
        PROVE  a \in Nat /\ a <= 150
    BY <1>0 DEF Both
  <2>. QED BY <2>1, SmallBelow
<1>8. INT_PIT \in Both.ints
  BY DEF Both, MASKABLE_INTS
<1>9. HandlerAt(Both, mem, 30 + 3 * D)
  <2>1. 30 + 3 * D \in Both.handler /\ 30 + 3 * D + 2 + D \in Both.handler
    BY <1>0 DEF Both
  <2>. QED BY <1>3, <1>7, <1>8, <2>1, VsetHandles
<1>10. HandlerAt(Both, mem, 32 + 4 * D)
  <2>1. 32 + 4 * D \in Both.handler /\ 32 + 4 * D + 3 \in Both.handler
    BY <1>0 DEF Both
  <2>. QED BY <1>6, <1>7, <1>8, <2>1, WriteHandles
<1>11. HandlerAt(Both, mem, 35 + 4 * D)
  <2>1. 35 + 4 * D \in Both.handler /\ 35 + 4 * D + 4 \in Both.ends
    BY <1>0 DEF Both
  <2>. QED BY <1>6, <1>7, <1>8, <2>1, LoadHandles
<1>12. HandlerAt(Both, mem, 40 + 4 * D)
  <2>1. 40 + 4 * D \in Both.handler /\ 40 + 4 * D + 3 \in Both.handler
    BY <1>0 DEF Both
  <2>. QED BY <1>4, <1>7, <1>8, <2>1, ReadHandles
<1>13. HandlerAt(Both, mem, 43 + 4 * D)
  <2>1. 43 + 4 * D \in Both.handler /\ 43 + 4 * D + 3 \in Both.handler
    BY <1>0 DEF Both
  <2>. QED BY <1>6, <1>7, <1>8, <2>1, WriteHandles
<1>14. HandlerAt(Both, mem, 46 + 4 * D)
  <2>1. 46 + 4 * D \in Both.handler /\ 46 + 4 * D + 2 + D \in Both.handler
    BY <1>0 DEF Both
  <2>. QED BY <1>6, <1>7, <1>8, <2>1, VsetHandles
<1>15. HandlerAt(Both, mem, 48 + 5 * D)
  <2>1. 48 + 5 * D \in Both.handler /\ 48 + 5 * D + 3 \in Both.handler
    BY <1>0 DEF Both
  <2>. QED BY <1>6, <1>7, <1>8, <2>1, WriteHandles
<1>16. HandlerAt(Both, mem, 51 + 5 * D)
  <2>1. 51 + 5 * D \in Both.handler /\ 51 + 5 * D + 4 \in Both.ends
    BY <1>0 DEF Both
  <2>. QED BY <1>6, <1>7, <1>8, <2>1, LoadHandles
<1>17. MainAt(Both, mem, 24 + 3 * D)
  <2>1. 24 + 3 * D \in Both.main /\ 24 + 3 * D + 3 \in Both.main
    BY <1>0 DEF Both
  <2>. QED BY <1>2, <1>7, <1>8, <2>1 DEF MainAt, TwoAt, TimerAllowed
<1>18. MainAt(Both, mem, 27 + 3 * D)
  <2>. DEFINE a == 27 + 3 * D
  <2>1. a \in Both.main /\ a + 3 < 256 /\ a < 256 /\ a \in Nat
    BY <1>0 DEF Both
  <2>2. BranchAt(mem, a, 64, a - (a + 3))
    BY <1>1
  <2>. HIDE DEF a
  <2>3. mem[a] = 64 /\ To(mem, a) = a
    BY <2>1, <2>2, JumpHere
  <2>4. MainAt(Both, mem, a)
    BY <1>7, <2>1, <2>3 DEF MainAt
  <2>. QED BY <2>4 DEF a
<1>19. EndAt(mem, 39 + 4 * D) /\ EndAt(mem, 55 + 5 * D)
  <2>1. 39 + 4 * D \in Both.ends /\ 55 + 5 * D \in Both.ends
    BY DEF Both
  <2>. QED BY <1>6, <1>7, <2>1 DEF EndAt, OneAt
<1>20. \A a \in Both.handler : HandlerAt(Both, mem, a)
  <2>. HIDE DEF D
  <2>1. Both.handler = {30 + 3 * D, 32 + 4 * D, 35 + 4 * D, 40 + 4 * D,
                        43 + 4 * D, 46 + 4 * D, 48 + 5 * D, 51 + 5 * D}
    BY DEF Both, D
  <2>. QED BY <2>1, <1>9, <1>10, <1>11, <1>12, <1>13, <1>14, <1>15, <1>16
<1>21. /\ Both.main = {24 + 3 * D, 27 + 3 * D} /\ Both.ends = {39 + 4 * D, 55 + 5 * D}
       /\ Both.image = both_test
  BY DEF Both
<1>22. Len(both_test) \in Nat /\ Len(both_test) < RamSize - 17 * D
  <2>1. Len(both_test) = 56 + 5 * D
    BY BothLoaded, Zenon DEF Code
  <2>2. 56 + 5 * D \in Nat /\ 56 + 5 * D <= 150
    BY <1>0
  <2>. QED BY <2>1, <2>2, SmallBelow, RamSizeAssumption, <1>0 DEF Below
<1>. QED BY <1>17, <1>18, <1>19, <1>20, <1>21, <1>22 DEF Holds

\* The setup up to where the main loop begins, the vout that starts the timer.
BothUp ==
  /\ Loaded(mem, 0, both_test)
  /\ LET i8 == 30 + 3 * DwordBytes
         i9 == 40 + 4 * DwordBytes
     IN  \/ Row(0, 0, 0, DwordMax, DwordMax, 0)
         \/ Row(2 + DwordBytes, 1, 0, DwordMax, DwordMax, 0)
         \/ Row(4 + 2 * DwordBytes, 1, i8, DwordMax, DwordMax, 0)
         \/ Row(8 + 2 * DwordBytes, 1, i8, i8, DwordMax, 0)
         \/ Row(10 + 3 * DwordBytes, 1, i9, i8, DwordMax, 0)
         \/ Row(14 + 3 * DwordBytes, 1, i9, i8, i9, 0)
         \/ Row(17 + 3 * DwordBytes, 1, i9, i8, i9, 0)
         \/ Row(21 + 3 * DwordBytes, 1, i9, i8, i9, 1)

LEMMA BothUpNext ==
  ASSUME UsualRam, MachineInv, Calm(Both), BothUp, [MachineNext]_machineVars
  PROVE  Calm(Both)' /\ (BothUp' \/ Running(Both)')
<1>. DEFINE D == DwordBytes
            i8 == 30 + 3 * D
            i9 == 40 + 4 * D
            p == Both
<1>0. /\ D \in 1 .. 4 /\ i8 \in Nat /\ i8 < DwordMod /\ i9 \in Nat /\ i9 < DwordMod /\ 1 < DwordMod
      /\ 1 \in Nat /\ 1 \in Int /\ 0 \in Int /\ 0 \in 0 .. 1 /\ 1 \in 0 .. 1 /\ 0 \in Nat
  BY DwordBytesAssumption, DwordModType DEF UsualRam
<1>1. /\ VsetAt(mem, 0, 0, 1) /\ VsetAt(mem, 2 + D, 1, i8) /\ VcrlAt(mem, 4 + 2 * D, 264, 1)
      /\ VsetAt(mem, 8 + 2 * D, 1, i9) /\ VcrlAt(mem, 10 + 3 * D, 265, 1)
      /\ TwoAt(mem, 14 + 3 * D, 242, 0, 113) /\ VcrlAt(mem, 17 + 3 * D, 272, 0)
      /\ TwoAt(mem, 21 + 3 * D, 242, 0, 34)
  <2>1. Loaded(mem, 0, BothSetup(i8, i9))
    BY BothLoaded DEF BothUp
  <2>2. i8 \in Int /\ i9 \in Int
    BY <1>0
  <2>. HIDE DEF i8, i9
  <2>. QED BY <2>1, <2>2, BothSetupLoaded
<1>2. IsProgram(p) /\ Holds(p, mem)
  BY BothIsProgram, BothHolds DEF BothUp
<1>3. /\ 264 \in CregIds /\ 265 \in CregIds /\ 272 \in CregIds /\ CREG_INT_FIRST + INT_PIT = 264
      /\ CREG_INT_FIRST + INT_CONSOLE = 265 /\ CREG_INT_CONTROL = 272
  BY DEF CregIds, CREG_INT_FIRST, INT_PIT, INT_CONSOLE, CREG_INT_CONTROL
<1>4. ASSUME UNCHANGED mem PROVE Loaded(mem, 0, both_test)'
  BY <1>4, StillLoaded DEF BothUp
<1>. HIDE DEF p
<1>5. CASE Row(0, 0, 0, DwordMax, DwordMax, 0)
  <2>1. CASE Row(0, 0, 0, DwordMax, DwordMax, 0)' /\ UNCHANGED mem /\ Calm(p)'
    BY <1>4, <2>1 DEF BothUp, p
  <2>2. CASE CpuTypeOK /\ phase = "exec" /\ defered_queue = <<>> /\ Cpu
    <3>1. Below(0) /\ 0 \in Nat
      BY <1>0, SmallBelow
    <3>2. Row(2 + D, 1, 0, DwordMax, DwordMax, 0)' /\ UNCHANGED mem /\ Calm(p)'
      BY <1>0, <1>1, <1>5, <2>2, <3>1, RowVset DEF p
    <3>. QED BY <1>4, <3>2 DEF BothUp, p
  <2>. QED BY <1>2, <1>5, <2>1, <2>2, RowGoes DEF p
<1>6. CASE Row(2 + D, 1, 0, DwordMax, DwordMax, 0)
  <2>1. CASE Row(2 + D, 1, 0, DwordMax, DwordMax, 0)' /\ UNCHANGED mem /\ Calm(p)'
    BY <1>4, <2>1 DEF BothUp, p
  <2>2. CASE CpuTypeOK /\ phase = "exec" /\ defered_queue = <<>> /\ Cpu
    <3>1. Below(2 + D) /\ 2 + D \in Nat
      BY <1>0, SmallBelow
    <3>2. Row(4 + 2 * D, 1, i8, DwordMax, DwordMax, 0)' /\ UNCHANGED mem /\ Calm(p)'
      BY <1>0, <1>1, <1>6, <2>2, <3>1, RowVset DEF p
    <3>. QED BY <1>4, <3>2 DEF BothUp, p
  <2>. QED BY <1>2, <1>6, <2>1, <2>2, RowGoes DEF p
<1>7. CASE Row(4 + 2 * D, 1, i8, DwordMax, DwordMax, 0)
  <2>1. CASE Row(4 + 2 * D, 1, i8, DwordMax, DwordMax, 0)' /\ UNCHANGED mem /\ Calm(p)'
    BY <1>4, <2>1 DEF BothUp, p
  <2>2. CASE CpuTypeOK /\ phase = "exec" /\ defered_queue = <<>> /\ Cpu
    <3>1. Below(4 + 2 * D) /\ 4 + 2 * D \in Nat
      BY <1>0, SmallBelow
    <3>2. Row(8 + 2 * D, 1, i8, i8, DwordMax, 0)' /\ UNCHANGED mem /\ Calm(p)'
      BY <1>0, <1>1, <1>3, <1>7, <2>2, <3>1, RowVcrl DEF p
    <3>. QED BY <1>4, <3>2 DEF BothUp, p
  <2>. QED BY <1>2, <1>7, <2>1, <2>2, RowGoes DEF p
<1>8. CASE Row(8 + 2 * D, 1, i8, i8, DwordMax, 0)
  <2>1. CASE Row(8 + 2 * D, 1, i8, i8, DwordMax, 0)' /\ UNCHANGED mem /\ Calm(p)'
    BY <1>4, <2>1 DEF BothUp, p
  <2>2. CASE CpuTypeOK /\ phase = "exec" /\ defered_queue = <<>> /\ Cpu
    <3>1. Below(8 + 2 * D) /\ 8 + 2 * D \in Nat
      BY <1>0, SmallBelow
    <3>2. Row(10 + 3 * D, 1, i9, i8, DwordMax, 0)' /\ UNCHANGED mem /\ Calm(p)'
      BY <1>0, <1>1, <1>8, <2>2, <3>1, RowVset DEF p
    <3>. QED BY <1>4, <3>2 DEF BothUp, p
  <2>. QED BY <1>2, <1>8, <2>1, <2>2, RowGoes DEF p
<1>9. CASE Row(10 + 3 * D, 1, i9, i8, DwordMax, 0)
  <2>1. CASE Row(10 + 3 * D, 1, i9, i8, DwordMax, 0)' /\ UNCHANGED mem /\ Calm(p)'
    BY <1>4, <2>1 DEF BothUp, p
  <2>2. CASE CpuTypeOK /\ phase = "exec" /\ defered_queue = <<>> /\ Cpu
    <3>1. Below(10 + 3 * D) /\ 10 + 3 * D \in Nat
      BY <1>0, SmallBelow
    <3>2. Row(14 + 3 * D, 1, i9, i8, i9, 0)' /\ UNCHANGED mem /\ Calm(p)'
      BY <1>0, <1>1, <1>3, <1>9, <2>2, <3>1, RowVcrl DEF p
    <3>. QED BY <1>4, <3>2 DEF BothUp, p
  <2>. QED BY <1>2, <1>9, <2>1, <2>2, RowGoes DEF p
<1>10. CASE Row(14 + 3 * D, 1, i9, i8, i9, 0)
  <2>1. CASE Row(14 + 3 * D, 1, i9, i8, i9, 0)' /\ UNCHANGED mem /\ Calm(p)'
    BY <1>4, <2>1 DEF BothUp, p
  <2>2. CASE CpuTypeOK /\ phase = "exec" /\ defered_queue = <<>> /\ Cpu
    <3>1. Below(14 + 3 * D) /\ 14 + 3 * D \in Nat
      BY <1>0, SmallBelow
    <3>2. Row(17 + 3 * D, 1, i9, i8, i9, 0)' /\ UNCHANGED mem /\ Calm(p)'
      BY <1>0, <1>1, <1>10, <2>2, <3>1, RowVoutb DEF p
    <3>. QED BY <1>4, <3>2 DEF BothUp, p
  <2>. QED BY <1>2, <1>10, <2>1, <2>2, RowGoes DEF p
<1>11. CASE Row(17 + 3 * D, 1, i9, i8, i9, 0)
  <2>1. CASE Row(17 + 3 * D, 1, i9, i8, i9, 0)' /\ UNCHANGED mem /\ Calm(p)'
    BY <1>4, <2>1 DEF BothUp, p
  <2>2. CASE CpuTypeOK /\ phase = "exec" /\ defered_queue = <<>> /\ Cpu
    <3>1. Below(17 + 3 * D) /\ 17 + 3 * D \in Nat
      BY <1>0, SmallBelow
    <3>2. Row(21 + 3 * D, 1, i9, i8, i9, 1)' /\ UNCHANGED mem /\ Calm(p)'
      BY <1>0, <1>1, <1>3, <1>11, <2>2, <3>1, RowVcrl DEF p
    <3>. QED BY <1>4, <3>2 DEF BothUp, p
  <2>. QED BY <1>2, <1>11, <2>1, <2>2, RowGoes DEF p
<1>12. CASE Row(21 + 3 * D, 1, i9, i8, i9, 1)
  <2>1. CASE Row(21 + 3 * D, 1, i9, i8, i9, 1)' /\ UNCHANGED mem /\ Calm(p)'
    BY <1>4, <2>1 DEF BothUp, p
  <2>2. CASE CpuTypeOK /\ phase = "exec" /\ defered_queue = <<>> /\ Cpu
    <3>1. Below(21 + 3 * D) /\ 21 + 3 * D \in Nat
      BY <1>0, SmallBelow
    <3>2. r' = SetupRegs(24 + 3 * D, 1, i9) /\ UNCHANGED <<mem, fr, cr, defered_queue>> /\ Calm(p)'
      BY <1>0, <1>1, <1>12, <2>2, <3>1, RowVoutb DEF p
    <3>3. /\ p.regs = SetupRegs(0, 1, i9) /\ i8 \in p.starts /\ i9 \in p.starts
          /\ 24 + 3 * D \in p.main /\ 24 + 3 * D \in Int /\ i9 \in Int
      BY <1>0 DEF p, Both
    <3>4. Running(p)'
      <4>. DEFINE a == 21 + 3 * D
                  b == 24 + 3 * D
      <4>1. Row(a, 1, i9, i8, i9, 1) /\ a \in Int /\ b \in p.main /\ b \in Int
            /\ r' = SetupRegs(b, 1, i9)
        BY <1>0, <1>12, <3>2, <3>3
      <4>2. i9 \in Int /\ p.regs = SetupRegs(0, 1, i9) /\ i8 \in p.starts /\ i9 \in p.starts
        BY <1>0, <3>3
      <4>. HIDE DEF a, b, i8, i9
      <4>. QED BY <1>2, <2>2, <3>2, <4>1, <4>2, RowDone
    <3>. QED BY <3>2, <3>4 DEF p
  <2>. QED BY <1>2, <1>12, <2>1, <2>2, RowGoes DEF p
<1>. QED BY <1>5, <1>6, <1>7, <1>8, <1>9, <1>10, <1>11, <1>12 DEF BothUp, p

-----------------------------------------------------------------------------
(* What the guests' handlers leave.                                        *)

\* One frame at most is on the stack of a program that runs.
LEMMA RunningStack ==
  ASSUME NEW p, IsProgram(p), Running(p) PROVE sp >= RamSize - 17 * DwordBytes
<1>0. RamSize \in Nat /\ DwordBytes \in Nat
  BY DwordBytesAssumption, RamSizeAssumption
<1>1. CASE OnMain(p)
  <2>1. p.regs[14] = RamSize /\ p.regs \in [Reg -> 0 .. DwordMod - 1] /\ 14 \in Reg
    BY DEF IsProgram, Reg
  <2>2. sp = RamSize
    BY <1>1, <2>1 DEF OnMain, RegsAt, sp
  <2>. QED BY <1>0, <2>2
<1>2. CASE InHandler(p)
  <2>1. sp = SlotAddr(RamSize, 16)
    BY <1>2 DEF InHandler, FrameOnStack
  <2>. QED BY <1>0, <2>1 DEF SlotAddr
<1>. QED BY <1>1, <1>2 DEF Running

\* The stack and the registers that the setup leaves, r1 holding y.
AsSetUp(y) ==
  /\ sp = RamSize /\ fr = 0 /\ r[0] = 1 /\ r[1] = y
  /\ \A i \in 2 .. 13 : r[i] = 0

LEMMA RunningAsSetUp ==
  ASSUME NEW p, NEW y \in Int, p.regs = SetupRegs(0, 1, y), p.main \subseteq Int,
         Running(p), pc \notin p.handler \cup p.ends
  PROVE  AsSetUp(y)
<1>1. ~ InHandler(p)
  BY DEF InHandler, Serves, PutOff, Ends
<1>2. PICK a \in p.main : r = RegsAt(p, a) /\ fr = 0
  BY <1>1 DEF Running, OnMain
<1>3. r = SetupRegs(a, 1, y)
  BY <1>2, RegsAreSetup
<1>4. 0 \in Reg /\ 1 \in Reg /\ 14 \in Reg /\ 2 .. 13 \subseteq Reg
  BY DEF Reg
<1>. QED BY <1>2, <1>3, <1>4 DEF AsSetUp, SetupRegs, sp

LEMMA RowStack ==
  ASSUME NEW a, NEW x, NEW y, NEW k8, NEW k9, NEW c, Row(a, x, y, k8, k9, c)
  PROVE  sp = RamSize /\ pc = a
  BY DEF Row, SetupRegs, sp, pc, Reg

\* The run of a guest: its setup, then its main loop and one handler at a time.
ConsoleRuns == MachineInv /\ Calm(Console) /\ (ConsoleUp \/ Running(Console))
BothRuns == MachineInv /\ Calm(Both) /\ (BothUp \/ Running(Both))
GuestRuns == (guest = "console" => ConsoleRuns) /\ (guest = "both" => BothRuns)

LEMMA GuestLoaded ==
  ASSUME UsualRam, NEW image \in Seq(Byte), Len(image) <= 256, MachineInit(image), NEW p
  PROVE  /\ MachineInv /\ Calm(p) /\ Loaded(mem, 0, image)
         /\ Row(0, 0, 0, DwordMax, DwordMax, 0)
<1>1. CpuInit(image) /\ TimerInit
  BY DEF MachineInit
<1>2. Loaded(mem, 0, image) /\ Row(0, 0, 0, DwordMax, DwordMax, 0)
  BY <1>1, ImageLoaded, RowInit
<1>3. interrupt_queue = <<>> /\ ~ terminated /\ active = FALSE /\ pit_worker = "poll"
  BY <1>1 DEF CpuInit, IntInit, TimerInit
<1>4. <<>> \in Seq(p.ints)
  BY EmptySeq
<1>5. Calm(p)
  BY <1>3, <1>4 DEF Calm
<1>. QED BY <1>2, <1>5, MachineInvInit

LEMMA GuestInit == ASSUME UsualRam, Init PROVE GuestRuns
<1>0. DwordBytes \in 1 .. 4
  BY DwordBytesAssumption
<1>1. ASSUME guest = "console" PROVE ConsoleRuns
  <2>1. MachineInit(console_test)
    BY <1>1 DEF Init, Guests
  <2>2. Code(console_test, 63 + 7 * DwordBytes)
    BY ConsoleLoaded, Zenon
  <2>3. console_test \in Seq(Byte) /\ Len(console_test) <= 256
    BY <1>0, <2>2 DEF Code
  <2>. QED BY <2>1, <2>3, GuestLoaded DEF ConsoleRuns, ConsoleUp
<1>2. ASSUME guest = "both" PROVE BothRuns
  <2>1. MachineInit(both_test)
    BY <1>2 DEF Init, Guests
  <2>2. Code(both_test, 56 + 5 * DwordBytes)
    BY BothLoaded, Zenon
  <2>3. both_test \in Seq(Byte) /\ Len(both_test) <= 256
    BY <1>0, <2>2 DEF Code
  <2>. QED BY <2>1, <2>3, GuestLoaded DEF BothRuns, BothUp
<1>. QED BY <1>1, <1>2 DEF GuestRuns

LEMMA GuestNext == ASSUME UsualRam, GuestRuns, [Next]_mcVars PROVE GuestRuns'
<1>1. [MachineNext]_machineVars /\ UNCHANGED guest
  BY DEF Next, mcVars
<1>2. ASSUME ConsoleRuns PROVE ConsoleRuns'
  <2>1. MachineInv' /\ IsProgram(Console) /\ StackFits
    BY <1>1, <1>2, MachineInvNext, ConsoleIsProgram, UsualFits DEF ConsoleRuns
  <2>2. Calm(Console)' /\ (ConsoleUp' \/ Running(Console)')
    BY <1>1, <1>2, <2>1, ConsoleUpNext, RunningNext DEF ConsoleRuns
  <2>. QED BY <2>1, <2>2 DEF ConsoleRuns
<1>3. ASSUME BothRuns PROVE BothRuns'
  <2>1. MachineInv' /\ IsProgram(Both) /\ StackFits
    BY <1>1, <1>3, MachineInvNext, BothIsProgram, UsualFits DEF BothRuns
  <2>2. Calm(Both)' /\ (BothUp' \/ Running(Both)')
    BY <1>1, <1>3, <2>1, BothUpNext, RunningNext DEF BothRuns
  <2>. QED BY <2>1, <2>2 DEF BothRuns
<1>. QED BY <1>1, <1>2, <1>3 DEF GuestRuns

LEMMA GuestAlways == ASSUME UsualRam PROVE Spec => []GuestRuns
<1>1. Init => GuestRuns
  BY GuestInit
<1>2. GuestRuns /\ [Next]_mcVars => GuestRuns'
  BY GuestNext
<1>. QED BY <1>1, <1>2, PTL DEF Spec

\* console_test.nasm and the program that serves both devices end a handler
\* with "vcrl 0x110; viret": because vm.py puts the load off past one check of
\* the interrupts, no interrupt, from any thread at any moment, finds the
\* frame of the last one still on the stack.
THEOREM GuestHandlersNeverNest == ASSUME UsualRam PROVE Spec => []HandlersNeverNest
<1>0. RamSize \in Nat /\ DwordBytes \in Nat
  BY DwordBytesAssumption, RamSizeAssumption
<1>1. ASSUME ConsoleRuns PROVE sp >= RamSize - 17 * DwordBytes
  <2>1. CASE ConsoleUp
    <3>1. sp = RamSize
      BY <2>1, RowStack DEF ConsoleUp
    <3>. QED BY <1>0, <3>1
  <2>. QED BY <1>1, <2>1, ConsoleIsProgram, RunningStack DEF ConsoleRuns
<1>2. ASSUME BothRuns PROVE sp >= RamSize - 17 * DwordBytes
  <2>1. CASE BothUp
    <3>1. sp = RamSize
      BY <2>1, RowStack DEF BothUp
    <3>. QED BY <1>0, <3>1
  <2>. QED BY <1>2, <2>1, BothIsProgram, RunningStack DEF BothRuns
<1>3. GuestRuns => HandlersNeverNest
  BY <1>1, <1>2 DEF GuestRuns, HandlersNeverNest
<1>. QED BY <1>3, GuestAlways, PTL

\* What the main loop of such a program finds when it goes on is what the
\* setup left: the stack empty, the flags clear, and the registers r0 and r1,
\* which the handlers use for the characters they read and write, unharmed.
THEOREM GuestInterruptsAreTransparent ==
  ASSUME UsualRam PROVE Spec => [](guest # "storm" => InterruptsAreTransparent)
<1>. DEFINE D == DwordBytes
<1>0. D \in 1 .. 4
  BY DwordBytesAssumption
<1>1. ASSUME ConsoleRuns, pc = 15 + 2 * D PROVE AsSetUp(0)
  <2>1. ~ ConsoleUp
    BY <1>0, <1>1, RowStack DEF ConsoleUp
  <2>2. Running(Console)
    BY <1>1, <2>1 DEF ConsoleRuns
  <2>3. Console.regs = SetupRegs(0, 1, 0) /\ Console.main \subseteq Int
    BY <1>0 DEF Console
  <2>4. pc \notin Console.handler \cup Console.ends
    BY <1>0, <1>1 DEF Console
  <2>. QED BY <2>2, <2>3, <2>4, RunningAsSetUp
<1>2. ASSUME BothRuns, pc = 27 + 3 * D PROVE AsSetUp(40 + 4 * D)
  <2>1. ~ BothUp
    BY <1>0, <1>2, RowStack DEF BothUp
  <2>2. Running(Both)
    BY <1>2, <2>1 DEF BothRuns
  <2>3. Both.regs = SetupRegs(0, 1, 40 + 4 * D) /\ Both.main \subseteq Int /\ 40 + 4 * D \in Int
    BY <1>0 DEF Both
  <2>4. pc \notin Both.handler \cup Both.ends
    BY <1>0, <1>2 DEF Both
  <2>. QED BY <2>2, <2>3, <2>4, RunningAsSetUp
<1>3. console_infloop = 15 + 2 * D
  BY ConsoleLabels
<1>4. both_infloop = 27 + 3 * D /\ both_infloop + 3 + Len(both_int_8) = 40 + 4 * D
  BY <1>0, BothLabels
<1>5. ASSUME GuestRuns, guest # "storm" PROVE InterruptsAreTransparent
  <2>. SUFFICES ASSUME guest \in Handling, pc = MainLoop PROVE AsSetUp(MainR1)
    BY DEF InterruptsAreTransparent, AsSetUp
  <2>1. CASE guest = "console"
    <3>1. MainLoop = console_infloop /\ MainR1 = 0
      BY <2>1, Zenon DEF MainLoop, MainR1
    <3>. QED BY <1>1, <1>3, <1>5, <2>1, <3>1 DEF GuestRuns
  <2>2. CASE guest = "both"
    <3>1. MainLoop = both_infloop /\ MainR1 = both_infloop + 3 + Len(both_int_8)
      BY <2>2, Zenon DEF MainLoop, MainR1
    <3>. QED BY <1>2, <1>4, <1>5, <2>2, <3>1 DEF GuestRuns
  <2>. QED BY <1>5, <2>1, <2>2 DEF Handling
<1>6. GuestRuns => (guest # "storm" => InterruptsAreTransparent)
  BY <1>5
<1>. QED BY <1>6, GuestAlways, PTL

-----------------------------------------------------------------------------
(* What the guests print of what was typed.                                *)

\* How many of the first n characters of s can have been typed.
TypedIn(s, n) == Cardinality({m \in 1 .. n : s[m] \in Typable})

LEMMA TypedInType ==
  ASSUME NEW s, NEW n \in Nat
  PROVE  IsFiniteSet({m \in 1 .. n : s[m] \in Typable}) /\ TypedIn(s, n) \in Nat
<1>1. IsFiniteSet(1 .. n)
  BY FS_Interval
<1>2. IsFiniteSet({m \in 1 .. n : s[m] \in Typable})
  BY <1>1, FS_Subset
<1>. QED BY <1>2, FS_CardinalityType DEF TypedIn

LEMMA TypedInAppended ==
  ASSUME NEW s \in Seq(Byte), NEW c \in Byte
  PROVE  /\ \A n \in 0 .. Len(s) : TypedIn(Append(s, c), n) = TypedIn(s, n)
         /\ TypedIn(Append(s, c), Len(s) + 1) =
              TypedIn(s, Len(s)) + (IF c \in Typable THEN 1 ELSE 0)
<1>. DEFINE t == Append(s, c)
            k == Len(s)
            A == {m \in 1 .. k : s[m] \in Typable}
            B == {m \in 1 .. k + 1 : t[m] \in Typable}
<1>1. k \in Nat /\ t[k + 1] = c /\ \A m \in 1 .. k : t[m] = s[m]
  BY AppendProperties, LenProperties
<1>. HIDE DEF t, k
<1>2. ASSUME NEW n \in 0 .. k PROVE TypedIn(t, n) = TypedIn(s, n)
  <2>1. {m \in 1 .. n : t[m] \in Typable} = {m \in 1 .. n : s[m] \in Typable}
    BY <1>1
  <2>. QED BY <2>1 DEF TypedIn
<1>3. B = IF c \in Typable THEN A \cup {k + 1} ELSE A
  BY <1>1
<1>4. IsFiniteSet(A) /\ k + 1 \notin A /\ Cardinality(A) = TypedIn(s, k) /\ TypedIn(s, k) \in Nat
  BY <1>1, TypedInType DEF TypedIn
<1>5. Cardinality(A \cup {k + 1}) = TypedIn(s, k) + 1
  BY <1>4, FS_AddElement
<1>6. TypedIn(t, k + 1) = TypedIn(s, k) + (IF c \in Typable THEN 1 ELSE 0)
  <2>1. TypedIn(t, k + 1) = Cardinality(B)
    BY DEF TypedIn
  <2>. HIDE DEF A, B
  <2>2. CASE c \in Typable
    BY <1>3, <1>5, <2>1, <2>2
  <2>3. CASE c \notin Typable
    BY <1>3, <1>4, <2>1, <2>3
  <2>. QED BY <2>2, <2>3
<1>. QED BY <1>2, <1>6 DEF t, k

\* Of what the guest has read it has printed all but the last k characters.
Echoed(k) ==
  /\ \A n \in 1 .. Len(stdout) : stdout[n] \in Typable =>
       TypedIn(stdout, n) \in 1 .. Len(con_read) /\ stdout[n] = con_read[TypedIn(stdout, n)]
  /\ Len(con_read) = TypedIn(stdout, Len(stdout)) + k

LEMMA EchoedStays ==
  ASSUME NEW k, Echoed(k), UNCHANGED <<stdout, con_read>> PROVE Echoed(k)'
  BY DEF Echoed, TypedIn

LEMMA EchoedRead ==
  ASSUME Echoed(0), con_read \in Seq(Byte), stdout \in Seq(Byte), NEW c \in Byte,
         con_read' = Append(con_read, c), UNCHANGED stdout
  PROVE  Echoed(1)' /\ con_read'[Len(con_read')] = c
<1>. DEFINE q == Append(con_read, c)
<1>1. /\ Len(con_read) \in Nat /\ Len(q) = Len(con_read) + 1 /\ q[Len(con_read) + 1] = c
      /\ \A i \in 1 .. Len(con_read) : q[i] = con_read[i]
  BY AppendProperties, LenProperties
<1>. HIDE DEF q
<1>2. ASSUME NEW n \in 1 .. Len(stdout), stdout[n] \in Typable
      PROVE  TypedIn(stdout, n) \in 1 .. Len(q) /\ stdout[n] = q[TypedIn(stdout, n)]
  BY <1>1, <1>2 DEF Echoed
<1>3. Len(stdout) \in Nat /\ TypedIn(stdout, Len(stdout)) \in Nat
  BY TypedInType, LenProperties
<1>4. Len(q) = TypedIn(stdout, Len(stdout)) + 1
  BY <1>1, <1>3 DEF Echoed
<1>5. con_read' = q
  BY DEF q
<1>6. \A n : TypedIn(stdout, n)' = TypedIn(stdout, n)
  BY DEF TypedIn
<1>. QED BY <1>1, <1>2, <1>4, <1>5, <1>6 DEF Echoed

\* The character it prints is the one it has read last, or none of the user's.
LEMMA EchoedWrite ==
  ASSUME NEW k \in {0, 1}, Echoed(k), con_read \in Seq(Byte), stdout \in Seq(Byte), NEW c \in Byte,
         c \in Typable <=> k = 1, k = 1 => c = con_read[Len(con_read)],
         stdout' = Append(stdout, c), UNCHANGED con_read
  PROVE  Echoed(0)'
<1>. DEFINE t == Append(stdout, c)
            m == Len(stdout)
<1>1. /\ m \in Nat /\ Len(t) = m + 1 /\ t[m + 1] = c /\ \A i \in 1 .. m : t[i] = stdout[i]
      /\ Len(con_read) \in Nat
  BY AppendProperties, LenProperties
<1>2. /\ \A n \in 0 .. m : TypedIn(t, n) = TypedIn(stdout, n)
      /\ TypedIn(t, m + 1) = TypedIn(stdout, m) + (IF c \in Typable THEN 1 ELSE 0)
      /\ TypedIn(stdout, m) \in Nat
  BY <1>1, TypedInAppended, TypedInType
<1>3. t = stdout'
  OBVIOUS
<1>. HIDE DEF t, m
<1>4. Len(con_read) = TypedIn(t, m + 1) /\ TypedIn(t, m + 1) \in Nat
  <2>1. Len(con_read) = TypedIn(stdout, m) + k
    BY DEF Echoed, m
  <2>. QED BY <1>2, <2>1
<1>5. ASSUME NEW n \in 1 .. m + 1, t[n] \in Typable
      PROVE  TypedIn(t, n) \in 1 .. Len(con_read) /\ t[n] = con_read[TypedIn(t, n)]
  <2>1. CASE n = m + 1
    <3>1. c \in Typable /\ c = con_read[Len(con_read)] /\ TypedIn(t, n) = Len(con_read)
      BY <1>1, <1>4, <1>5, <2>1
    <3>2. Len(con_read) >= 1
      BY <1>2, <1>4, <3>1
    <3>. QED BY <1>1, <2>1, <3>1, <3>2
  <2>2. CASE n # m + 1
    <3>1. n \in 1 .. m /\ t[n] = stdout[n] /\ TypedIn(t, n) = TypedIn(stdout, n)
      BY <1>1, <1>2, <2>2
    <3>. QED BY <1>5, <3>1 DEF Echoed, m
  <2>. QED BY <2>1, <2>2
<1>6. \A n : TypedIn(stdout, n)' = TypedIn(t, n)
  BY <1>3 DEF TypedIn
<1>. QED BY <1>1, <1>3, <1>4, <1>5, <1>6 DEF Echoed

\* What is read was typed, in this order.
LEMMA ReadWasTyped ==
  ASSUME FifoDelivery, ConsoleTypeOK
  PROVE  \A i \in 1 .. Len(con_read) : i \in DOMAIN Typed /\ con_read[i] = Typed[i]
<1>. DEFINE w == con_queue \o stdin
<1>1. w \in Seq(Byte) /\ con_read \in Seq(Byte) /\ con_queue \in Seq(Byte) /\ stdin \in Seq(Byte)
  BY ConcatProperties DEF ConsoleTypeOK
<1>2. con_read \o w = Typed
  <2>1. (con_read \o con_queue) \o stdin = con_read \o (con_queue \o stdin)
    BY <1>1, ConcatAssociative
  <2>. QED BY <2>1, Zenon DEF FifoDelivery
<1>. HIDE DEF w
<1>. QED BY <1>1, <1>2

LEMMA EchoedFollows ==
  ASSUME NEW k, Echoed(k), FifoDelivery, ConsoleTypeOK, stdout \in Seq(Byte)
  PROVE  EchoFollowsInput
<1>1. \A n : Echoes(n) = TypedIn(stdout, n)
  BY DEF Echoes, TypedIn
<1>2. DOMAIN stdout = 1 .. Len(stdout)
  OBVIOUS
<1>. QED BY <1>1, <1>2, ReadWasTyped DEF Echoed, EchoFollowsInput

\* An instruction that prints and reads nothing, and the one after it.
Executes == CpuTypeOK /\ phase = "exec" /\ ~terminated /\ Cpu /\ Below(pc)
Silently(b) == pc' = b /\ UNCHANGED <<stdout, con_read>>

LEMMA SilentStep ==
  ASSUME Executes, mem[pc] \in {1, 32, 33, 64, 240, 244} PROVE UNCHANGED <<stdout, con_read>>
<1>1. ~ VOUTB /\ ~ VINB
  BY DEF VOUTB, VINB, Op
<1>. QED BY <1>1 DEF Executes, Cpu, conVars

Sets(i, v, b) == Silently(b) /\ r'[i] = v /\ \A j \in 0 .. 13 : j # i => r'[j] = r[j]

LEMMA VsetEchoes ==
  ASSUME Executes, NEW i \in 0 .. 13, NEW v \in 0 .. 255, VsetAt(mem, pc, i, v),
         NEW b, b = pc + 2 + DwordBytes
  PROVE  Sets(i, v, b)
<1>1. mem[pc] = 1 /\ mem[pc + 1] % 16 = i /\ i \in Reg /\ i < 14 /\ CpuTypeOK
  BY DEF VsetAt, Reg, Executes
<1>2. VSET
  BY <1>1, Which DEF Executes, Cpu
<1>3. /\ KeepsStack(pc + 2 + DwordBytes)
      /\ r' = [r EXCEPT ![15] = pc + 2 + DwordBytes, ![i] = FetchDword(mem, pc + 2)]
  BY <1>1, <1>2, VsetRuns
<1>4. FetchDword(mem, pc + 2) = v
  <2>1. DwordMod \in Nat /\ DwordMod >= 256
    BY DwordBytesAssumption DEF DwordMod, Pow256
  <2>2. v % DwordMod = v
    BY <2>1
  <2>. QED BY <2>2 DEF VsetAt
<1>5. \A j \in 0 .. 13 : j \in Reg /\ j # 15
  BY DEF Reg
<1>6. r'[i] = v /\ \A j \in 0 .. 13 : j # i => r'[j] = r[j]
  BY <1>1, <1>3, <1>4, <1>5 DEF CpuTypeOK
<1>. QED BY <1>1, <1>3, <1>6, SilentStep DEF Sets, Silently, KeepsStack

LEMMA CompareEchoes ==
  ASSUME Executes, NEW i, NEW j, TwoAt(mem, pc, 32, i, j), NEW b, b = pc + 3 PROVE Silently(b)
<1>1. mem[pc] = 32 /\ CpuTypeOK
  BY DEF TwoAt, Executes
<1>2. VCMP
  BY <1>1, Which DEF Executes, Cpu
<1>. QED BY <1>1, <1>2, CompareRuns, SilentStep DEF Silently, KeepsStack

LEMMA BranchEchoes ==
  ASSUME UsualRam, Executes, NEW a \in Nat, pc = a, NEW op \in {33, 64}, NEW to \in Nat,
         a + 3 < 256, to < 256, BranchAt(mem, a, op, to - (a + 3))
  PROVE  Silently(to) \/ (op = 33 /\ Silently(a + 3))
<1>1. mem[pc] = op /\ To(mem, pc) = to /\ mem[pc] \in {1, 32, 33, 64, 240, 242, 243, 244}
  <2>1. mem[a] = op /\ To(mem, a) = to
    BY JumpLands
  <2>. QED BY <2>1
<1>2. JumpNear /\ CpuTypeOK
  BY <1>1, Which DEF Executes, Cpu
<1>. QED BY <1>1, <1>2, JumpRuns, SilentStep DEF Silently, KeepsStack

LEMMA LoadEchoes ==
  ASSUME Executes, NEW id \in Cregs, NEW i, VcrlAt(mem, pc, id, i), NEW b, b = pc + 4
  PROVE  Silently(b)
<1>1. mem[pc] = 240 /\ WordAt(mem, pc + 2, id) /\ CpuTypeOK
  BY DEF VcrlAt, Executes
<1>2. UnknownCreg \/ VCRL
  BY <1>1, Which DEF Executes, Cpu
<1>. QED BY <1>1, <1>2, LoadRuns, SilentStep DEF Silently, KeepsStack

LEMMA WriteEchoes ==
  ASSUME Executes, NEW i \in 0 .. 13, NEW j \in Nat, TwoAt(mem, pc, 242, i, j)
  PROVE  /\ pc' = pc + 3 /\ UNCHANGED con_read /\ \A k \in 0 .. 13 : r'[k] = r[k]
         /\ stdout' = IF j = 32 THEN Append(stdout, r[i] % 256) ELSE stdout
<1>1. mem[pc] = 242 /\ X = i /\ Arg(2) = j /\ CpuTypeOK
  BY DEF TwoAt, Executes, X, Arg
<1>2. VOUTB
  BY <1>1, Which DEF Executes, Cpu
<1>3. GoesTo(pc + 3) /\ KeepsStack(pc + 3)
  BY <1>1, <1>2, WriteRuns
<1>4. R[X] = r[i]
  <2>1. R = [r EXCEPT ![15] = pc + 1 + OpLength(mem[pc])]
    BY <1>1, SeenRegisters
  <2>2. i \in Reg /\ i # 15
    BY DEF Reg
  <2>. QED BY <1>1, <2>1, <2>2 DEF CpuTypeOK
<1>5. stdout' = IF j = 32 THEN Append(stdout, r[i] % 256) ELSE stdout
  BY <1>1, <1>2, <1>4 DEF VOUTB
<1>6. UNCHANGED con_read
  BY <1>2 DEF VOUTB, ConsoleOut, conVars, conWorkerVars
<1>7. \A k \in 0 .. 13 : r'[k] = r[k]
  <2>1. \A k \in 0 .. 13 : k \in Reg /\ k # 15
    BY DEF Reg
  <2>2. r' = [r EXCEPT ![15] = pc + 3] /\ r \in [Reg -> Int]
    BY <1>1, <1>3 DEF GoesTo, CpuTypeOK
  <2>. QED BY <2>1, <2>2
<1>. QED BY <1>3, <1>5, <1>6, <1>7 DEF KeepsStack

LEMMA ReadEchoes ==
  ASSUME Executes, ConsoleTypeOK, NEW i \in 0 .. 13, NEW j \in {32, 33}, TwoAt(mem, pc, 243, i, j)
  PROVE  /\ pc' = pc + 3 /\ UNCHANGED stdout
         /\ j = 33 => UNCHANGED con_read
         /\ j = 32 => \E c \in Byte : con_read' = Append(con_read, c) /\ r'[i] = c
<1>1. mem[pc] = 243 /\ mem[pc + 1] % 16 = i /\ i \in Reg /\ i < 14 /\ Arg(2) = j /\ CpuTypeOK
  BY DEF TwoAt, Executes, Reg, Arg
<1>2. VINB /\ X = i
  BY <1>1, Which DEF Executes, Cpu, X, Arg
<1>3. KeepsStack(pc + 3)
  BY <1>1, <1>2, ReadRuns
<1>4. ConsoleIn(j) /\ UNCHANGED stdout /\ Set(i, ConsoleValue(j) % 256)
  BY <1>1, <1>2 DEF VINB, ConsolePorts, TimerPorts
<1>5. ASSUME j = 32 PROVE \E c \in Byte : con_read' = Append(con_read, c) /\ r'[i] = c
  <2>1. con_queue # <<>> /\ con_read' = Append(con_read, Head(con_queue))
    BY <1>4, <1>5 DEF ConsoleIn
  <2>2. Head(con_queue) \in Byte
    BY <2>1, HeadTailProperties DEF ConsoleTypeOK
  <2>3. ConsoleValue(j) % 256 = Head(con_queue)
    BY <1>5, <2>2 DEF ConsoleValue, Byte
  <2>4. r'[i] = Head(con_queue)
    <3>1. R = [r EXCEPT ![15] = pc + 1 + OpLength(mem[pc])]
      BY <1>1, SeenRegisters
    <3>2. r' = [R EXCEPT ![i] = Head(con_queue)]
      BY <1>4, <2>3 DEF Set
    <3>. QED BY <1>1, <3>1, <3>2 DEF CpuTypeOK
  <2>. QED BY <2>1, <2>2, <2>4
<1>6. j = 33 => UNCHANGED con_read
  BY <1>4 DEF ConsoleIn, conVars, conWorkerVars
<1>. QED BY <1>3, <1>4, <1>5, <1>6 DEF KeepsStack

\* What is about to be printed where console_test.nasm prints the prompt, and
\* where it prints a character that it has just read.
Prompt == {67, 58, 32}
ConsolePrints ==
  {20 + 3 * DwordBytes, 22 + 4 * DwordBytes, 24 + 5 * DwordBytes, 27 + 5 * DwordBytes,
   30 + 5 * DwordBytes, 47 + 6 * DwordBytes}
ConsoleEcho ==
  /\ pc # 47 + 6 * DwordBytes => Echoed(0)
  /\ pc = 47 + 6 * DwordBytes => Echoed(1) /\ r[0] = con_read[Len(con_read)]
  /\ pc \in {20 + 3 * DwordBytes, 22 + 4 * DwordBytes, 24 + 5 * DwordBytes} => r[0] = 67
  /\ pc \in {22 + 4 * DwordBytes, 24 + 5 * DwordBytes, 27 + 5 * DwordBytes} => r[1] = 58
  /\ pc \in {24 + 5 * DwordBytes, 27 + 5 * DwordBytes, 30 + 5 * DwordBytes} => r[2] = 32

\* One instruction of a program of which this image is loaded.
Reads(image) ==
  /\ Executes /\ ConsoleTypeOK /\ FifoDelivery /\ stdout \in Seq(Byte) /\ Loaded(mem, 0, image)

LEMMA ConsoleSilent ==
  ASSUME ConsoleEcho, pc # 47 + 6 * DwordBytes, NEW b, b \notin ConsolePrints, Silently(b)
  PROVE  ConsoleEcho'
<1>1. Echoed(0)' /\ pc' = b
  BY EchoedStays DEF ConsoleEcho, Silently
<1>. QED BY <1>1 DEF ConsoleEcho, ConsolePrints

\* A character that is typed is a byte, and one of the guest's registers can
\* hold it until it is printed.
LEMMA LastRead ==
  ASSUME FifoDelivery, ConsoleTypeOK, stdout \in Seq(Byte), Echoed(1)
  PROVE  con_read[Len(con_read)] \in Typable \cap Byte
<1>1. Len(con_read) \in 1 .. Len(con_read)
  <2>1. TypedIn(stdout, Len(stdout)) \in Nat
    BY TypedInType, LenProperties
  <2>. QED BY <2>1 DEF Echoed
<1>2. con_read[Len(con_read)] \in Byte
  BY <1>1 DEF ConsoleTypeOK
<1>. QED BY <1>1, <1>2, ReadWasTyped DEF Typable

LEMMA ConsoleEchoes ==
  ASSUME UsualRam, Prompt \cap Typable = {}, Reads(console_test), ConsoleEcho,
         pc \in {0, 2 + DwordBytes, 6 + DwordBytes, 8 + 2 * DwordBytes, 12 + 2 * DwordBytes}
                \cup Console.main \cup Console.handler
  PROVE  ConsoleEcho'
<1>. DEFINE D == DwordBytes
            h == 18 + 2 * D
<1>0. D \in 1 .. 4 /\ h \in Int /\ h \in 0 .. 255
  BY DwordBytesAssumption
<1>1. /\ VsetAt(mem, 0, 0, h) /\ VcrlAt(mem, 2 + D, 265, 0) /\ VsetAt(mem, 6 + D, 0, 1)
      /\ VcrlAt(mem, 8 + 2 * D, 272, 0) /\ TwoAt(mem, 12 + 2 * D, 242, 0, 34)
  <2>1. Loaded(mem, 0, ConsoleSetup(console_int_9)) /\ console_int_9 = h
    BY ConsoleLoaded, ConsoleLabels DEF Reads
  <2>. QED BY <1>0, <2>1, ConsoleSetupLoaded
<1>2. /\ Loaded(mem, h, console_prompt)
      /\ BranchAt(mem, 15 + 2 * D, 64, (15 + 2 * D) - (15 + 2 * D + 3))
      /\ TwoAt(mem, 35 + 6 * D, 243, 0, 33) /\ TwoAt(mem, 38 + 6 * D, 32, 0, 1)
      /\ BranchAt(mem, 41 + 6 * D, 33, (53 + 6 * D) - (41 + 6 * D + 3))
      /\ TwoAt(mem, 44 + 6 * D, 243, 0, 32) /\ TwoAt(mem, 47 + 6 * D, 242, 0, 32)
      /\ BranchAt(mem, 50 + 6 * D, 64, (35 + 6 * D) - (50 + 6 * D + 3))
      /\ VsetAt(mem, 53 + 6 * D, 0, 1) /\ TwoAt(mem, 55 + 7 * D, 242, 0, 34)
      /\ VcrlAt(mem, 58 + 7 * D, 272, 0)
  BY ConsoleLoaded DEF Reads
<1>3. /\ VsetAt(mem, h, 0, 67) /\ VsetAt(mem, h + 2 + D, 1, 58) /\ VsetAt(mem, h + 4 + 2 * D, 2, 32)
      /\ TwoAt(mem, h + 6 + 3 * D, 242, 0, 32) /\ TwoAt(mem, h + 9 + 3 * D, 242, 1, 32)
      /\ TwoAt(mem, h + 12 + 3 * D, 242, 2, 32) /\ VsetAt(mem, h + 15 + 3 * D, 1, 0)
  <2>. HIDE DEF h
  <2>. QED BY <1>0, <1>2, ConsolePromptLoaded, Zenon
<1>4. /\ h + 2 + D = 20 + 3 * D /\ h + 4 + 2 * D = 22 + 4 * D /\ h + 6 + 3 * D = 24 + 5 * D
      /\ h + 9 + 3 * D = 27 + 5 * D /\ h + 12 + 3 * D = 30 + 5 * D /\ h + 15 + 3 * D = 33 + 5 * D
  BY <1>0
<1>5. Executes /\ ConsoleTypeOK /\ FifoDelivery /\ stdout \in Seq(Byte) /\ con_read \in Seq(Byte)
  BY DEF Reads, ConsoleTypeOK
<1>6. 265 \in Cregs /\ 272 \in Cregs
  BY DEF Cregs, CREG_INT_FIRST, CREG_INT_LAST, CREG_INT_CONTROL
<1>7. CASE pc = 0
  <2>. DEFINE b == 2 + D
  <2>1. /\ VsetAt(mem, pc, 0, h) /\ b = pc + 2 + DwordBytes /\ 0 \in 0 .. 13 /\ h \in 0 .. 255
        /\ b \notin ConsolePrints /\ pc # 47 + 6 * D
    BY <1>0, <1>1, <1>7 DEF ConsolePrints
  <2>. HIDE DEF b, h
  <2>2. Sets(0, h, b)
    BY <1>5, <2>1, VsetEchoes, Zenon
  <2>. QED BY <2>1, <2>2, ConsoleSilent DEF Sets
<1>8. CASE pc = 2 + D
  <2>. DEFINE a == 2 + D
              b == 6 + D
  <2>1. VcrlAt(mem, a, 265, 0) /\ b = a + 4 /\ b \notin ConsolePrints /\ a # 47 + 6 * D /\ pc = a
    BY <1>0, <1>1, <1>8 DEF ConsolePrints
  <2>. HIDE DEF a, b, h
  <2>2. Silently(b)
    BY <1>0, <1>5, <1>6, <2>1, LoadEchoes
  <2>. QED BY <2>1, <2>2, ConsoleSilent
<1>9. CASE pc = 6 + D
  <2>. DEFINE b == 8 + 2 * D
  <2>1. /\ VsetAt(mem, pc, 0, 1) /\ b = pc + 2 + DwordBytes /\ 0 \in 0 .. 13 /\ 1 \in 0 .. 255
        /\ b \notin ConsolePrints /\ pc # 47 + 6 * D
    BY <1>0, <1>1, <1>9 DEF ConsolePrints
  <2>. HIDE DEF b, h
  <2>2. Sets(0, 1, b)
    BY <1>5, <2>1, VsetEchoes, Zenon
  <2>. QED BY <2>1, <2>2, ConsoleSilent DEF Sets
<1>10. CASE pc = 8 + 2 * D
  <2>. DEFINE a == 8 + 2 * D
              b == 12 + 2 * D
  <2>1. VcrlAt(mem, a, 272, 0) /\ b = a + 4 /\ b \notin ConsolePrints /\ a # 47 + 6 * D /\ pc = a
    BY <1>0, <1>1, <1>10 DEF ConsolePrints
  <2>. HIDE DEF a, b, h
  <2>2. Silently(b)
    BY <1>0, <1>5, <1>6, <2>1, LoadEchoes
  <2>. QED BY <2>1, <2>2, ConsoleSilent
<1>11. CASE pc = 12 + 2 * D
  <2>. DEFINE a == 12 + 2 * D
              b == 15 + 2 * D
  <2>1. TwoAt(mem, a, 242, 0, 34) /\ b = a + 3 /\ b \notin ConsolePrints /\ a # 47 + 6 * D /\ pc = a
    BY <1>0, <1>1, <1>11 DEF ConsolePrints
  <2>. HIDE DEF a, b, h
  <2>2. Silently(b)
    BY <1>0, <1>5, <1>6, <2>1, WriteEchoes DEF Silently
  <2>. QED BY <2>1, <2>2, ConsoleSilent
<1>12. CASE pc = 15 + 2 * D
  <2>. DEFINE a == 15 + 2 * D
  <2>1. a \in Nat /\ a + 3 < 256 /\ a < 256 /\ BranchAt(mem, a, 64, a - (a + 3)) /\ pc = a
    BY <1>0, <1>2, <1>12
  <2>2. a \notin ConsolePrints /\ a # 47 + 6 * D
    BY <1>0 DEF ConsolePrints
  <2>. HIDE DEF a
  <2>3. Silently(a)
    BY <1>5, <2>1, BranchEchoes
  <2>. QED BY <2>1, <2>2, <2>3, ConsoleSilent
<1>13. CASE pc = h
  <2>. DEFINE b == 20 + 3 * D
  <2>0. VsetAt(mem, pc, 0, 67) /\ b = pc + 2 + DwordBytes /\ 0 \in 0 .. 13 /\ 67 \in 0 .. 255
    BY <1>0, <1>3, <1>4, <1>13
  <2>1. Silently(b) /\ r'[0] = 67
    <3>. HIDE DEF b
    <3>1. Sets(0, 67, b)
      BY <1>5, <2>0, VsetEchoes, Zenon
    <3>. QED BY <3>1 DEF Sets
  <2>2. Echoed(0)' /\ pc' = 20 + 3 * D
    BY <1>0, <1>13, <2>1, EchoedStays DEF ConsoleEcho, Silently
  <2>. QED BY <1>0, <2>1, <2>2 DEF ConsoleEcho
<1>14. CASE pc = 20 + 3 * D
  <2>. DEFINE b == 22 + 4 * D
  <2>0. VsetAt(mem, pc, 1, 58) /\ b = pc + 2 + DwordBytes /\ 1 \in 0 .. 13 /\ 58 \in 0 .. 255
    BY <1>0, <1>3, <1>4, <1>14
  <2>1. Silently(b) /\ r'[0] = r[0] /\ r'[1] = 58
    <3>. HIDE DEF b
    <3>1. Sets(1, 58, b)
      BY <1>5, <2>0, VsetEchoes, Zenon
    <3>. QED BY <3>1 DEF Sets
  <2>2. Echoed(0)' /\ pc' = 22 + 4 * D /\ r[0] = 67
    BY <1>0, <1>14, <2>1, EchoedStays DEF ConsoleEcho, Silently
  <2>. QED BY <1>0, <2>1, <2>2 DEF ConsoleEcho
<1>15. CASE pc = 22 + 4 * D
  <2>. DEFINE b == 24 + 5 * D
  <2>0. VsetAt(mem, pc, 2, 32) /\ b = pc + 2 + DwordBytes /\ 2 \in 0 .. 13 /\ 32 \in 0 .. 255
    BY <1>0, <1>3, <1>4, <1>15
  <2>1. Silently(b) /\ r'[0] = r[0] /\ r'[1] = r[1] /\ r'[2] = 32
    <3>. HIDE DEF b
    <3>1. Sets(2, 32, b)
      BY <1>5, <2>0, VsetEchoes, Zenon
    <3>. QED BY <3>1 DEF Sets
  <2>2. Echoed(0)' /\ pc' = 24 + 5 * D /\ r[0] = 67 /\ r[1] = 58
    BY <1>0, <1>15, <2>1, EchoedStays DEF ConsoleEcho, Silently
  <2>. QED BY <1>0, <2>1, <2>2 DEF ConsoleEcho
<1>16. CASE pc = 24 + 5 * D
  <2>1. /\ pc' = 27 + 5 * D /\ UNCHANGED con_read /\ r'[1] = r[1] /\ r'[2] = r[2]
        /\ stdout' = Append(stdout, r[0] % 256)
    BY <1>0, <1>3, <1>4, <1>5, <1>16, WriteEchoes
  <2>2. Echoed(0) /\ r[0] % 256 = 67 /\ 67 \in Byte /\ 67 \notin Typable
    BY <1>0, <1>16 DEF ConsoleEcho, Byte, Prompt
  <2>3. Echoed(0)'
    BY <1>5, <2>1, <2>2, EchoedWrite
  <2>. QED BY <1>0, <1>16, <2>1, <2>3 DEF ConsoleEcho
<1>17. CASE pc = 27 + 5 * D
  <2>1. /\ pc' = 30 + 5 * D /\ UNCHANGED con_read /\ r'[1] = r[1] /\ r'[2] = r[2]
        /\ stdout' = Append(stdout, r[1] % 256)
    BY <1>0, <1>3, <1>4, <1>5, <1>17, WriteEchoes
  <2>2. Echoed(0) /\ r[1] % 256 = 58 /\ 58 \in Byte /\ 58 \notin Typable
    BY <1>0, <1>17 DEF ConsoleEcho, Byte, Prompt
  <2>3. Echoed(0)'
    BY <1>5, <2>1, <2>2, EchoedWrite
  <2>. QED BY <1>0, <1>17, <2>1, <2>3 DEF ConsoleEcho
<1>18. CASE pc = 30 + 5 * D
  <2>1. /\ pc' = 33 + 5 * D /\ UNCHANGED con_read /\ r'[1] = r[1] /\ r'[2] = r[2]
        /\ stdout' = Append(stdout, r[2] % 256)
    BY <1>0, <1>3, <1>4, <1>5, <1>18, WriteEchoes
  <2>2. Echoed(0) /\ r[2] % 256 = 32 /\ 32 \in Byte /\ 32 \notin Typable
    BY <1>0, <1>18 DEF ConsoleEcho, Byte, Prompt
  <2>3. Echoed(0)'
    BY <1>5, <2>1, <2>2, EchoedWrite
  <2>. QED BY <1>0, <1>18, <2>1, <2>3 DEF ConsoleEcho
<1>19. CASE pc = 33 + 5 * D
  <2>. DEFINE b == 35 + 6 * D
  <2>1. /\ VsetAt(mem, pc, 1, 0) /\ b = pc + 2 + DwordBytes /\ 1 \in 0 .. 13 /\ 0 \in 0 .. 255
        /\ b \notin ConsolePrints /\ pc # 47 + 6 * D
    BY <1>0, <1>3, <1>4, <1>19 DEF ConsolePrints
  <2>. HIDE DEF b, h
  <2>2. Sets(1, 0, b)
    BY <1>5, <2>1, VsetEchoes, Zenon
  <2>. QED BY <2>1, <2>2, ConsoleSilent DEF Sets
<1>20. CASE pc = 35 + 6 * D
  <2>. DEFINE a == 35 + 6 * D
              b == 38 + 6 * D
  <2>1. TwoAt(mem, a, 243, 0, 33) /\ b = a + 3 /\ b \notin ConsolePrints /\ a # 47 + 6 * D /\ pc = a
    BY <1>0, <1>2, <1>20 DEF ConsolePrints
  <2>. HIDE DEF a, b, h
  <2>2. Silently(b)
    BY <1>0, <1>5, <1>6, <2>1, ReadEchoes DEF Silently
  <2>. QED BY <2>1, <2>2, ConsoleSilent
<1>21. CASE pc = 38 + 6 * D
  <2>. DEFINE a == 38 + 6 * D
              b == 41 + 6 * D
  <2>1. TwoAt(mem, a, 32, 0, 1) /\ b = a + 3 /\ b \notin ConsolePrints /\ a # 47 + 6 * D /\ pc = a
    BY <1>0, <1>2, <1>21 DEF ConsolePrints
  <2>. HIDE DEF a, b, h
  <2>2. Silently(b)
    BY <1>0, <1>5, <1>6, <2>1, CompareEchoes
  <2>. QED BY <2>1, <2>2, ConsoleSilent
<1>22. CASE pc = 41 + 6 * D
  <2>. DEFINE a == 41 + 6 * D
              to == 53 + 6 * D
  <2>1. a \in Nat /\ a + 3 < 256 /\ to \in Nat /\ to < 256 /\ BranchAt(mem, a, 33, to - (a + 3))
    BY <1>0, <1>2
  <2>2. to \notin ConsolePrints /\ a + 3 \notin ConsolePrints /\ a # 47 + 6 * D
    BY <1>0 DEF ConsolePrints
  <2>3. pc = a
    BY <1>22
  <2>. HIDE DEF a, to
  <2>4. Silently(to) \/ Silently(a + 3)
    BY <1>5, <2>1, <2>3, BranchEchoes
  <2>. QED BY <2>2, <2>3, <2>4, ConsoleSilent
<1>23. CASE pc = 44 + 6 * D
  <2>1. /\ pc' = 47 + 6 * D /\ UNCHANGED stdout
        /\ \E c \in Byte : con_read' = Append(con_read, c) /\ r'[0] = c
    BY <1>0, <1>2, <1>5, <1>23, ReadEchoes
  <2>2. PICK c \in Byte : con_read' = Append(con_read, c) /\ r'[0] = c
    BY <2>1
  <2>3. Echoed(0)
    BY <1>0, <1>23 DEF ConsoleEcho
  <2>4. Echoed(1)' /\ con_read'[Len(con_read')] = c
    BY <1>5, <2>1, <2>2, <2>3, EchoedRead
  <2>. QED BY <1>0, <2>1, <2>2, <2>4 DEF ConsoleEcho
<1>24. CASE pc = 47 + 6 * D
  <2>1. pc' = 50 + 6 * D /\ UNCHANGED con_read /\ stdout' = Append(stdout, r[0] % 256)
    BY <1>0, <1>2, <1>5, <1>24, WriteEchoes
  <2>2. Echoed(1) /\ r[0] = con_read[Len(con_read)]
    BY <1>0, <1>24 DEF ConsoleEcho
  <2>3. r[0] \in Typable \cap Byte
    BY <1>5, <2>2, LastRead
  <2>4. r[0] % 256 = r[0]
    BY <2>3 DEF Byte
  <2>5. Echoed(0)'
    BY <1>5, <2>1, <2>2, <2>3, <2>4, EchoedWrite
  <2>6. pc' \notin ConsolePrints
    BY <1>0, <2>1 DEF ConsolePrints
  <2>. QED BY <2>5, <2>6 DEF ConsoleEcho, ConsolePrints
<1>25. CASE pc = 50 + 6 * D
  <2>. DEFINE a == 50 + 6 * D
              to == 35 + 6 * D
  <2>1. a \in Nat /\ a + 3 < 256 /\ to \in Nat /\ to < 256 /\ BranchAt(mem, a, 64, to - (a + 3))
    BY <1>0, <1>2
  <2>2. to \notin ConsolePrints /\ a # 47 + 6 * D
    BY <1>0 DEF ConsolePrints
  <2>3. pc = a
    BY <1>25
  <2>. HIDE DEF a, to
  <2>4. Silently(to)
    BY <1>5, <2>1, <2>3, BranchEchoes
  <2>. QED BY <2>2, <2>3, <2>4, ConsoleSilent
<1>26. CASE pc = 53 + 6 * D
  <2>. DEFINE b == 55 + 7 * D
  <2>1. /\ VsetAt(mem, pc, 0, 1) /\ b = pc + 2 + DwordBytes /\ 0 \in 0 .. 13 /\ 1 \in 0 .. 255
        /\ b \notin ConsolePrints /\ pc # 47 + 6 * D
    BY <1>0, <1>2, <1>26 DEF ConsolePrints
  <2>. HIDE DEF b, h
  <2>2. Sets(0, 1, b)
    BY <1>5, <2>1, VsetEchoes, Zenon
  <2>. QED BY <2>1, <2>2, ConsoleSilent DEF Sets
<1>27. CASE pc = 55 + 7 * D
  <2>. DEFINE a == 55 + 7 * D
              b == 58 + 7 * D
  <2>1. TwoAt(mem, a, 242, 0, 34) /\ b = a + 3 /\ b \notin ConsolePrints /\ a # 47 + 6 * D /\ pc = a
    BY <1>0, <1>2, <1>27 DEF ConsolePrints
  <2>. HIDE DEF a, b, h
  <2>2. Silently(b)
    BY <1>0, <1>5, <1>6, <2>1, WriteEchoes DEF Silently
  <2>. QED BY <2>1, <2>2, ConsoleSilent
<1>28. CASE pc = 58 + 7 * D
  <2>. DEFINE a == 58 + 7 * D
              b == 62 + 7 * D
  <2>1. VcrlAt(mem, a, 272, 0) /\ b = a + 4 /\ b \notin ConsolePrints /\ a # 47 + 6 * D /\ pc = a
    BY <1>0, <1>2, <1>28 DEF ConsolePrints
  <2>. HIDE DEF a, b, h
  <2>2. Silently(b)
    BY <1>0, <1>5, <1>6, <2>1, LoadEchoes
  <2>. QED BY <2>1, <2>2, ConsoleSilent
<1>30. Console.main = {15 + 2 * D}
       /\ Console.handler =
            {h, 20 + 3 * D, 22 + 4 * D, 24 + 5 * D, 27 + 5 * D, 30 + 5 * D, 33 + 5 * D,
             35 + 6 * D, 38 + 6 * D, 41 + 6 * D, 44 + 6 * D, 47 + 6 * D, 50 + 6 * D, 53 + 6 * D,
             55 + 7 * D, 58 + 7 * D}
  BY DEF Console
<1>. HIDE DEF D, h
<1>. QED
  BY <1>7, <1>8, <1>9, <1>10, <1>11, <1>12, <1>13, <1>14, <1>15, <1>16, <1>17,
     <1>18, <1>19, <1>20, <1>21, <1>22, <1>23, <1>24, <1>25, <1>26, <1>27, <1>28, <1>30 DEF D

\* The same of both_test, which prints only what it has read.
BothEcho ==
  /\ pc # 43 + 4 * DwordBytes => Echoed(0)
  /\ pc = 43 + 4 * DwordBytes => Echoed(1) /\ r[1] = con_read[Len(con_read)]

LEMMA BothSilent ==
  ASSUME BothEcho, pc # 43 + 4 * DwordBytes, NEW b, b # 43 + 4 * DwordBytes, Silently(b)
  PROVE  BothEcho'
<1>1. Echoed(0)' /\ pc' = b
  BY EchoedStays DEF BothEcho, Silently
<1>. QED BY <1>1 DEF BothEcho

LEMMA BothEchoes ==
  ASSUME UsualRam, Reads(both_test), BothEcho,
         pc \in {0, 2 + DwordBytes, 4 + 2 * DwordBytes, 8 + 2 * DwordBytes, 10 + 3 * DwordBytes,
                 14 + 3 * DwordBytes, 17 + 3 * DwordBytes, 21 + 3 * DwordBytes}
                \cup Both.main \cup Both.handler
  PROVE  BothEcho'
<1>. DEFINE D == DwordBytes
            i8 == 30 + 3 * D
            i9 == 40 + 4 * D
<1>0. D \in 1 .. 4 /\ i8 \in 0 .. 255 /\ i9 \in 0 .. 255 /\ i8 \in Int /\ i9 \in Int
  BY DwordBytesAssumption
<1>1. /\ BranchAt(mem, 27 + 3 * D, 64, (27 + 3 * D) - (27 + 3 * D + 3))
      /\ Loaded(mem, 0, BothSetup(i8, i9)) /\ Loaded(mem, i8, both_int_8) /\ Loaded(mem, i9, both_int_9)
  BY BothLoaded DEF Reads
<1>2. /\ VsetAt(mem, 0, 0, 1) /\ VsetAt(mem, 2 + D, 1, i8) /\ VcrlAt(mem, 4 + 2 * D, 264, 1)
      /\ VsetAt(mem, 8 + 2 * D, 1, i9) /\ VcrlAt(mem, 10 + 3 * D, 265, 1)
      /\ TwoAt(mem, 14 + 3 * D, 242, 0, 113) /\ VcrlAt(mem, 17 + 3 * D, 272, 0)
      /\ TwoAt(mem, 21 + 3 * D, 242, 0, 34) /\ TwoAt(mem, 24 + 3 * D, 242, 0, 112)
  <2>. HIDE DEF i8, i9
  <2>. QED BY <1>0, <1>1, BothSetupLoaded
<1>3. /\ VsetAt(mem, i8, 0, 1) /\ TwoAt(mem, i8 + 2 + D, 242, 0, 112)
      /\ VcrlAt(mem, i8 + 5 + D, 272, 0)
  <2>. HIDE DEF i8
  <2>. QED BY <1>0, <1>1, BothInt8Loaded, Zenon
<1>4. /\ TwoAt(mem, i9, 243, 1, 32) /\ TwoAt(mem, i9 + 3, 242, 1, 32) /\ VsetAt(mem, i9 + 6, 0, 1)
      /\ TwoAt(mem, i9 + 8 + D, 242, 0, 34) /\ VcrlAt(mem, i9 + 11 + D, 272, 0)
  <2>. HIDE DEF i9
  <2>. QED BY <1>0, <1>1, BothInt9Loaded
<1>5. Executes /\ ConsoleTypeOK /\ FifoDelivery /\ stdout \in Seq(Byte) /\ con_read \in Seq(Byte)
  BY DEF Reads, ConsoleTypeOK
<1>6. 264 \in Cregs /\ 265 \in Cregs /\ 272 \in Cregs
  BY DEF Cregs, CREG_INT_FIRST, CREG_INT_LAST, CREG_INT_CONTROL
<1>7. /\ i8 + 2 + D = 32 + 4 * D /\ i8 + 5 + D = 35 + 4 * D /\ i9 + 3 = 43 + 4 * D
      /\ i9 + 6 = 46 + 4 * D /\ i9 + 8 + D = 48 + 5 * D /\ i9 + 11 + D = 51 + 5 * D
  BY <1>0
<1>8. CASE pc = 0
  <2>. DEFINE b == 2 + D
  <2>1. /\ VsetAt(mem, pc, 0, 1) /\ b = pc + 2 + DwordBytes /\ 0 \in 0 .. 13 /\ 1 \in 0 .. 255
        /\ b # 43 + 4 * D /\ pc # 43 + 4 * D
    BY <1>0, <1>2, <1>8
  <2>. HIDE DEF b, i8, i9
  <2>2. Sets(0, 1, b)
    BY <1>5, <2>1, VsetEchoes, Zenon
  <2>. QED BY <2>1, <2>2, BothSilent DEF Sets
<1>9. CASE pc = 2 + D
  <2>. DEFINE b == 4 + 2 * D
  <2>1. /\ VsetAt(mem, pc, 1, i8) /\ b = pc + 2 + DwordBytes /\ 1 \in 0 .. 13 /\ i8 \in 0 .. 255
        /\ b # 43 + 4 * D /\ pc # 43 + 4 * D
    BY <1>0, <1>2, <1>9
  <2>. HIDE DEF b, i8, i9
  <2>2. Sets(1, i8, b)
    BY <1>5, <2>1, VsetEchoes, Zenon
  <2>. QED BY <2>1, <2>2, BothSilent DEF Sets
<1>10. CASE pc = 4 + 2 * D
  <2>. DEFINE a == 4 + 2 * D
              b == 8 + 2 * D
  <2>1. VcrlAt(mem, a, 264, 1) /\ b = a + 4 /\ b # 43 + 4 * D /\ a # 43 + 4 * D /\ pc = a
    BY <1>0, <1>2, <1>10
  <2>. HIDE DEF a, b
  <2>2. Silently(b)
    BY <1>0, <1>5, <1>6, <2>1, LoadEchoes
  <2>. QED BY <2>1, <2>2, BothSilent
<1>11. CASE pc = 8 + 2 * D
  <2>. DEFINE b == 10 + 3 * D
  <2>1. /\ VsetAt(mem, pc, 1, i9) /\ b = pc + 2 + DwordBytes /\ 1 \in 0 .. 13 /\ i9 \in 0 .. 255
        /\ b # 43 + 4 * D /\ pc # 43 + 4 * D
    BY <1>0, <1>2, <1>11
  <2>. HIDE DEF b, i8, i9
  <2>2. Sets(1, i9, b)
    BY <1>5, <2>1, VsetEchoes, Zenon
  <2>. QED BY <2>1, <2>2, BothSilent DEF Sets
<1>12. CASE pc = 10 + 3 * D
  <2>. DEFINE a == 10 + 3 * D
              b == 14 + 3 * D
  <2>1. VcrlAt(mem, a, 265, 1) /\ b = a + 4 /\ b # 43 + 4 * D /\ a # 43 + 4 * D /\ pc = a
    BY <1>0, <1>2, <1>12
  <2>. HIDE DEF a, b
  <2>2. Silently(b)
    BY <1>0, <1>5, <1>6, <2>1, LoadEchoes
  <2>. QED BY <2>1, <2>2, BothSilent
<1>13. CASE pc = 14 + 3 * D
  <2>. DEFINE a == 14 + 3 * D
              b == 17 + 3 * D
  <2>1. TwoAt(mem, a, 242, 0, 113) /\ b = a + 3 /\ b # 43 + 4 * D /\ a # 43 + 4 * D /\ pc = a
    BY <1>0, <1>2, <1>13
  <2>. HIDE DEF a, b
  <2>2. Silently(b)
    BY <1>0, <1>5, <1>6, <2>1, WriteEchoes DEF Silently
  <2>. QED BY <2>1, <2>2, BothSilent
<1>14. CASE pc = 17 + 3 * D
  <2>. DEFINE a == 17 + 3 * D
              b == 21 + 3 * D
  <2>1. VcrlAt(mem, a, 272, 0) /\ b = a + 4 /\ b # 43 + 4 * D /\ a # 43 + 4 * D /\ pc = a
    BY <1>0, <1>2, <1>14
  <2>. HIDE DEF a, b
  <2>2. Silently(b)
    BY <1>0, <1>5, <1>6, <2>1, LoadEchoes
  <2>. QED BY <2>1, <2>2, BothSilent
<1>15. CASE pc = 21 + 3 * D
  <2>. DEFINE a == 21 + 3 * D
              b == 24 + 3 * D
  <2>1. TwoAt(mem, a, 242, 0, 34) /\ b = a + 3 /\ b # 43 + 4 * D /\ a # 43 + 4 * D /\ pc = a
    BY <1>0, <1>2, <1>15
  <2>. HIDE DEF a, b
  <2>2. Silently(b)
    BY <1>0, <1>5, <1>6, <2>1, WriteEchoes DEF Silently
  <2>. QED BY <2>1, <2>2, BothSilent
<1>16. CASE pc = 24 + 3 * D
  <2>. DEFINE a == 24 + 3 * D
              b == 27 + 3 * D
  <2>1. TwoAt(mem, a, 242, 0, 112) /\ b = a + 3 /\ b # 43 + 4 * D /\ a # 43 + 4 * D /\ pc = a
    BY <1>0, <1>2, <1>16
  <2>. HIDE DEF a, b
  <2>2. Silently(b)
    BY <1>0, <1>5, <1>6, <2>1, WriteEchoes DEF Silently
  <2>. QED BY <2>1, <2>2, BothSilent
<1>17. CASE pc = 27 + 3 * D
  <2>. DEFINE a == 27 + 3 * D
  <2>1. a \in Nat /\ a + 3 < 256 /\ a < 256 /\ BranchAt(mem, a, 64, a - (a + 3)) /\ pc = a
    BY <1>0, <1>1, <1>17
  <2>2. a # 43 + 4 * D
    BY <1>0
  <2>. HIDE DEF a
  <2>3. Silently(a)
    BY <1>5, <2>1, BranchEchoes
  <2>. QED BY <2>1, <2>2, <2>3, BothSilent
<1>18. CASE pc = 30 + 3 * D
  <2>. DEFINE b == 32 + 4 * D
  <2>1. /\ VsetAt(mem, pc, 0, 1) /\ b = pc + 2 + DwordBytes /\ 0 \in 0 .. 13 /\ 1 \in 0 .. 255
        /\ b # 43 + 4 * D /\ pc # 43 + 4 * D
    BY <1>0, <1>3, <1>18
  <2>. HIDE DEF b, i8, i9
  <2>2. Sets(0, 1, b)
    BY <1>5, <2>1, VsetEchoes, Zenon
  <2>. QED BY <2>1, <2>2, BothSilent DEF Sets
<1>19. CASE pc = 32 + 4 * D
  <2>. DEFINE a == 32 + 4 * D
              b == 35 + 4 * D
  <2>1. TwoAt(mem, a, 242, 0, 112) /\ b = a + 3 /\ b # 43 + 4 * D /\ a # 43 + 4 * D /\ pc = a
    BY <1>0, <1>3, <1>7, <1>19
  <2>. HIDE DEF a, b
  <2>2. Silently(b)
    BY <1>0, <1>5, <1>6, <2>1, WriteEchoes DEF Silently
  <2>. QED BY <2>1, <2>2, BothSilent
<1>20. CASE pc = 35 + 4 * D
  <2>. DEFINE a == 35 + 4 * D
              b == 39 + 4 * D
  <2>1. VcrlAt(mem, a, 272, 0) /\ b = a + 4 /\ b # 43 + 4 * D /\ a # 43 + 4 * D /\ pc = a
    BY <1>0, <1>3, <1>7, <1>20
  <2>. HIDE DEF a, b
  <2>2. Silently(b)
    BY <1>0, <1>5, <1>6, <2>1, LoadEchoes
  <2>. QED BY <2>1, <2>2, BothSilent
<1>21. CASE pc = 40 + 4 * D
  <2>1. /\ pc' = 43 + 4 * D /\ UNCHANGED stdout
        /\ \E c \in Byte : con_read' = Append(con_read, c) /\ r'[1] = c
    BY <1>0, <1>4, <1>5, <1>21, ReadEchoes
  <2>2. PICK c \in Byte : con_read' = Append(con_read, c) /\ r'[1] = c
    BY <2>1
  <2>3. Echoed(0)
    BY <1>0, <1>21 DEF BothEcho
  <2>4. Echoed(1)' /\ con_read'[Len(con_read')] = c
    BY <1>5, <2>1, <2>2, <2>3, EchoedRead
  <2>. QED BY <1>0, <2>1, <2>2, <2>4 DEF BothEcho
<1>22. CASE pc = 43 + 4 * D
  <2>1. pc' = 46 + 4 * D /\ UNCHANGED con_read /\ stdout' = Append(stdout, r[1] % 256)
    BY <1>0, <1>4, <1>5, <1>7, <1>22, WriteEchoes
  <2>2. Echoed(1) /\ r[1] = con_read[Len(con_read)]
    BY <1>0, <1>22 DEF BothEcho
  <2>3. r[1] \in Typable \cap Byte
    BY <1>5, <2>2, LastRead
  <2>4. r[1] % 256 = r[1]
    BY <2>3 DEF Byte
  <2>5. Echoed(0)'
    BY <1>5, <2>1, <2>2, <2>3, <2>4, EchoedWrite
  <2>6. pc' # 43 + 4 * D
    BY <1>0, <2>1
  <2>. QED BY <2>5, <2>6 DEF BothEcho
<1>23. CASE pc = 46 + 4 * D
  <2>. DEFINE b == 48 + 5 * D
  <2>1. /\ VsetAt(mem, pc, 0, 1) /\ b = pc + 2 + DwordBytes /\ 0 \in 0 .. 13 /\ 1 \in 0 .. 255
        /\ b # 43 + 4 * D /\ pc # 43 + 4 * D
    BY <1>0, <1>4, <1>7, <1>23
  <2>. HIDE DEF b, i8, i9
  <2>2. Sets(0, 1, b)
    BY <1>5, <2>1, VsetEchoes, Zenon
  <2>. QED BY <2>1, <2>2, BothSilent DEF Sets
<1>24. CASE pc = 48 + 5 * D
  <2>. DEFINE a == 48 + 5 * D
              b == 51 + 5 * D
  <2>1. TwoAt(mem, a, 242, 0, 34) /\ b = a + 3 /\ b # 43 + 4 * D /\ a # 43 + 4 * D /\ pc = a
    BY <1>0, <1>4, <1>7, <1>24
  <2>. HIDE DEF a, b
  <2>2. Silently(b)
    BY <1>0, <1>5, <1>6, <2>1, WriteEchoes DEF Silently
  <2>. QED BY <2>1, <2>2, BothSilent
<1>25. CASE pc = 51 + 5 * D
  <2>. DEFINE a == 51 + 5 * D
              b == 55 + 5 * D
  <2>1. VcrlAt(mem, a, 272, 0) /\ b = a + 4 /\ b # 43 + 4 * D /\ a # 43 + 4 * D /\ pc = a
    BY <1>0, <1>4, <1>7, <1>25
  <2>. HIDE DEF a, b
  <2>2. Silently(b)
    BY <1>0, <1>5, <1>6, <2>1, LoadEchoes
  <2>. QED BY <2>1, <2>2, BothSilent
<1>30. /\ Both.main = {24 + 3 * D, 27 + 3 * D}
       /\ Both.handler = {30 + 3 * D, 32 + 4 * D, 35 + 4 * D, 40 + 4 * D, 43 + 4 * D, 46 + 4 * D,
                          48 + 5 * D, 51 + 5 * D}
  BY DEF Both
<1>. HIDE DEF D
<1>. QED
  BY <1>8, <1>9, <1>10, <1>11, <1>12, <1>13, <1>14, <1>15, <1>16, <1>17, <1>18,
     <1>19, <1>20, <1>21, <1>22, <1>23, <1>24, <1>25, <1>30 DEF D

\* A step that executes no instruction prints nothing, and changes registers
\* only where it takes an interrupt.
LEMMA OtherSteps ==
  ASSUME [MachineNext]_machineVars, CpuTypeOK, ~ (Cpu /\ phase = "exec")
  PROVE  UNCHANGED <<stdout, con_read>> /\ (UNCHANGED r \/ TakeInterrupt \/ CrashOnInterrupt)
<1>1. CASE Boot \/ ConsoleThread \/ TimerThread \/ Clock \/ Leave \/ UNCHANGED machineVars
  <2>1. UNCHANGED <<r, stdout>>
    BY <1>1 DEF Boot, ConsoleThread, TimerThread, Clock, Leave, machineVars, cpuVars
  <2>2. CASE ConsoleThread
    BY <2>1, <2>2 DEF ConsoleThread, ConsoleWorker, ConsoleQuiet, ReadCharacter, EndOfInput,
       NewDataReady, NewDataTooEarly, RaiseConsole, ConsoleStops
  <2>3. CASE Boot
    BY <2>1, <2>3 DEF Boot, ConsoleBoot, conWorkerVars
  <2>4. CASE TimerThread \/ Clock \/ Leave \/ UNCHANGED machineVars
    BY <2>1, <2>4 DEF TimerThread, Clock, Leave, machineVars, conVars
  <2>. QED BY <1>1, <2>2, <2>3, <2>4
<1>2. CASE Cpu /\ phase = "fetch"
  <2>1. ~ VOUTB /\ ~ VINB
    BY <1>2 DEF VOUTB, VINB, Op
  <2>2. CpuStep /\ UNCHANGED <<stdout, con_read>>
    BY <1>2, <2>1 DEF Cpu, conVars
  <2>3. NoInterrupt \/ TakeInterrupt \/ CrashOnInterrupt
    BY <1>2, <2>2, FetchStep
  <2>. QED BY <2>2, <2>3 DEF NoInterrupt
<1>. QED BY <1>1, <1>2 DEF MachineNext, CpuTypeOK

LEMMA SetupTakesNothing ==
  ASSUME CpuTypeOK, NEW p, IsProgram(p), Calm(p),
         NEW a, NEW x, NEW y, NEW k8, NEW k9, NEW c, Row(a, x, y, k8, k9, c)
  PROVE  ~ TakeInterrupt /\ ~ CrashOnInterrupt
<1>. SUFFICES ASSUME phase = "fetch" PROVE ~ TakeInterrupt /\ ~ CrashOnInterrupt
  BY DEF TakeInterrupt, CrashOnInterrupt
<1>1. ~ MaskableEnabled
  BY DEF Row, MaskableEnabled
<1>. QED BY <1>1, CalmQuiet, QuietTakesNothing

\* Where a running program p is when it executes an instruction.
LEMMA WhereRunning ==
  ASSUME MachineInv, NEW p, Calm(p), Running(p), FifoDelivery, Cpu, phase = "exec",
         IsProgram(p)
  PROVE  /\ Reads(p.image)
         /\ pc \in p.main \cup p.handler \/ (InHandler(p) /\ Ends(p) /\ defered_queue = <<>>)
<1>1. /\ CpuTypeOK /\ ConsoleTypeOK /\ stdout \in Seq(Byte) /\ defered_queue = <<>>
      /\ ~ terminated /\ Loaded(mem, 0, p.image)
  BY DEF MachineInv, MachineTypeOK, QueuesOK, Calm, Running, Holds
<1>2. CASE OnMain(p)
  <2>1. PICK a \in p.main : r = RegsAt(p, a)
    BY <1>2 DEF OnMain
  <2>2. pc = a
    BY <2>1 DEF RegsAt, IsProgram, pc, Reg
  <2>3. Below(pc)
    BY <2>2 DEF Running, Holds, MainAt
  <2>. QED BY <1>1, <2>2, <2>3 DEF Reads, Executes
<1>3. CASE InHandler(p)
  <2>1. pc \in p.handler \/ Ends(p)
    BY <1>3 DEF InHandler, Serves, PutOff
  <2>2. Below(pc)
    BY <2>1 DEF Running, Holds, HandlerAt, EndAt, Ends
  <2>. QED BY <1>1, <1>3, <2>1, <2>2 DEF Reads, Executes
<1>. QED BY <1>2, <1>3 DEF Running

LEMMA ViretEchoes ==
  ASSUME MachineInv, NEW p, IsProgram(p), StackFits, Calm(p), Running(p), InHandler(p), Ends(p),
         Reads(p.image), defered_queue = <<>>
  PROVE  pc \in p.ends /\ \E b \in p.main : Silently(b)
<1>1. CpuTypeOK /\ Cpu /\ pc \in p.ends
  BY DEF Reads, Executes, Ends
<1>2. pc' \in p.main
  BY <1>1, EndsRun
<1>3. mem[pc] = 244
  BY <1>1 DEF Running, Holds, EndAt
<1>4. UNCHANGED <<stdout, con_read>>
  BY <1>3, SilentStep DEF Reads
<1>. QED BY <1>1, <1>2, <1>4 DEF Silently

LEMMA WhereSetUp ==
  ASSUME UsualRam, MachineInv, NEW p, Calm(p), FifoDelivery, Cpu, phase = "exec",
         NEW image, Loaded(mem, 0, image),
         NEW a \in Nat, a <= 150, NEW x, NEW y, NEW k8, NEW k9, NEW c, Row(a, x, y, k8, k9, c)
  PROVE  Reads(image) /\ pc = a
<1>1. pc = a /\ Below(a)
  BY RowStack, SmallBelow
<1>. QED BY <1>1 DEF MachineInv, MachineTypeOK, Calm, Reads, Executes

LEMMA ConsoleEchoNext ==
  ASSUME UsualRam, Prompt \cap Typable = {}, ConsoleRuns, FifoDelivery, ConsoleEcho,
         [MachineNext]_machineVars
  PROVE  ConsoleEcho'
<1>. DEFINE D == DwordBytes
<1>0. /\ D \in 1 .. 4 /\ MachineInv /\ CpuTypeOK /\ Calm(Console) /\ IsProgram(Console) /\ StackFits
      /\ ConsoleUp \/ Running(Console)
  BY DwordBytesAssumption, ConsoleIsProgram, UsualFits DEF ConsoleRuns, MachineInv, MachineTypeOK
<1>1. CASE ~ (Cpu /\ phase = "exec")
  <2>1. CASE UNCHANGED r
    <3>1. UNCHANGED <<stdout, con_read>>
      BY <1>0, <1>1, OtherSteps
    <3>2. \A k : Echoed(k) => Echoed(k)'
      BY <3>1, EchoedStays
    <3>. QED BY <2>1, <3>1, <3>2 DEF ConsoleEcho, pc
  <2>2. CASE TakeInterrupt \/ CrashOnInterrupt
    <3>1. Running(Console)
      BY <1>0, <2>2, SetupTakesNothing DEF ConsoleUp
    <3>2. pc' \in Console.starts /\ pc \in Console.main
      BY <1>0, <2>2, <3>1, NeverCrashes, TakeInterruptRuns
    <3>3. pc' \notin ConsolePrints /\ pc # 47 + 6 * D
      BY <1>0, <3>2 DEF Console, ConsolePrints
    <3>4. Silently(pc')
      BY <1>0, <1>1, OtherSteps DEF Silently
    <3>. QED BY <3>3, <3>4, ConsoleSilent
  <2>. QED BY <1>0, <1>1, <2>1, <2>2, OtherSteps
<1>2. CASE Cpu /\ phase = "exec" /\ ConsoleUp
  <2>1. Loaded(mem, 0, console_test)
    BY <1>2 DEF ConsoleUp
  <2>2. PICK a \in {0, 2 + D, 6 + D, 8 + 2 * D, 12 + 2 * D} :
          \E x, y, k8, k9, c : Row(a, x, y, k8, k9, c)
    BY <1>2 DEF ConsoleUp
  <2>3. a \in Nat /\ a <= 150
    BY <1>0, <2>2
  <2>4. Reads(console_test) /\ pc = a
    BY <1>0, <1>2, <2>1, <2>2, <2>3, WhereSetUp
  <2>. QED BY <2>2, <2>4, ConsoleEchoes
<1>3. CASE Cpu /\ phase = "exec" /\ Running(Console)
  <2>1. /\ Reads(Console.image)
        /\ \/ pc \in Console.main \cup Console.handler
           \/ InHandler(Console) /\ Ends(Console) /\ defered_queue = <<>>
    BY <1>0, <1>3, WhereRunning
  <2>2. Console.image = console_test
    BY DEF Console
  <2>3. CASE pc \in Console.main \cup Console.handler
    BY <2>1, <2>2, <2>3, ConsoleEchoes
  <2>4. CASE InHandler(Console) /\ Ends(Console) /\ defered_queue = <<>>
    <3>1. PICK b \in Console.main : Silently(b)
      BY <1>0, <1>3, <2>1, <2>4, ViretEchoes
    <3>2. pc \in Console.ends
      BY <1>0, <1>3, <2>1, <2>4, ViretEchoes
    <3>3. b \notin ConsolePrints /\ pc # 47 + 6 * D
      BY <1>0, <3>2 DEF Console, ConsolePrints
    <3>. QED BY <3>1, <3>3, ConsoleSilent
  <2>. QED BY <2>1, <2>3, <2>4
<1>. QED BY <1>0, <1>1, <1>2, <1>3

LEMMA BothEchoNext ==
  ASSUME UsualRam, BothRuns, FifoDelivery, BothEcho,
         [MachineNext]_machineVars
  PROVE  BothEcho'
<1>. DEFINE D == DwordBytes
<1>0. /\ D \in 1 .. 4 /\ MachineInv /\ CpuTypeOK /\ Calm(Both) /\ IsProgram(Both) /\ StackFits
      /\ BothUp \/ Running(Both)
  BY DwordBytesAssumption, BothIsProgram, UsualFits DEF BothRuns, MachineInv, MachineTypeOK
<1>1. CASE ~ (Cpu /\ phase = "exec")
  <2>1. CASE UNCHANGED r
    <3>1. UNCHANGED <<stdout, con_read>>
      BY <1>0, <1>1, OtherSteps
    <3>2. \A k : Echoed(k) => Echoed(k)'
      BY <3>1, EchoedStays
    <3>. QED BY <2>1, <3>1, <3>2 DEF BothEcho, pc
  <2>2. CASE TakeInterrupt \/ CrashOnInterrupt
    <3>1. Running(Both)
      BY <1>0, <2>2, SetupTakesNothing DEF BothUp
    <3>2. pc' \in Both.starts /\ pc \in Both.main
      BY <1>0, <2>2, <3>1, NeverCrashes, TakeInterruptRuns
    <3>3. pc' # 43 + 4 * D /\ pc # 43 + 4 * D
      BY <1>0, <3>2 DEF Both
    <3>4. Silently(pc')
      BY <1>0, <1>1, OtherSteps DEF Silently
    <3>. QED BY <3>3, <3>4, BothSilent
  <2>. QED BY <1>0, <1>1, <2>1, <2>2, OtherSteps
<1>2. CASE Cpu /\ phase = "exec" /\ BothUp
  <2>1. Loaded(mem, 0, both_test)
    BY <1>2 DEF BothUp
  <2>2. PICK a \in {0, 2 + D, 4 + 2 * D, 8 + 2 * D, 10 + 3 * D, 14 + 3 * D, 17 + 3 * D,
                    21 + 3 * D} :
          \E x, y, k8, k9, c : Row(a, x, y, k8, k9, c)
    BY <1>2 DEF BothUp
  <2>3. a \in Nat /\ a <= 150
    BY <1>0, <2>2
  <2>4. Reads(both_test) /\ pc = a
    BY <1>0, <1>2, <2>1, <2>2, <2>3, WhereSetUp
  <2>. QED BY <2>2, <2>4, BothEchoes
<1>3. CASE Cpu /\ phase = "exec" /\ Running(Both)
  <2>1. /\ Reads(Both.image)
        /\ \/ pc \in Both.main \cup Both.handler
           \/ InHandler(Both) /\ Ends(Both) /\ defered_queue = <<>>
    BY <1>0, <1>3, WhereRunning
  <2>2. Both.image = both_test
    BY DEF Both
  <2>3. CASE pc \in Both.main \cup Both.handler
    BY <2>1, <2>2, <2>3, BothEchoes
  <2>4. CASE InHandler(Both) /\ Ends(Both) /\ defered_queue = <<>>
    <3>1. PICK b \in Both.main : Silently(b)
      BY <1>0, <1>3, <2>1, <2>4, ViretEchoes
    <3>2. pc \in Both.ends
      BY <1>0, <1>3, <2>1, <2>4, ViretEchoes
    <3>3. b # 43 + 4 * D /\ pc # 43 + 4 * D
      BY <1>0, <3>2 DEF Both
    <3>. QED BY <3>1, <3>3, BothSilent
  <2>. QED BY <2>1, <2>3, <2>4
<1>. QED BY <1>0, <1>1, <1>2, <1>3

\* From the beginning on.  (A character of the prompt is not told apart from
\* the same character typed.)
GuestEchoes ==
  guest \in {"console", "both"} =>
    /\ FifoDelivery
    /\ guest = "console" /\ Prompt \cap Typable = {} => ConsoleEcho
    /\ guest = "both" => BothEcho

LEMMA GuestEchoesInit == ASSUME UsualRam, Init, GuestRuns PROVE GuestEchoes
<1>1. ASSUME guest \in {"console", "both"} PROVE GuestEchoes
  <2>1. PICK image : MachineInit(image)
    BY DEF Init
  <2>2. stdout = <<>> /\ con_read = <<>> /\ con_queue = <<>> /\ stdin = Typed /\ CpuInit(image)
    BY <2>1 DEF MachineInit, ConsoleInit
  <2>3. FifoDelivery
    <3>1. con_read \o con_queue = <<>> /\ <<>> \o Typed = Typed
      BY <2>2, EmptySeq, TypedAssumption
    <3>. QED BY <2>2, <3>1 DEF FifoDelivery
  <2>4. pc = 0
    BY <2>2, RowInit, RowStack
  <2>5. Echoed(0)
    <3>1. {m \in 1 .. 0 : stdout[m] \in Typable} = {}
      OBVIOUS
    <3>2. TypedIn(stdout, 0) = 0 /\ Len(stdout) = 0 /\ Len(con_read) = 0
      BY <2>2, <3>1, FS_EmptySet DEF TypedIn
    <3>. QED BY <3>2 DEF Echoed
  <2>6. ConsoleEcho /\ BothEcho
    BY <2>4, <2>5, DwordBytesAssumption DEF ConsoleEcho, BothEcho
  <2>. QED BY <2>3, <2>6 DEF GuestEchoes
<1>. QED BY <1>1 DEF GuestEchoes

LEMMA GuestEchoesNext ==
  ASSUME UsualRam, GuestRuns, GuestEchoes, [Next]_mcVars PROVE GuestEchoes'
<1>1. [MachineNext]_machineVars /\ UNCHANGED guest
  BY DEF Next, mcVars
<1>2. (Prompt \cap Typable = {})' <=> Prompt \cap Typable = {}
  OBVIOUS
<1>3. ASSUME guest \in {"console", "both"} PROVE FifoDelivery'
  <2>1. MachineInv /\ FifoDelivery
    BY <1>3 DEF GuestRuns, ConsoleRuns, BothRuns, GuestEchoes
  <2>. QED BY <1>1, <2>1, MachineConsole, FifoMoves DEF MachineInv, MachineTypeOK
<1>4. ASSUME guest = "console", Prompt \cap Typable = {} PROVE ConsoleEcho'
  BY <1>1, <1>4, ConsoleEchoNext DEF GuestRuns, GuestEchoes
<1>5. ASSUME guest = "both" PROVE BothEcho'
  BY <1>1, <1>5, BothEchoNext DEF GuestRuns, GuestEchoes
<1>. QED BY <1>1, <1>2, <1>3, <1>4, <1>5 DEF GuestEchoes

\* What console_test.nasm and the program that serves both devices write of
\* the user's characters is what the user typed: in its order, none left out
\* before another and none written twice, whenever the input comes and whatever
\* the interrupts do to the registers that carry it from VINB to VOUTB.
THEOREM GuestEchoFollowsInput ==
  ASSUME UsualRam
  PROVE  Spec => [](guest # "storm" /\ (guest = "console" => Prompt \cap Typable = {})
                      => EchoFollowsInput)
<1>1. Init /\ GuestRuns => GuestEchoes
  BY GuestEchoesInit
<1>2. GuestRuns /\ GuestEchoes /\ [Next]_mcVars => GuestEchoes'
  BY GuestEchoesNext
<1>3. ASSUME GuestRuns, GuestEchoes, guest # "storm", guest = "console" => Prompt \cap Typable = {}
      PROVE  EchoFollowsInput
  <2>1. CASE guest \in {"console", "both"}
    <3>1. FifoDelivery /\ ConsoleTypeOK /\ stdout \in Seq(Byte)
      BY <1>3, <2>1 DEF GuestRuns, ConsoleRuns, BothRuns, GuestEchoes, MachineInv, MachineTypeOK
    <3>2. Echoed(0) \/ Echoed(1)
      BY <1>3, <2>1 DEF GuestEchoes, ConsoleEcho, BothEcho
    <3>. QED BY <3>1, <3>2, EchoedFollows
  <2>2. CASE guest \notin {"console", "both"}
    BY <1>3, <2>2 DEF EchoFollowsInput, Handling
  <2>. QED BY <2>1, <2>2
<1>4. GuestRuns /\ GuestEchoes =>
        (guest # "storm" /\ (guest = "console" => Prompt \cap Typable = {}) => EchoFollowsInput)
  BY <1>3
<1>. QED BY <1>1, <1>2, <1>4, GuestAlways, PTL DEF Spec
=============================================================================
