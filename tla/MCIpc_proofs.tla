---------------------------- MODULE MCIpc_proofs ----------------------------
(***************************************************************************)
(* Proofs about the programs of MCIpc, for pipes and chunks of any size,   *)
(* output of any length, any clients, connections and requests of theirs.  *)
(* In a behaviour one program runs, and the invariant of each is kept by   *)
(* the steps of the others, which leave its variables alone.               *)
(***************************************************************************)
EXTENDS MCIpc, MCFormats_proofs

-----------------------------------------------------------------------------
(* pipe.c and pipe_select.c.                                               *)

\* What both pipes keep, whatever the parent does: nothing is shown that was
\* not written, and a child that has ended has written all.
PipesInv ==
  /\ total \in [W!Fd -> Nat] /\ written \in [W!Fd -> Nat] /\ shown \in [W!Fd -> Nat]
  /\ writers \in [W!Fd -> SUBSET {"parent", "child"}]
  /\ child \in {"running", "exited", "reaped"}
  /\ \A f \in W!Fd : shown[f] <= written[f] /\ written[f] <= total[f]
  /\ child # "running" => written = total
  /\ child = "running" => \A f \in W!Fd : "child" \in writers[f]

Beginning(f) == shown[f] = IF total[f] < Chunk THEN total[f] ELSE Chunk

\* pipe.c reads a pipe once, after the child has ended.
WaitInv ==
  /\ parent \in {"spawn", "wait", "out", "err", "ended"}
  /\ parent \in {"out", "err", "ended"} => child = "reaped"
  /\ parent \in {"spawn", "wait", "out"} => shown["out"] = 0
  /\ parent \in {"spawn", "wait", "out", "err"} => shown["err"] = 0
  /\ parent \in {"err", "ended"} => Beginning("out")
  /\ parent = "ended" => Beginning("err")

\* What pipe_select.c takes for the end of a pipe is its end.
SelectInv ==
  /\ no_more \subseteq W!Fd
  /\ \A f \in no_more : shown[f] = written[f] /\ writers[f] = {}
  /\ parent = "ended" => no_more = W!Fd

PipeProgramsInv ==
  /\ PipesInv
  /\ program = "pipe" => WaitInv
  /\ program = "pipe_select" => SelectInv

LEMMA PipesInit == Init => PipeProgramsInv
<1> SUFFICES ASSUME Init PROVE PipeProgramsInv
  OBVIOUS
<1>1. S!Init
  BY DEF Init
<1>2. MaxOutput \in Nat
  BY IpcAssumption
<1>3. \A k \in 0 .. MaxOutput : k \in Nat
  BY <1>2
<1>4. PipesInv
  BY <1>1, <1>3 DEF S!Init, S!SpawnInit, S!Fd, W!Fd, PipesInv
<1>5. WaitInv /\ SelectInv
  BY <1>1 DEF S!Init, S!SpawnInit, S!Fd, W!Fd, WaitInv, SelectInv
<1> QED BY <1>4, <1>5 DEF PipeProgramsInv

\* The child, under both programs.
LEMMA ChildKeepsPipes ==
  ASSUME PipesInv, W!ChildStep
  PROVE  /\ PipesInv' /\ UNCHANGED <<total, shown, parent>>
         /\ child = "running"
<1> USE DEF PipesInv, W!Fd
<1>1. CASE W!ChildExits /\ UNCHANGED parent
  BY <1>1 DEF W!ChildExits
<1>2. ASSUME NEW f \in W!Fd, W!ChildWrites(f), UNCHANGED parent
      PROVE  PipesInv' /\ UNCHANGED <<total, shown, parent>> /\ child = "running"
  BY <1>2 DEF W!ChildWrites
<1> QED BY <1>1, <1>2 DEF W!ChildStep

\* Taking from a pipe.
LEMMA TakeShows ==
  ASSUME PipesInv, NEW f \in W!Fd, W!TakeFrom(f)
  PROVE  /\ shown' \in [W!Fd -> Nat]
         /\ shown'[f] = IF written[f] - shown[f] < Chunk THEN written[f] ELSE shown[f] + Chunk
         /\ shown[f] <= shown'[f] /\ shown'[f] <= written[f]
         /\ \A g \in W!Fd : g # f => shown'[g] = shown[g]
<1>1. Chunk \in Nat
  BY IpcAssumption
<1> QED BY <1>1 DEF PipesInv, W!TakeFrom

LEMMA WaitStep ==
  ASSUME PipesInv, WaitInv, W!Next
  PROVE  PipesInv' /\ WaitInv'
<1>1. CASE W!ChildStep
  <2>1. PipesInv' /\ UNCHANGED <<total, shown, parent>> /\ child = "running"
    BY <1>1, ChildKeepsPipes
  <2> QED BY <2>1 DEF WaitInv, Beginning
<1>2. CASE W!Spawned("wait")
  BY <1>2 DEF W!Spawned, W!Fd, PipesInv, WaitInv
<1>3. CASE W!WaitPid
  BY <1>3 DEF W!WaitPid, W!Fd, PipesInv, WaitInv
<1>4. ASSUME NEW f \in W!Fd, NEW next \in {"err", "ended"}, W!Splice(f, next),
             (f = "out") <=> (next = "err")
      PROVE  PipesInv' /\ WaitInv'
  <2>1. /\ parent = f /\ parent' = next /\ W!TakeFrom(f)
        /\ UNCHANGED <<total, written, writers, child>>
    BY <1>4 DEF W!Splice
  <2>2. /\ shown' \in [W!Fd -> Nat]
        /\ shown'[f] = IF written[f] - shown[f] < Chunk THEN written[f] ELSE shown[f] + Chunk
        /\ shown[f] <= shown'[f] /\ shown'[f] <= written[f]
        /\ \A g \in W!Fd : g # f => shown'[g] = shown[g]
    BY <2>1, TakeShows
  <2>3. PipesInv'
    BY <2>1, <2>2 DEF PipesInv, W!Fd
  <2>4. shown[f] = 0 /\ written = total /\ child = "reaped"
    BY <1>4, <2>1 DEF WaitInv, PipesInv, W!Fd
  <2>5. Beginning(f)'
    <3>1. Chunk \in Nat /\ written[f] \in Nat
      BY IpcAssumption DEF PipesInv
    <3>2. shown'[f] = IF total[f] < Chunk THEN total[f] ELSE Chunk
      BY <2>2, <2>4, <3>1
    <3> QED BY <2>1, <3>2 DEF Beginning
  <2> QED BY <1>4, <2>1, <2>2, <2>3, <2>4, <2>5 DEF WaitInv, Beginning, W!Fd
<1>5. CASE W!Splice("out", "err")
  BY <1>4, <1>5 DEF W!Fd
<1>6. CASE W!Splice("err", "ended")
  BY <1>4, <1>6 DEF W!Fd
<1> QED BY <1>1, <1>2, <1>3, <1>5, <1>6 DEF W!Next, W!ParentStep

\* The child's steps are the same in both instances.
LEMMA SameChild == S!ChildStep <=> W!ChildStep
BY DEF S!ChildStep, W!ChildStep, S!ChildExits, W!ChildExits, S!ChildWrites, W!ChildWrites,
       S!Fd, W!Fd

LEMMA SelectStep ==
  ASSUME PipesInv, SelectInv, S!Next
  PROVE  PipesInv' /\ SelectInv'
<1> USE DEF S!Fd, W!Fd
<1>1. CASE S!ChildStep /\ UNCHANGED <<child_exited, no_more, read_fds>>
  <2>1. PipesInv' /\ UNCHANGED <<total, shown, parent>> /\ child = "running"
    BY <1>1, SameChild, ChildKeepsPipes
  <2>2. no_more = {}
    BY <2>1 DEF PipesInv, SelectInv
  <2> QED BY <1>1, <2>1, <2>2 DEF SelectInv
<1>2. CASE S!SpawnProcess
  BY <1>2 DEF S!SpawnProcess, S!Spawned, PipesInv, SelectInv
<1>3. CASE S!LoopEnds
  BY <1>3 DEF S!LoopEnds, S!childVars, PipesInv, SelectInv
<1>4. CASE S!WaitPid
  BY <1>4 DEF S!WaitPid, PipesInv, SelectInv
<1>5. CASE S!Select
  BY <1>5 DEF S!Select, S!childVars, PipesInv, SelectInv
<1>6. ASSUME NEW f \in W!Fd, NEW next \in {"err", "loop"}, S!ReadPipe(f, next)
      PROVE  PipesInv' /\ SelectInv'
  <2>1. /\ parent' = next /\ UNCHANGED <<total, written, writers, child>>
    BY <1>6 DEF S!ReadPipe
  <2>2. /\ shown' \in [W!Fd -> Nat]
        /\ shown[f] <= shown'[f] /\ shown'[f] <= written[f]
        /\ \A g \in W!Fd : g # f => shown'[g] = shown[g]
    <3>1. CASE f \in read_fds
      <4>1. W!TakeFrom(f)
        BY <1>6, <3>1 DEF S!ReadPipe, S!TakeFrom, W!TakeFrom
      <4> QED BY <4>1, TakeShows
    <3>2. CASE f \notin read_fds
      BY <1>6, <3>2 DEF S!ReadPipe, PipesInv
    <3> QED BY <3>1, <3>2
  <2>3. PipesInv'
    BY <2>1, <2>2 DEF PipesInv
  <2>4. \A g \in no_more \cup {f} : g \in no_more' => shown[g] = written[g] /\ writers[g] = {}
    BY <1>6 DEF S!ReadPipe, S!AtEnd, SelectInv
  <2>5. no_more' \subseteq no_more \cup {f}
    BY <1>6 DEF S!ReadPipe
  <2>6. \A g \in no_more' : shown'[g] = written'[g] /\ writers'[g] = {}
    BY <2>1, <2>2, <2>4, <2>5 DEF SelectInv, PipesInv
  <2> QED BY <2>1, <2>3, <2>5, <2>6 DEF SelectInv
<1> QED BY <1>1, <1>2, <1>3, <1>4, <1>5, <1>6 DEF S!Next, S!ParentStep

\* Every step of every program.
LEMMA PipesStep ==
  ASSUME PipeProgramsInv, [Next]_vars
  PROVE  PipeProgramsInv'
<1> USE DEF PipeProgramsInv
<1>1. CASE WaitSteps(W!Next)
  <2>1. PipesInv' /\ WaitInv' /\ program' = "pipe"
    BY <1>1, WaitStep DEF WaitSteps, OnlyIn
  <2> QED BY <2>1
<1>2. CASE SelectSteps(S!Next)
  <2>1. PipesInv' /\ SelectInv' /\ program' = "pipe_select"
    BY <1>2, SelectStep DEF SelectSteps, OnlyIn
  <2> QED BY <2>1
<1>3. CASE UNCHANGED <<program, pipeVars, selectVars>>
  BY <1>3 DEF pipeVars, selectVars, PipesInv, WaitInv, Beginning, SelectInv
<1>4. CASE PoolSteps(P!Next)
  BY <1>3, <1>4 DEF PoolSteps, OnlyIn
<1>5. CASE CalcSteps(C!Next)
  BY <1>3, <1>5 DEF CalcSteps, OnlyIn
<1>6. CASE ServerSteps(H!Next)
  BY <1>3, <1>6 DEF ServerSteps, OnlyIn
<1>7. CASE FormatSteps(FormatNext(program))
  BY <1>3, <1>7 DEF FormatSteps
<1>8. CASE UNCHANGED vars
  BY <1>3, <1>8 DEF vars
<1> QED BY <1>1, <1>2, <1>4, <1>5, <1>6, <1>7, <1>8 DEF Next

\* The parent of pipe.c shows the beginning of what its child has written to
\* each pipe, and the parent of pipe_select.c, which stops only at the end of
\* both pipes, all of it: however the child's writing and exit fall between the
\* polls, and whatever the pipes and the buffer hold.
THEOREM OutputGetsShown == FairSpec => []OutputIsShown
<1>1. PipeProgramsInv => OutputIsShown
  <2>1. PipesInv /\ SelectInv => S!ShowsAll
    <3> SUFFICES ASSUME PipesInv, SelectInv, parent = "ended" PROVE shown = total
      BY DEF S!ShowsAll
    <3>1. \A f \in W!Fd : shown[f] = written[f] /\ "child" \notin writers[f]
      BY DEF SelectInv
    <3>2. written = total
      BY <3>1 DEF PipesInv, W!Fd
    <3> QED BY <3>1, <3>2 DEF PipesInv
  <2>2. WaitInv => W!ShowsOneChunk
    BY DEF WaitInv, Beginning, W!ShowsOneChunk, W!Fd
  <2> QED BY <2>1, <2>2 DEF PipeProgramsInv, OutputIsShown
<1> QED BY <1>1, PipesInit, PipesStep, PTL DEF FairSpec

-----------------------------------------------------------------------------
(* What FoldLeft does.  It is defined by recursion over the sets of the    *)
(* positions that are left, the last of them first: there is a function    *)
(* that fits this recursion, and so the chosen one does.                   *)
Folds(g, n, base, step) ==
  g = [s \in SUBSET (1 .. n) |-> IF s = {} THEN base ELSE step[C!Max(s)][g[s \ {C!Max(s)}]]]

LEMMA MaxIsLast ==
  ASSUME NEW k \in Nat, NEW s \in SUBSET (1 .. k + 1), k + 1 \in s
  PROVE  C!Max(s) = k + 1
<1>1. \E x \in s : \A y \in s : x >= y
  <2>1. \A y \in s : k + 1 >= y
    OBVIOUS
  <2> QED BY <2>1
<1>2. C!Max(s) \in s /\ \A y \in s : C!Max(s) >= y
  BY <1>1 DEF C!Max
<1>3. C!Max(s) \in 1 .. k + 1 /\ C!Max(s) >= k + 1
  BY <1>2
<1> QED BY <1>3

LEMMA FoldExists ==
  ASSUME NEW R, NEW base \in R, NEW n \in Nat, NEW step \in [1 .. n -> [R -> R]]
  PROVE  \E g \in [SUBSET (1 .. n) -> R] : Folds(g, n, base, step)
<1> DEFINE Holds(k) == \E g \in [SUBSET (1 .. k) -> R] : Folds(g, k, base, step)
           Reached == {k \in Nat : k <= n => Holds(k)}
<1>1. Holds(0)
  <2> DEFINE g == [s \in SUBSET (1 .. 0) |-> base]
  <2>1. \A s \in SUBSET (1 .. 0) : s = {}
    OBVIOUS
  <2>2. g \in [SUBSET (1 .. 0) -> R] /\ Folds(g, 0, base, step)
    BY <2>1 DEF Folds
  <2> HIDE DEF g
  <2> QED BY <2>2
<1>2. ASSUME NEW k \in Nat, k + 1 <= n, Holds(k) PROVE Holds(k + 1)
  <2>1. PICK g \in [SUBSET (1 .. k) -> R] : Folds(g, k, base, step)
    BY <1>2
  <2> DEFINE h == [s \in SUBSET (1 .. k + 1) |->
                     IF k + 1 \in s THEN step[k + 1][g[s \ {k + 1}]] ELSE g[s]]
  <2>2. \A s \in SUBSET (1 .. k + 1) :
          (k + 1 \notin s => s \in SUBSET (1 .. k)) /\ s \ {k + 1} \in SUBSET (1 .. k)
    OBVIOUS
  <2>3. h \in [SUBSET (1 .. k + 1) -> R]
    <3>1. step[k + 1] \in [R -> R]
      BY <1>2
    <3> QED BY <2>1, <2>2, <3>1
  <2>4. ASSUME NEW s \in SUBSET (1 .. k + 1)
        PROVE  h[s] = IF s = {} THEN base ELSE step[C!Max(s)][h[s \ {C!Max(s)}]]
    <3>1. CASE k + 1 \in s
      <4>1. C!Max(s) = k + 1
        BY <3>1, MaxIsLast
      <4>2. s \ {k + 1} \in SUBSET (1 .. k + 1) /\ h[s \ {k + 1}] = g[s \ {k + 1}]
        BY <2>2
      <4> QED BY <3>1, <4>1, <4>2
    <3>2. CASE k + 1 \notin s
      <4>1. s \in SUBSET (1 .. k) /\ s \ {C!Max(s)} \in SUBSET (1 .. k)
        BY <2>2, <3>2
      <4>2. h[s] = g[s]
        BY <3>2
      <4>3. h[s \ {C!Max(s)}] = g[s \ {C!Max(s)}]
        BY <3>2, <4>1
      <4> HIDE DEF h
      <4> QED BY <2>1, <4>1, <4>2, <4>3 DEF Folds
    <3> QED BY <3>1, <3>2
  <2>5. Folds(h, k + 1, base, step)
    <3>1. h = [s \in SUBSET (1 .. k + 1) |-> h[s]]
      OBVIOUS
    <3> HIDE DEF h
    <3> QED BY <2>4, <3>1 DEF Folds
  <2> HIDE DEF h
  <2> QED BY <2>3, <2>5
<1> HIDE DEF Holds
<1>3. Reached \in SUBSET Nat /\ 0 \in Reached /\ \A k \in Reached : k + 1 \in Reached
  BY <1>1, <1>2
<1> HIDE DEF Reached
<1>4. Reached = Nat
  BY <1>3, Induction
<1>5. Holds(n)
  BY <1>4 DEF Reached
<1> QED BY <1>5 DEF Holds

LEMMA MaxOfPrefix ==
  ASSUME NEW n \in Nat, NEW k \in 1 .. n
  PROVE  /\ 1 .. k \in SUBSET (1 .. n) /\ 1 .. k # {}
         /\ C!Max(1 .. k) = k /\ (1 .. k) \ {k} = 1 .. k - 1
<1>1. k \in 1 .. k /\ 1 .. k \in SUBSET (1 .. (k - 1) + 1) /\ (k - 1) + 1 = k /\ k - 1 \in Nat
  OBVIOUS
<1>2. C!Max(1 .. k) = k
  BY <1>1, MaxIsLast
<1>3. (1 .. k) \ {k} = 1 .. k - 1
  OBVIOUS
<1> QED BY <1>1, <1>2, <1>3

LEMMA MaxIsIn == ASSUME NEW n \in Nat PROVE \A s \in SUBSET (1 .. n) : s # {} => C!Max(s) \in s
<1> DEFINE Holds(k) == \A s \in SUBSET (1 .. k) : s # {} => C!Max(s) \in s
           Reached == {k \in Nat : Holds(k)}
<1>1. Holds(0)
  <2>1. 1 .. 0 = {}
    OBVIOUS
  <2> QED BY <2>1
<1>2. ASSUME NEW k \in Nat, Holds(k), NEW s \in SUBSET (1 .. k + 1), s # {} PROVE C!Max(s) \in s
  <2>1. CASE k + 1 \in s
    BY <2>1, MaxIsLast
  <2>2. CASE k + 1 \notin s
    <3>1. s \in SUBSET (1 .. k)
      BY <2>2
    <3> QED BY <1>2, <3>1
  <2> QED BY <2>1, <2>2
<1>3. \A k \in Nat : Holds(k) => Holds(k + 1)
  BY <1>2
<1> HIDE DEF Holds
<1>4. Reached \in SUBSET Nat /\ 0 \in Reached /\ \A k \in Reached : k + 1 \in Reached
  BY <1>1, <1>3
<1> HIDE DEF Reached
<1>5. Reached = Nat
  BY <1>4, Induction
<1>6. Holds(n)
  BY <1>5 DEF Reached
<1> QED BY <1>6 DEF Holds

-----------------------------------------------------------------------------
(* Division and remainder.                                                 *)
LEMMA DivMod == ASSUME NEW a \in Nat, NEW m \in Nat \ {0}
  PROVE /\ a \div m \in Nat /\ a % m \in 0 .. m - 1 /\ a = m * (a \div m) + (a % m)
OBVIOUS
LEMMA Unique == ASSUME NEW m \in Nat \ {0}, NEW q \in Nat, NEW r \in 0 .. m - 1
  PROVE  (m * q + r) \div m = q /\ (m * q + r) % m = r
<1> DEFINE a == m * q + r
<1>1. a \in Nat 
  OBVIOUS
<1>2. a = m * (a \div m) + (a % m) /\ a \div m \in Nat /\ a % m \in 0 .. m-1
  BY <1>1, DivMod
<1>3. ASSUME a \div m < q PROVE FALSE
  <2>1. (a \div m) + 1 <= q BY <1>2, <1>3
  <2>2. m * ((a \div m) + 1) <= m * q BY <2>1, <1>2
  <2> QED BY <2>2, <1>2
<1>4. ASSUME a \div m > q PROVE FALSE
  <2>1. (a \div m) >= q + 1 BY <1>2, <1>4
  <2>2. m * (a \div m) >= m * (q + 1) BY <2>1, <1>2
  <2> QED BY <2>2, <1>2
<1>5. a \div m = q 
  BY <1>2, <1>3, <1>4
<1> QED BY <1>2, <1>5
LEMMA Congruent == ASSUME NEW m \in Nat \ {0}, NEW a \in Nat, NEW k \in Nat
  PROVE  (m * k + a) % m = a % m
<1> DEFINE q == a \div m   r == a % m
<1>1. q \in Nat /\ r \in 0 .. m - 1 /\ a = m * q + r
  BY DivMod
<1> HIDE DEF q, r
<1>2. m * k + a = m * (k + q) + r /\ k + q \in Nat
  BY <1>1
<1>3. (m * (k + q) + r) % m = r
  BY <1>1, <1>2, Unique
<1> QED BY <1>2, <1>3 DEF r
LEMMA SumMod == ASSUME NEW m \in Nat \ {0}, NEW a \in Nat, NEW d \in Nat
  PROVE  ((a % m) + d) % m = (a + d) % m
<1> DEFINE q == a \div m   r == a % m
<1>1. q \in Nat /\ r \in Nat /\ a = m * q + r
  BY DivMod
<1> HIDE DEF q, r
<1>2. a + d = m * q + (r + d) /\ r + d \in Nat
  BY <1>1
<1>3. (m * q + (r + d)) % m = (r + d) % m
  BY <1>1, <1>2, Congruent
<1> QED BY <1>2, <1>3 DEF r
LEMMA ProductMod == ASSUME NEW m \in Nat \ {0}, NEW a \in Nat, NEW d \in Nat
  PROVE  ((a % m) * d) % m = (a * d) % m
<1> DEFINE q == a \div m   r == a % m
<1>1. q \in Nat /\ r \in Nat /\ a = m * q + r
  BY DivMod
<1> HIDE DEF q, r
<1>2. a * d = m * (q * d) + r * d /\ q * d \in Nat /\ r * d \in Nat
  BY <1>1
<1>3. (m * (q * d) + r * d) % m = (r * d) % m
  BY <1>1, <1>2, Congruent
<1> QED BY <1>2, <1>3 DEF r
LEMMA DivDiv == ASSUME NEW h \in Nat, NEW p \in Nat \ {0}, NEW d \in Nat \ {0}
  PROVE  (h \div p) \div d = h \div (p * d)
<1> DEFINE q == h \div p   r == h % p  t == q \div d  s == q % d
<1>1. q \in Nat /\ r \in 0 .. p - 1 /\ h = p * q + r
  BY DivMod
<1>2. t \in Nat /\ s \in 0 .. d - 1 /\ q = d * t + s
  BY <1>1, DivMod
<1> HIDE DEF q, r, t, s
<1>3. h = (p * d) * t + (p * s + r)
  <2>1. p * q = p * (d * t) + p * s
    BY <1>1, <1>2
  <2>2. p * (d * t) = (p * d) * t
    BY <1>2
  <2> QED BY <1>1, <1>2, <2>1, <2>2
<1>4. p * s + r \in 0 .. (p * d) - 1
  <2>1. p * s <= p * (d - 1) /\ p * s \in Nat
    BY <1>2
  <2>2. p * (d - 1) = (p * d) - p
    OBVIOUS
  <2> QED BY <1>1, <1>2, <2>1, <2>2
<1>5. p * d \in Nat \ {0}
  OBVIOUS
<1>6. h \div (p * d) = t
  BY <1>2, <1>3, <1>4, <1>5, Unique
<1> QED BY <1>6 DEF t, q

-----------------------------------------------------------------------------
(* Calc.                                                                   *)

\* A loop of Calc has a value after each number, and so has the fold of what
\* was asked for.
LEMMA LoopRepeats ==
  ASSUME NEW op, NEW first \in Nat, NEW numbers \in Seq(Nat),
         \A r \in Nat, k \in 1 .. Len(numbers) : C!Unsigned(op, r, numbers[k]) \in Nat
  PROVE  \E f : /\ f[0] = first
                /\ \A k \in 1 .. Len(numbers) : f[k] = C!Unsigned(op, f[k - 1], numbers[k])
                /\ f[Len(numbers)] = C!Loop(op, first, numbers)
<1> DEFINE n == Len(numbers)
           step == [k \in 1 .. n |-> [r \in Nat |-> C!Unsigned(op, r, numbers[k])]]
           G(g) == g = [s \in SUBSET (1 .. n) |->
                          IF s = {} THEN first
                          ELSE C!Unsigned(op, g[s \ {C!Max(s)}], numbers[C!Max(s)])]
           fold == CHOOSE g : G(g)
           f == [k \in 0 .. n |-> fold[1 .. k]]
<1>1. n \in Nat /\ DOMAIN numbers = 1 .. n /\ step \in [1 .. n -> [Nat -> Nat]]
  OBVIOUS
<1>2. G(fold)
  <2>1. PICK g \in [SUBSET (1 .. n) -> Nat] : Folds(g, n, first, step)
    <3> HIDE DEF n, step
    <3> QED BY <1>1, FoldExists
  <2>2. \A s \in SUBSET (1 .. n) : s # {} => C!Max(s) \in 1 .. n /\ g[s \ {C!Max(s)}] \in Nat
    BY <1>1, <2>1, MaxIsIn
  <2>3. G(g)
    BY <2>1, <2>2 DEF Folds
  <2> HIDE DEF G
  <2> QED BY <2>3
<1>3. C!Loop(op, first, numbers) = fold[1 .. n]
  BY <1>1 DEF C!Loop, C!FoldLeft, C!MapThenFoldSet
<1> HIDE DEF fold
<1>4. fold[1 .. 0] = first
  <2>1. 1 .. 0 = {}
    OBVIOUS
  <2> QED BY <1>2, <2>1
<1>5. ASSUME NEW k \in 1 .. n PROVE fold[1 .. k] = C!Unsigned(op, fold[1 .. k - 1], numbers[k])
  <2>1. /\ 1 .. k \in SUBSET (1 .. n) /\ 1 .. k # {} /\ C!Max(1 .. k) = k
        /\ (1 .. k) \ {k} = 1 .. k - 1
    <3> HIDE DEF n
    <3> QED BY <1>1, MaxOfPrefix
  <2> HIDE DEF n
  <2> QED BY <1>2, <2>1
<1>6. /\ f[0] = first
      /\ \A k \in 1 .. n : f[k] = C!Unsigned(op, f[k - 1], numbers[k])
      /\ f[n] = fold[1 .. n]
  BY <1>1, <1>4, <1>5
<1> HIDE DEF f
<1> QED BY <1>3, <1>6

LEMMA WholeRepeats ==
  ASSUME NEW op, NEW first \in Nat, NEW numbers \in Seq(Nat)
  PROVE  \E f : /\ f[0] = first
                /\ \A k \in 1 .. Len(numbers) :
                     f[k] = IF op = "SUM" THEN f[k - 1] + numbers[k] ELSE f[k - 1] * numbers[k]
                /\ f[Len(numbers)] = C!Whole(op, first, numbers)
<1> DEFINE n == Len(numbers)
           step == [k \in 1 .. n |->
                       [r \in Nat |-> IF op = "SUM" THEN r + numbers[k] ELSE r * numbers[k]]]
           G(g) == g = [s \in SUBSET (1 .. n) |->
                          IF s = {} THEN first
                          ELSE IF op = "SUM" THEN g[s \ {C!Max(s)}] + numbers[C!Max(s)]
                               ELSE g[s \ {C!Max(s)}] * numbers[C!Max(s)]]
           fold == CHOOSE g : G(g)
           f == [k \in 0 .. n |-> fold[1 .. k]]
<1>1. n \in Nat /\ DOMAIN numbers = 1 .. n /\ step \in [1 .. n -> [Nat -> Nat]]
  OBVIOUS
<1>2. G(fold)
  <2>1. PICK g \in [SUBSET (1 .. n) -> Nat] : Folds(g, n, first, step)
    <3> HIDE DEF n, step
    <3> QED BY <1>1, FoldExists
  <2>2. \A s \in SUBSET (1 .. n) : s # {} => C!Max(s) \in 1 .. n /\ g[s \ {C!Max(s)}] \in Nat
    BY <1>1, <2>1, MaxIsIn
  <2>3. G(g)
    BY <2>1, <2>2 DEF Folds
  <2> HIDE DEF G
  <2> QED BY <2>3
<1>3. C!Whole(op, first, numbers) = fold[1 .. n]
  BY <1>1 DEF C!Whole, C!FoldLeft, C!MapThenFoldSet
<1> HIDE DEF fold
<1>4. fold[1 .. 0] = first
  <2>1. 1 .. 0 = {}
    OBVIOUS
  <2> QED BY <1>2, <2>1
<1>5. ASSUME NEW k \in 1 .. n
      PROVE  fold[1 .. k] =
                IF op = "SUM" THEN fold[1 .. k - 1] + numbers[k] ELSE fold[1 .. k - 1] * numbers[k]
  <2>1. /\ 1 .. k \in SUBSET (1 .. n) /\ 1 .. k # {} /\ C!Max(1 .. k) = k
        /\ (1 .. k) \ {k} = 1 .. k - 1
    <3> HIDE DEF n
    <3> QED BY <1>1, MaxOfPrefix
  <2> HIDE DEF n
  <2> QED BY <1>2, <2>1
<1>6. /\ f[0] = first
      /\ \A k \in 1 .. n : f[k] = IF op = "SUM" THEN f[k - 1] + numbers[k] ELSE f[k - 1] * numbers[k]
      /\ f[n] = fold[1 .. n]
  BY <1>1, <1>4, <1>5
<1> HIDE DEF f
<1> QED BY <1>3, <1>6

\* Calc computes what is asked for, however many numbers there are: modulo the
\* width after each number is modulo the width at the end, dividing by one
\* number after the other is dividing by their product, and that is 0 as soon
\* as one of them is.
LEMMA CalcIsAsked ==
  ASSUME NEW op, NEW numbers \in Seq(Nat)
  PROVE  C!Calc(op, numbers) = C!Asked([op |-> op, data |-> numbers])
<1> DEFINE n == Len(numbers)
<1>1. Modulus \in Nat \ {0, 1} /\ n \in Nat /\ \A k \in 1 .. n : numbers[k] \in Nat
  BY IpcAssumption
<1>2. CASE op = "SUM"
  <2>1. /\ numbers \in Seq(Nat) /\ 0 \in Nat
        /\ \A r \in Nat, k \in 1 .. Len(numbers) : C!Unsigned(op, r, numbers[k]) \in Nat
    BY <1>1, <1>2, DivMod DEF C!Unsigned
  <2>2. PICK f : /\ f[0] = 0
                 /\ \A k \in 1 .. Len(numbers) : f[k] = C!Unsigned(op, f[k - 1], numbers[k])
                 /\ f[Len(numbers)] = C!Loop(op, 0, numbers)
    BY <2>1, LoopRepeats
  <2>3. PICK w : /\ w[0] = 0 /\ w[n] = C!Whole(op, 0, numbers)
                 /\ \A k \in 1 .. n : w[k] = w[k - 1] + numbers[k]
    BY <1>2, WholeRepeats
  <2> DEFINE T == {k \in 0 .. n : w[k] \in Nat /\ f[k] = w[k] % Modulus}
  <2>4. 0 \in T
    BY <1>1, <2>2, <2>3
  <2>5. ASSUME NEW k \in 1 .. n, k - 1 \in T PROVE k \in T
    <3>1. w[k - 1] \in Nat /\ f[k - 1] = w[k - 1] % Modulus
      BY <2>5
    <3>2. w[k] = w[k - 1] + numbers[k] /\ f[k] = (f[k - 1] + numbers[k]) % Modulus
      BY <1>2, <2>2, <2>3 DEF C!Unsigned
    <3>3. ((w[k - 1] % Modulus) + numbers[k]) % Modulus = (w[k - 1] + numbers[k]) % Modulus
      BY <1>1, <3>1, SumMod
    <3>4. w[k - 1] + numbers[k] \in Nat
      BY <1>1, <3>1
    <3> QED BY <3>1, <3>2, <3>3, <3>4
  <2>6. n \in T
    <3> HIDE DEF T, n
    <3> QED BY <1>1, <2>4, <2>5, UpTo
  <2>7. C!Loop(op, 0, numbers) = C!Whole(op, 0, numbers) % Modulus
    BY <2>2, <2>3, <2>6
  <2> QED BY <1>2, <2>7 DEF C!Calc, C!Asked
<1>3. CASE op = "MUL"
  <2>1. /\ numbers \in Seq(Nat) /\ 1 \in Nat
        /\ \A r \in Nat, k \in 1 .. Len(numbers) : C!Unsigned(op, r, numbers[k]) \in Nat
    BY <1>1, <1>3, DivMod DEF C!Unsigned
  <2>2. PICK f : /\ f[0] = 1
                 /\ \A k \in 1 .. Len(numbers) : f[k] = C!Unsigned(op, f[k - 1], numbers[k])
                 /\ f[Len(numbers)] = C!Loop(op, 1, numbers)
    BY <2>1, LoopRepeats
  <2>3. PICK w : /\ w[0] = 1 /\ w[n] = C!Whole(op, 1, numbers)
                 /\ \A k \in 1 .. n : w[k] = w[k - 1] * numbers[k]
    BY <1>3, WholeRepeats
  <2> DEFINE T == {k \in 0 .. n : w[k] \in Nat /\ f[k] = w[k] % Modulus}
  <2>4. 0 \in T
    BY <1>1, <2>2, <2>3
  <2>5. ASSUME NEW k \in 1 .. n, k - 1 \in T PROVE k \in T
    <3>1. w[k - 1] \in Nat /\ f[k - 1] = w[k - 1] % Modulus
      BY <2>5
    <3>2. w[k] = w[k - 1] * numbers[k] /\ f[k] = (f[k - 1] * numbers[k]) % Modulus
      BY <1>3, <2>2, <2>3 DEF C!Unsigned
    <3>3. ((w[k - 1] % Modulus) * numbers[k]) % Modulus = (w[k - 1] * numbers[k]) % Modulus
      BY <1>1, <3>1, ProductMod
    <3>4. w[k - 1] * numbers[k] \in Nat
      BY <1>1, <3>1
    <3> QED BY <3>1, <3>2, <3>3, <3>4
  <2>6. n \in T
    <3> HIDE DEF T, n
    <3> QED BY <1>1, <2>4, <2>5, UpTo
  <2>7. C!Loop(op, 1, numbers) = C!Whole(op, 1, numbers) % Modulus
    BY <2>2, <2>3, <2>6
  <2> QED BY <1>3, <2>7 DEF C!Calc, C!Asked
<1>4. CASE op = "DIV" /\ numbers # <<>>
  <2> DEFINE h == Head(numbers)   rest == Tail(numbers)   m == Len(rest)
  <2>1. /\ h \in Nat /\ rest \in Seq(Nat) /\ m \in Nat /\ m = n - 1
        /\ \A k \in 1 .. m : rest[k] \in Nat /\ rest[k] = numbers[k + 1]
    BY <1>4
  <2>2. PICK w : /\ w[0] = 1 /\ w[m] = C!Whole("MUL", 1, rest)
                 /\ \A k \in 1 .. m : w[k] = w[k - 1] * rest[k]
    <3>1. 1 \in Nat
      OBVIOUS
    <3> HIDE DEF rest, h
    <3>2. \E w : /\ w[0] = 1
                 /\ \A k \in 1 .. Len(rest) :
                      w[k] = IF "MUL" = "SUM" THEN w[k - 1] + rest[k] ELSE w[k - 1] * rest[k]
                 /\ w[Len(rest)] = C!Whole("MUL", 1, rest)
      BY <2>1, <3>1, WholeRepeats
    <3> QED BY <3>2
  <2>3. CASE \A k \in 2 .. n : numbers[k] # 0
    <3>1. \A k \in 1 .. m : rest[k] \in Nat \ {0}
      BY <2>1, <2>3
    <3> HIDE DEF h, rest, m
    <3>2. \A r \in Nat, k \in 1 .. Len(rest) : C!Unsigned(op, r, rest[k]) \in Nat
      BY <1>4, <2>1, <3>1, DivMod DEF C!Unsigned, m
    <3>3. PICK f : /\ f[0] = h
                   /\ \A k \in 1 .. Len(rest) : f[k] = C!Unsigned(op, f[k - 1], rest[k])
                   /\ f[Len(rest)] = C!Loop(op, h, rest)
      BY <2>1, <3>2, LoopRepeats
    <3> DEFINE T == {k \in 0 .. m : w[k] \in Nat \ {0} /\ f[k] = h \div w[k]}
    <3>4. 0 \in T
      BY <2>1, <2>2, <3>3
    <3>5. ASSUME NEW k \in 1 .. m, k - 1 \in T PROVE k \in T
      <4>1. w[k - 1] \in Nat \ {0} /\ f[k - 1] = h \div w[k - 1]
        BY <3>5
      <4>2. w[k] = w[k - 1] * rest[k] /\ f[k] = f[k - 1] \div rest[k]
        BY <1>4, <2>2, <3>3 DEF C!Unsigned, m
      <4>3. w[k] \in Nat \ {0}
        BY <3>1, <4>1, <4>2
      <4>4. (h \div w[k - 1]) \div rest[k] = h \div (w[k - 1] * rest[k])
        BY <2>1, <3>1, <4>1, DivDiv
      <4> QED BY <4>1, <4>2, <4>3, <4>4
    <3>6. m \in T
      <4> HIDE DEF T
      <4> QED BY <2>1, <3>4, <3>5, UpTo
    <3>7. C!Loop(op, h, rest) = h \div C!Whole("MUL", 1, rest) /\ C!Whole("MUL", 1, rest) # 0
      BY <2>2, <3>3, <3>6 DEF m
    <3> QED BY <1>4, <2>3, <3>7 DEF C!Calc, C!Asked, h, rest
  <2>4. CASE ~ \A k \in 2 .. n : numbers[k] # 0
    <3>1. PICK z \in 1 .. m : rest[z] = 0
      <4>1. PICK k \in 2 .. n : numbers[k] = 0
        BY <2>4
      <4>2. k - 1 \in 1 .. m /\ rest[k - 1] = numbers[k]
        BY <2>1
      <4> QED BY <4>1, <4>2
    <3> HIDE DEF h, rest, m
    <3> DEFINE T == {k \in 0 .. m : w[k] \in Nat /\ (k >= z => w[k] = 0)}
    <3>2. 0 \in T
      BY <2>1, <2>2
    <3>3. ASSUME NEW k \in 1 .. m, k - 1 \in T PROVE k \in T
      <4>1. w[k - 1] \in Nat /\ (k - 1 >= z => w[k - 1] = 0) /\ w[k] = w[k - 1] * rest[k]
        BY <2>2, <3>3
      <4>2. CASE k = z
        BY <2>1, <3>1, <4>1, <4>2
      <4>3. CASE k # z
        <5>1. w[k] \in Nat
          BY <2>1, <4>1
        <5>2. k >= z => w[k] = 0
          BY <2>1, <4>1, <4>3
        <5> QED BY <5>1, <5>2
      <4> QED BY <4>2, <4>3
    <3>4. m \in T
      <4> HIDE DEF T
      <4> QED BY <2>1, <3>2, <3>3, UpTo
    <3>5. C!Whole("MUL", 1, rest) = 0
      BY <2>1, <2>2, <3>1, <3>4
    <3> QED BY <1>4, <2>4, <3>5 DEF C!Calc, C!Asked, h, rest
  <2> QED BY <2>3, <2>4
<1>5. CASE op \notin {"SUM", "MUL"} /\ ~(op = "DIV" /\ numbers # <<>>)
  BY <1>5 DEF C!Calc, C!Asked
<1> QED BY <1>2, <1>3, <1>4, <1>5

-----------------------------------------------------------------------------
(* calc_server.c and calc_client.c.                                        *)

\* What Calc makes of the request of a client.
Calculated(c) == C!Calc(request[c].op, request[c].data)

\* The response in the pipe is to the request of the client that waits at its
\* other end; a client that the server has not answered yet waits.
CalcInv ==
  /\ client \in [Client -> {"idle", "calling", "waiting", "ended"}]
  /\ request \in [Client -> Requests] /\ DOMAIN answer = Client
  /\ peer \in Client \cup {Nobody} /\ (peer = Nobody <=> pipe # "connected")
  /\ server \in {"calc", "disconnect"} => peer # Nobody
  /\ peer # Nobody /\ server # "disconnect" => client[peer] = "waiting" /\ response = C!Nothing
  /\ response # C!Nothing =>
       peer # Nobody /\ client[peer] = "waiting" /\ response = Calculated(peer)
  /\ \A c \in Client : answer[c] \in {C!Nothing, C!Failed, Calculated(c)}

\* The requests of MCIpc are sequences of natural numbers.
LEMMA RequestsAreCalls ==
  Requests \subseteq [op : {"SUM", "MUL", "DIV", "POW"}, data : Seq(Nat)]
<1> DEFINE Call == [op : {"SUM", "MUL", "DIV", "POW"}, data : Seq(Nat)]
<1>1. \A op \in {"SUM", "MUL", "DIV", "POW"}, numbers \in Seq(Nat) :
        [op |-> op, data |-> numbers] \in Call
  OBVIOUS
<1>2. Modulus - 1 \in Nat
  BY IpcAssumption
<1>3. /\ <<Modulus - 1, 3>> \in Seq(Nat) /\ <<5, 7, 3>> \in Seq(Nat)
      /\ <<13, 2, 3>> \in Seq(Nat) /\ <<7, 0>> \in Seq(Nat)
      /\ <<>> \in Seq(Nat) /\ <<2>> \in Seq(Nat)
  BY <1>2
<1> HIDE DEF Call
<1>4. /\ [op |-> "SUM", data |-> <<Modulus - 1, 3>>] \in Call
      /\ [op |-> "MUL", data |-> <<5, 7, 3>>] \in Call
      /\ [op |-> "DIV", data |-> <<13, 2, 3>>] \in Call
      /\ [op |-> "DIV", data |-> <<7, 0>>] \in Call
      /\ [op |-> "DIV", data |-> <<>>] \in Call
      /\ [op |-> "POW", data |-> <<2>>] \in Call
  BY <1>1, <1>3
<1>5. Requests \subseteq Call
  BY <1>4 DEF Requests
<1> QED BY <1>5 DEF Call

LEMMA CalcInit == Init => CalcInv
<1> SUFFICES ASSUME Init PROVE CalcInv
  OBVIOUS
<1>1. (CHOOSE r \in Requests : TRUE) \in Requests
  <2>1. [op |-> "POW", data |-> <<2>>] \in Requests
    BY DEF Requests
  <2> QED BY <2>1
<1>2. C!Init /\ Nobody \notin Client
  BY IpcAssumption DEF Init
<1> QED BY <1>1, <1>2 DEF C!Init, CalcInv

LEMMA CalcStep == ASSUME CalcInv, C!Next PROVE CalcInv'
<1> USE DEF CalcInv, Calculated
<1>1. Nobody \notin Client
  BY IpcAssumption
<1>2. CASE C!CreatePipe \/ C!ConnectPipe
  BY <1>1, <1>2 DEF C!CreatePipe, C!ConnectPipe
<1>3. CASE C!Serve
  BY <1>1, <1>3 DEF C!Serve
<1>4. CASE C!Disconnect
  BY <1>1, <1>4 DEF C!Disconnect
<1>5. ASSUME NEW c \in Client, C!CallDoMath(c) PROVE CalcInv'
  BY <1>1, <1>5 DEF C!CallDoMath
<1>6. ASSUME NEW c \in Client, C!Connect(c) PROVE CalcInv'
  BY <1>1, <1>6 DEF C!Connect
<1>7. ASSUME NEW c \in Client, C!CannotConnect(c) PROVE CalcInv'
  BY <1>1, <1>7 DEF C!CannotConnect, C!Returns
<1>8. ASSUME NEW c \in Client, C!ReadResponse(c) PROVE CalcInv'
  BY <1>1, <1>8 DEF C!ReadResponse, C!Returns
<1>9. ASSUME NEW c \in Client, C!Disconnected(c) PROVE CalcInv'
  BY <1>1, <1>9 DEF C!Disconnected, C!Returns
<1> QED BY <1>2, <1>3, <1>4, <1>5, <1>6, <1>7, <1>8, <1>9
        DEF C!Next, C!ServerStep, C!ClientStep

-----------------------------------------------------------------------------
(* socketpair.c: each byte of a result is yet to be sent, on its way or     *)
(* received, and the parent counts the workers whose bytes it has.          *)
Received == {w \in P!Worker : data_received[w] = Bytes}
PoolInv ==
  /\ main \in {"spawn", "poll", "finish", "ended", "failed", "killed"}
  /\ i \in 1 .. Workers + 1
  /\ data_received \in [P!Worker -> Nat]
  /\ to_main \in [P!Worker -> Nat] /\ to_send \in [P!Worker -> Nat]
  /\ \A w \in P!Worker : data_received[w] + to_main[w] + to_send[w] = Bytes
  /\ results = Cardinality(Received)
  /\ main \in {"finish", "ended", "killed"} => results >= Need

LEMMA PoolIsFinite == \A s \in SUBSET P!Worker : IsFiniteSet(s) /\ Cardinality(s) \in Nat
<1>1. IsFiniteSet(P!Worker)
  BY IpcAssumption, FS_Interval DEF P!Worker
<1> QED BY <1>1, FS_Subset, FS_CardinalityType

LEMMA SameCardinality == ASSUME NEW s PROVE P!Cardinality(s) = Cardinality(s)
BY DEF P!Cardinality, Cardinality, P!IsFiniteSet, IsFiniteSet

LEMMA PoolInit == Init => PoolInv
<1> SUFFICES ASSUME Init PROVE PoolInv
  OBVIOUS
<1>1. P!Init /\ Workers \in Nat /\ Bytes \in Nat \ {0}
  BY IpcAssumption DEF Init
<1>2. Received = {}
  BY <1>1 DEF Received, P!Init
<1>3. Cardinality(Received) = 0
  BY <1>2, FS_EmptySet
<1> QED BY <1>1, <1>3 DEF P!Init, PoolInv

LEMMA ReceiveCounts == ASSUME PoolInv, P!Receive PROVE PoolInv'
<1> DEFINE got == IF open[i] THEN to_main[i] ELSE 0
           whole == got > 0 /\ data_received[i] + got = Bytes
<1>1. /\ main = "poll" /\ i \in P!Worker /\ i' = i + 1 /\ i' \in 1 .. Workers + 1
      /\ Workers \in Nat /\ Bytes \in Nat \ {0} /\ got \in Nat /\ got <= to_main[i]
      /\ UNCHANGED <<main, to_send>>
  BY IpcAssumption DEF PoolInv, P!Receive, P!Worker
<1>2. /\ data_received' = [data_received EXCEPT ![i] = @ + got]
      /\ to_main' = [to_main EXCEPT ![i] = @ - got]
      /\ results' = IF whole THEN results + 1 ELSE results
  BY DEF P!Receive
<1> HIDE DEF got
<1>3. /\ data_received' \in [P!Worker -> Nat] /\ to_main' \in [P!Worker -> Nat]
      /\ \A w \in P!Worker : data_received'[w] + to_main'[w] + to_send'[w] = Bytes
  BY <1>1, <1>2 DEF PoolInv
<1>4. CASE whole
  <2>1. Received' = Received \cup {i} /\ i \notin Received
    BY <1>1, <1>2, <1>4 DEF Received, PoolInv
  <2>2. Cardinality(Received') = Cardinality(Received) + 1
    <3>1. Received \in SUBSET P!Worker
      BY DEF Received
    <3> QED BY <2>1, <3>1, PoolIsFinite, FS_AddElement
  <2> QED BY <1>1, <1>2, <1>3, <1>4, <2>2 DEF PoolInv
<1>5. CASE ~ whole
  <2>1. Received' = Received
    BY <1>1, <1>2, <1>5 DEF Received, PoolInv
  <2> QED BY <1>1, <1>2, <1>3, <1>5, <2>1 DEF PoolInv
<1> QED BY <1>4, <1>5

LEMMA PoolStep == ASSUME PoolInv, P!Next PROVE PoolInv'
<1>1. Workers \in Nat /\ Need \in Nat
  BY IpcAssumption
<1>2. Cardinality(Received) \in Nat
  BY PoolIsFinite DEF Received
<1>3. ASSUME UNCHANGED data_received PROVE Received' = Received
  BY <1>3 DEF Received
<1>4. CASE P!Spawn
  BY <1>1, <1>3, <1>4 DEF P!Spawn, PoolInv
<1>5. CASE P!SpawnEnds \/ P!SpawnFails
  BY <1>1, <1>3, <1>5 DEF P!SpawnEnds, P!SpawnFails, PoolInv
<1>6. CASE P!RoundEnds
  BY <1>1, <1>2, <1>3, <1>6 DEF P!RoundEnds, PoolInv
<1>7. CASE P!SendFF
  BY <1>1, <1>3, <1>7 DEF P!SendFF, PoolInv
<1>8. CASE P!Exit
  BY <1>1, <1>3, <1>8 DEF P!Exit, PoolInv
<1>9. ASSUME NEW w \in P!Worker, P!Check(w) \/ P!Computed(w) PROVE PoolInv'
  BY <1>3, <1>9 DEF P!Check, P!Computed, P!mainVars, PoolInv
<1>10. ASSUME NEW w \in P!Worker, P!Send(w) PROVE PoolInv'
  <2>1. UNCHANGED P!mainVars
    BY <1>10 DEF P!Send
  <2>2. CASE UNCHANGED <<to_main, to_send>>
    BY <1>3, <2>1, <2>2 DEF P!mainVars, PoolInv
  <2>3. CASE \E n \in 1 .. to_send[w] :
               /\ to_main' = [to_main EXCEPT ![w] = @ + n]
               /\ to_send' = [to_send EXCEPT ![w] = @ - n]
    BY <1>3, <2>1, <2>3 DEF P!mainVars, PoolInv
  <2> QED BY <1>10, <2>2, <2>3 DEF P!Send
<1> QED BY <1>4, <1>5, <1>6, <1>7, <1>8, <1>9, <1>10, ReceiveCounts DEF P!Next, P!MainStep

LEMMA PoolHasEnough == PoolInv => P!EnoughResults
<1> SUFFICES ASSUME PoolInv, main \in {"finish", "ended", "killed"}
             PROVE  Cardinality({w \in P!Sent : data_received[w] = Bytes}) >= Need
  BY SameCardinality DEF P!EnoughResults
<1>1. {w \in P!Sent : data_received[w] = Bytes} = Received
  BY IpcAssumption DEF P!Sent, Received, PoolInv
<1> QED BY <1>1 DEF PoolInv

\* DoMath of calc_client.c gives what its caller asked for, in whole numbers
\* and then modulo the width of an unsigned int, or fails: whatever the clients
\* call at the same time, wherever the server is when they find their pipe
\* taken or gone, and however many numbers there are.  main of socketpair.c
\* finishes only with enough results, each of them all that its worker sent.
THEOREM AnswersStayRight == FairSpec => []AnswersAreRight
<1>1. CalcInv /\ PoolInv => AnswersAreRight
  <2> SUFFICES ASSUME CalcInv, PoolInv, NEW c \in Client
               PROVE  answer[c] \in {C!Nothing, C!Failed, C!Asked(request[c])}
    BY PoolHasEnough DEF AnswersAreRight, C!AnswersAreRight
  <2>1. request[c] \in Requests
    BY DEF CalcInv
  <2>2. request[c].data \in Seq(Nat)
        /\ request[c] = [op |-> request[c].op, data |-> request[c].data]
    BY <2>1, RequestsAreCalls
  <2>3. C!Calc(request[c].op, request[c].data) = C!Asked(request[c])
    BY <2>2, CalcIsAsked
  <2>4. Calculated(c) = C!Asked(request[c])
    BY <2>3 DEF Calculated
  <2> QED BY <2>4 DEF CalcInv
<1>2. CalcInv /\ [Next]_vars => CalcInv'
  <2> SUFFICES ASSUME CalcInv, [Next]_vars PROVE CalcInv'
    OBVIOUS
  <2>1. CASE CalcSteps(C!Next)
    BY <2>1, CalcStep DEF CalcSteps, OnlyIn
  <2>2. CASE UNCHANGED calcVars
    BY <2>2 DEF calcVars, CalcInv, Calculated
  <2> QED BY <2>1, <2>2
          DEF Next, WaitSteps, SelectSteps, PoolSteps, ServerSteps, FormatSteps, OnlyIn, vars
<1>3. PoolInv /\ [Next]_vars => PoolInv'
  <2> SUFFICES ASSUME PoolInv, [Next]_vars PROVE PoolInv'
    OBVIOUS
  <2>1. CASE PoolSteps(P!Next)
    BY <2>1, PoolStep DEF PoolSteps, OnlyIn
  <2>2. CASE UNCHANGED poolVars
    BY <2>2 DEF poolVars, PoolInv, Received
  <2> QED BY <2>1, <2>2
          DEF Next, WaitSteps, SelectSteps, CalcSteps, ServerSteps, FormatSteps, OnlyIn, vars
<1> QED BY <1>1, <1>2, <1>3, CalcInit, PoolInit, PTL DEF FairSpec

-----------------------------------------------------------------------------
(* The threads of httpchat.py: the invariant is that of ClientThread_proofs. *)
HP == INSTANCE ClientThread_proofs WITH NoThread <- Nobody

\* The instance of the proofs has the actions of the instance that runs.
LEMMA SameServer == [H!Next]_H!vars <=> [HP!Next]_HP!vars
<1> USE DEF H!clientVars, HP!clientVars, H!Goes, HP!Goes, H!Dies, HP!Dies, H!Arrived, HP!Arrived,
            H!EndOfStream, HP!EndOfStream, H!None, HP!None, H!Content, HP!Content,
            H!BodyOf, HP!BodyOf
<1>1. ASSUME NEW c \in Conn
      PROVE  (H!ClientStep(c) <=> HP!ClientStep(c)) /\ (H!Accept(c) <=> HP!Accept(c))
  BY DEF H!ClientStep, HP!ClientStep, H!Connect, HP!Connect, H!SendPiece, HP!SendPiece,
         H!FinishSending, HP!FinishSending, H!BreakOff, HP!BreakOff, H!Total, HP!Total,
         H!Accept, HP!Accept
<1>2. ASSUME NEW c \in Conn PROVE H!Receives(c) <=> HP!Receives(c)
  BY DEF H!Receives, HP!Receives, H!ReadHead, HP!ReadHead, H!HeadCutShort, HP!HeadCutShort,
         H!ParseHead, HP!ParseHead, H!AfterHead, HP!AfterHead, H!ReadBody, HP!ReadBody,
         H!BodyCutShort, HP!BodyCutShort, H!BodyRead, HP!BodyRead, H!ReadRest, HP!ReadRest,
         H!RestRead, HP!RestRead, H!TimesOut, HP!TimesOut, H!Wants, HP!Wants,
         H!ConnectionReset, HP!ConnectionReset
<1>3. ASSUME NEW c \in Conn PROVE H!Handles(c) <=> HP!Handles(c)
  BY DEF H!Handles, HP!Handles, H!Handled, HP!Handled, H!HasHandler, HP!HasHandler,
         H!Handling, HP!Handling, H!NotFound, HP!NotFound, H!SendFile, HP!SendFile,
         H!NoBody, HP!NoBody, H!JsonTooDeep, HP!JsonTooDeep,
         H!TextIsNoString, HP!TextIsNoString, H!BadRequest, HP!BadRequest,
         H!HandlePostMessages, HP!HandlePostMessages, H!HandlePostChat, HP!HandlePostChat
<1>4. ASSUME NEW c \in Conn PROVE H!Answers(c) <=> HP!Answers(c)
  BY DEF H!Answers, HP!Answers, H!SendResponse, HP!SendResponse, H!SendTimesOut, HP!SendTimesOut,
         H!SendFails, HP!SendFails, H!Close, HP!Close
<1>5. ASSUME NEW c \in Conn PROVE H!ThreadStep(c) <=> HP!ThreadStep(c)
  BY <1>2, <1>3, <1>4 DEF H!ThreadStep, HP!ThreadStep
<1>6. H!Next <=> HP!Next
  BY <1>1, <1>5 DEF H!Next, HP!Next
<1>7. UNCHANGED H!vars <=> UNCHANGED HP!vars
  BY DEF H!vars, HP!vars
<1> QED BY <1>6, <1>7

\* The requests of MCIpc are requests.
LEMMA AskedAreRequests == Together \cup Alone \cup {ThePage, Nothing} \subseteq HP!Request
<1> USE DEF HttpRequest, Post, HP!Request
<1>1. ThePage \in HP!Request /\ ThePage.body = "other"
  BY DEF ThePage
<1>2. Nothing \in HP!Request
  BY DEF ThePage, Nothing
<1>3. Line \in HP!Request
  BY DEF Line
<1>4. Together \subseteq HP!Request
  <2>1. RecvLimit + 1 \in Int
    BY IpcAssumption
  <2> QED BY <2>1 DEF Line, Together
<1>5. Alone \subseteq HP!Request
  <2>1. [Line EXCEPT !.query = "else"] \in HP!Request
    BY DEF Line
  <2>2. [Line EXCEPT !.has = "none"] \in HP!Request
    BY DEF Line
  <2>3. [Line EXCEPT !.length = 1] \in HP!Request
    BY DEF Line
  <2>4. [Line EXCEPT !.length = -1] \in HP!Request
    BY DEF Line
  <2>5. [Line EXCEPT !.body = "binary"] \in HP!Request
    BY DEF Line
  <2>6. [Line EXCEPT !.body = "nontext"] \in HP!Request
    BY DEF Line
  <2>7. [Line EXCEPT !.body = "deep"] \in HP!Request
    BY DEF Line
  <2>8. /\ Post("chat", "number", 1, "chat", "binary") \in HP!Request
        /\ Post("chat", "none", 2, "chat", "binary") \in HP!Request
        /\ Post("chat", "none", 2, "binary", "other") \in HP!Request
    OBVIOUS
  <2>9. /\ Post("else", "number", 2, "deep", "other") \in HP!Request
        /\ Post("messages", "number", 2, "messages", "other") \in HP!Request
        /\ Post("messages", "number", 2, "nontext", "other") \in HP!Request
        /\ Post("messages", "none", 2, "deep", "deep") \in HP!Request
    OBVIOUS
  <2>10. [ThePage EXCEPT !.head = "tokens"] \in HP!Request
    BY DEF ThePage
  <2>11. [ThePage EXCEPT !.head = "binary"] \in HP!Request
    BY DEF ThePage
  <2> HIDE DEF HttpRequest, Post, HP!Request
  <2> QED BY <2>1, <2>2, <2>3, <2>4, <2>5, <2>6, <2>7, <2>8, <2>9, <2>10, <2>11 DEF Alone
<1> QED BY <1>1, <1>2, <1>4, <1>5

LEMMA ServerInit == Init => HP!ServerInv
<1> SUFFICES ASSUME Init PROVE HP!ServerInv
  OBVIOUS
<1>1. PICK asks \in IF program = "httpserver" THEN Together \cup Alone ELSE {Nothing} :
        H!Init([c \in Conn |-> IF c = First THEN asks
                               ELSE IF asks \in Together THEN ThePage ELSE Nothing])
  BY DEF Init
<1> DEFINE requests == [c \in Conn |-> IF c = First THEN asks
                                      ELSE IF asks \in Together THEN ThePage ELSE Nothing]
<1>2. asks \in Together \cup Alone \cup {ThePage, Nothing}
  BY <1>1
<1>3. requests \in [Conn -> HP!Request]
  BY <1>2, AskedAreRequests
<1>4. HeadPieces \in Nat
  BY IpcAssumption
<1>5. HP!Init(requests)
  BY <1>1 DEF H!Init, HP!Init, H!None, HP!None, H!NoStatus, HP!NoStatus
<1> HIDE DEF requests
<1> QED BY <1>3, <1>4, <1>5, HP!ServerInvInit

LEMMA ServerStep == ASSUME HP!ServerInv, [Next]_vars PROVE HP!ServerInv'
<1>1. HeadPieces \in Nat
  BY IpcAssumption
<1>2. CASE ServerSteps(H!Next)
  BY <1>1, <1>2, SameServer, HP!ServerInvStep DEF ServerSteps, OnlyIn
<1>3. CASE UNCHANGED serverVars
  <2>1. UNCHANGED HP!vars
    BY <1>3 DEF serverVars, HP!vars, HP!clientVars
  <2> QED BY <1>1, <2>1, HP!ServerInvStep
<1> QED BY <1>2, <1>3
        DEF Next, WaitSteps, SelectSteps, PoolSteps, CalcSteps, FormatSteps, OnlyIn, vars

\* Whatever a client of httpchat.py asks, and however it comes: a message is
\* added at most once for it, and only when all of it was sent; success is told
\* exactly of that; and a thread dies with an exception only of what MayKill names.
THEOREM RequestsStayWhole == FairSpec => []RequestsAreWhole
<1>1. HP!ServerInv => RequestsAreWhole
  BY DEF HP!ServerInv, HP!Types, HP!Place, HP!Outcome, HP!Posted, HP!Answerable, HP!Through,
         RequestsAreWhole, H!RequestsAreWhole, H!Total, HP!Total, H!BodySent, HP!BodySent,
         H!HasHandler, HP!HasHandler, H!MayKill, HP!MayKill, H!BodyOf, HP!BodyOf,
         H!Raises, HP!Raises, H!NoStatus, HP!NoStatus
<1> QED BY <1>1, ServerInit, ServerStep, PTL DEF FairSpec

=============================================================================
