-------------------------- MODULE MCFormats_proofs --------------------------
(***************************************************************************)
(* Proofs about the readers of formats, for inputs of any size that follow *)
(* their format, and for some that do not.                                 *)
(***************************************************************************)
EXTENDS MCFormats, FiniteSetTheorems, SequenceTheorems, TLAPS

-----------------------------------------------------------------------------
(* Induction, stated with sets: a set with 0 that is closed under + 1.     *)
WF == INSTANCE WellFoundedInduction

LEMMA Least ==
  ASSUME NEW T \in SUBSET Nat, T # {}
  PROVE  \E x \in T : \A y \in T : x <= y
<1> DEFINE R == WF!OpToRel(<, Nat)
<1>1. WF!IsWellFoundedOn(R, Nat)
  BY WF!NatLessThanWellFounded
<1>2. \E x \in T : \A y \in T : ~ (<<y, x>> \in R)
  <2> HIDE DEF R
  <2> QED BY <1>1, WF!WFMin
<1>3. \A x, y \in Nat : <<y, x>> \in R <=> y < x
  BY DEF WF!OpToRel
<1> HIDE DEF R
<1>4. PICK x \in T : \A y \in T : ~ (<<y, x>> \in R)
  BY <1>2
<1>5. \A y \in T : x <= y
  <2> TAKE y \in T
  <2>1. ~ (y < x)
    BY <1>3, <1>4
  <2> QED BY <2>1
<1> QED BY <1>5
LEMMA Induction ==
  ASSUME NEW Reached \in SUBSET Nat, 0 \in Reached, \A n \in Reached : n + 1 \in Reached
  PROVE  Reached = Nat
<1> SUFFICES ASSUME Nat \ Reached # {} PROVE FALSE
  OBVIOUS
<1>1. PICK x \in Nat \ Reached : \A y \in Nat \ Reached : x <= y
  BY Least
<1>2. x - 1 \in Reached
  BY <1>1
<1> QED BY <1>1, <1>2
LEMMA UpTo ==
  ASSUME NEW n \in Nat, NEW T, 0 \in T, \A k \in 1 .. n : k - 1 \in T => k \in T
  PROVE  n \in T
<1> DEFINE Reached == {k \in Nat : k <= n => k \in T}
<1>1. Reached \in SUBSET Nat /\ 0 \in Reached
  OBVIOUS
<1>2. ASSUME NEW k \in Reached PROVE k + 1 \in Reached
  <2> SUFFICES ASSUME k + 1 <= n PROVE k + 1 \in T
    OBVIOUS
  <2>1. k + 1 \in 1 .. n /\ (k + 1) - 1 = k /\ k \in T
    OBVIOUS
  <2> QED BY <2>1
<1> HIDE DEF Reached
<1>3. Reached = Nat
  BY <1>1, <1>2, Induction
<1> QED BY <1>3 DEF Reached

-----------------------------------------------------------------------------
(* PNGReader.  What the format takes from a byte the decoder adds again; a *)
(* row needs the bytes before it, so that the recursive function of        *)
(* Unfilter is shown to have one value, and the picture to be that.        *)
Byte == 0 .. 255

LEMMA PaethIsNearest ==
  ASSUME NEW a \in Nat, NEW b \in Nat, NEW c \in Nat
  PROVE  Png!Paeth(a, b, c) = Nearest(a, b, c)
<1> DEFINE candidates == <<a, b, c>>
           far(k) == Absolute(a + b - c - candidates[k])
           nearest == {k \in 1 .. 3 : \A l \in 1 .. 3 : far(k) <= far(l)}
           first == CHOOSE k \in nearest : \A l \in nearest : k <= l
           p == a + b - c
<1>1. Nearest(a, b, c) = candidates[first]
  BY DEF Nearest
<1>2. \A v \in Nat : Png!Distance(p, v) = Absolute(p - v) /\ Absolute(p - v) \in Nat
  BY DEF Png!Distance, Absolute
<1>3. /\ far(1) = Png!Distance(p, a) /\ far(2) = Png!Distance(p, b) /\ far(3) = Png!Distance(p, c)
      /\ far(1) \in Nat /\ far(2) \in Nat /\ far(3) \in Nat
  BY <1>2
<1>4. candidates[1] = a /\ candidates[2] = b /\ candidates[3] = c
  OBVIOUS
<1> HIDE DEF far, candidates
<1>5. \A k \in 1 .. 3 : k = 1 \/ k = 2 \/ k = 3
  OBVIOUS
<1>6. /\ 1 \in nearest <=> far(1) <= far(2) /\ far(1) <= far(3)
      /\ 2 \in nearest <=> far(2) <= far(1) /\ far(2) <= far(3)
      /\ 3 \in nearest <=> far(3) <= far(1) /\ far(3) <= far(2)
      /\ nearest \subseteq 1 .. 3
  BY <1>3, <1>5
<1> HIDE DEF nearest
<1>7. \E k \in nearest : \A l \in nearest : k <= l
  BY <1>3, <1>5, <1>6
<1>8. first \in nearest /\ \A l \in nearest : first <= l
  BY <1>7
<1> HIDE DEF first
<1>9. CASE far(1) <= far(2) /\ far(1) <= far(3)
  <2>1. first = 1
    BY <1>5, <1>6, <1>8, <1>9
  <2> QED BY <1>1, <1>3, <1>4, <1>9, <2>1 DEF Png!Paeth
<1>10. CASE ~ (far(1) <= far(2) /\ far(1) <= far(3)) /\ far(2) <= far(3)
  <2>1. first = 2
    BY <1>3, <1>5, <1>6, <1>8, <1>10
  <2> QED BY <1>1, <1>3, <1>4, <1>10, <2>1 DEF Png!Paeth
<1>11. CASE ~ (far(1) <= far(2) /\ far(1) <= far(3)) /\ ~ (far(2) <= far(3))
  <2>1. first = 3
    BY <1>3, <1>5, <1>6, <1>8, <1>11
  <2> QED BY <1>1, <1>3, <1>4, <1>11, <2>1 DEF Png!Paeth
<1> QED BY <1>9, <1>10, <1>11

\* Three zeros go before each row.
Padded(s) == [x \in 1 .. Len(s) + 3 |-> IF x <= 3 THEN 0 ELSE s[x - 3]]

LEMMA PredictorIsByte ==
  ASSUME NEW type \in 0 .. 4, NEW left \in Byte, NEW up \in Byte, NEW upleft \in Byte
  PROVE  Png!Predictor(type, left, up, upleft) \in Byte
<1>1. Png!Paeth(left, up, upleft) \in Byte
  BY DEF Png!Paeth
<1>2. (left + up) \div 2 \in Byte
  BY DEF Byte
<1> DEFINE all == <<0, left, up, (left + up) \div 2, Png!Paeth(left, up, upleft)>>
<1>3. all[1] \in Byte /\ all[2] \in Byte /\ all[3] \in Byte /\ all[4] \in Byte /\ all[5] \in Byte
  BY <1>1, <1>2 DEF Byte
<1> HIDE DEF all
<1>4. type + 1 \in 1 .. 5 /\ \A k \in 1 .. 5 : all[k] \in Byte
  <2>1. \A k \in 1 .. 5 : k = 1 \/ k = 2 \/ k = 3 \/ k = 4 \/ k = 5
    OBVIOUS
  <2> QED BY <1>3, <2>1
<1> QED BY <1>4 DEF Png!Predictor, all

LEMMA PaddedBytes ==
  ASSUME NEW s \in Seq(Byte)
  PROVE  /\ \A x \in 1 .. Len(s) + 3 : Padded(s)[x] = IF x <= 3 THEN 0 ELSE s[x - 3]
         /\ \A x \in 1 .. Len(s) + 3 : Padded(s)[x] \in Byte
<1>1. \A x \in 1 .. Len(s) + 3 : Padded(s)[x] = IF x <= 3 THEN 0 ELSE s[x - 3]
  BY DEF Padded
<1>2. \A k \in 1 .. Len(s) : s[k] \in Byte
  OBVIOUS
<1>3. 0 \in Byte
  BY DEF Byte
<1>4. \A x \in 1 .. Len(s) + 3 : x <= 3 \/ x - 3 \in 1 .. Len(s)
  OBVIOUS
<1> QED BY <1>1, <1>2, <1>3, <1>4

\* What the encoder takes from a byte, the decoder adds to it.
Added(type, row, prior, x) ==
  Png!Predictor(type, Padded(row)[x], Padded(prior)[x + 3], Padded(prior)[x])

TakenFrom(type, row, prior, filtered) ==
  /\ filtered \in Seq(Int) /\ Len(filtered) = Len(row) + 1 /\ filtered[1] = type
  /\ \A x \in 1 .. Len(row) : filtered[x + 1] = (row[x] - Added(type, row, prior, x)) % 256

LEMMA TakenIsAdded ==
  ASSUME NEW type \in 0 .. 4, NEW row \in Seq(Byte), NEW prior \in Seq(Byte), Len(prior) = Len(row)
  PROVE  TakenFrom(type, row, prior, Filtered(type, row, prior))
<1> DEFINE byte(s, k) == IF k < 1 THEN 0 ELSE s[k]
           taken(k) ==
             CASE type = 0 -> 0
               [] type = 1 -> byte(row, k - 3)
               [] type = 2 -> prior[k]
               [] type = 3 -> (byte(row, k - 3) + prior[k]) \div 2
               [] type = 4 -> Nearest(byte(row, k - 3), prior[k], byte(prior, k - 3))
               [] OTHER -> 0
<1>1. Filtered(type, row, prior) = <<type>> \o [k \in DOMAIN row |-> (row[k] - taken(k)) % 256]
  BY DEF Filtered
<1>2. ASSUME NEW x \in 1 .. Len(row)
      PROVE  taken(x) = Added(type, row, prior, x) /\ Added(type, row, prior, x) \in Byte
  <2> DEFINE left == Padded(row)[x]   up == Padded(prior)[x + 3]   upleft == Padded(prior)[x]
             all == <<0, left, up, (left + up) \div 2, Png!Paeth(left, up, upleft)>>
  <2>1. /\ byte(row, x - 3) = left /\ prior[x] = up /\ byte(prior, x - 3) = upleft
        /\ left \in Byte /\ up \in Byte /\ upleft \in Byte
    <3>1. x \in 1 .. Len(row) + 3 /\ x + 3 \in 1 .. Len(prior) + 3 /\ x \in 1 .. Len(prior) + 3
      OBVIOUS
    <3>2. x - 3 < 1 <=> x <= 3
      OBVIOUS
    <3>3. ~ (x + 3 <= 3) /\ (x + 3) - 3 = x
      OBVIOUS
    <3> QED BY <3>1, <3>2, <3>3, PaddedBytes
  <2>2. /\ all[1] = 0 /\ all[2] = left /\ all[3] = up
        /\ all[4] = (left + up) \div 2 /\ all[5] = Png!Paeth(left, up, upleft)
    OBVIOUS
  <2>3. Added(type, row, prior, x) = all[type + 1]
    BY DEF Png!Predictor, Added
  <2> HIDE DEF all, left, up, upleft, byte
  <2>4. Nearest(left, up, upleft) = Png!Paeth(left, up, upleft)
    <3>1. left \in Nat /\ up \in Nat /\ upleft \in Nat
      BY <2>1 DEF Byte
    <3> QED BY <3>1, PaethIsNearest
  <2>5. taken(x) = CASE type = 0 -> 0
               [] type = 1 -> left
               [] type = 2 -> up
               [] type = 3 -> (left + up) \div 2
               [] type = 4 -> Png!Paeth(left, up, upleft)
               [] OTHER -> 0
    BY <2>1, <2>4
  <2>6. Added(type, row, prior, x) \in Byte
    BY <2>1, PredictorIsByte DEF Added, left, up, upleft
  <2> HIDE DEF taken
  <2>7. type = 0 \/ type = 1 \/ type = 2 \/ type = 3 \/ type = 4
    OBVIOUS
  <2>8. /\ 0 + 1 = 1 /\ 1 + 1 = 2 /\ 2 + 1 = 3 /\ 3 + 1 = 4 /\ 4 + 1 = 5
        /\ 0 # 1 /\ 0 # 2 /\ 0 # 3 /\ 0 # 4 /\ 1 # 2 /\ 1 # 3 /\ 1 # 4 /\ 2 # 3 /\ 2 # 4 /\ 3 # 4
    OBVIOUS
  <2>9. taken(x) = all[type + 1]
    BY <2>2, <2>5, <2>7, <2>8
  <2> QED BY <2>3, <2>6, <2>9
<1> HIDE DEF taken
<1>3. \A k \in 1 .. Len(row) : (row[k] - taken(k)) % 256 \in Int
  <2> TAKE k \in 1 .. Len(row)
  <2>1. row[k] \in Byte /\ taken(k) \in Byte
    BY <1>2
  <2>2. Byte \subseteq Int
    BY DEF Byte
  <2>3. row[k] \in Int /\ taken(k) \in Int
    BY <2>1, <2>2
  <2> QED BY <2>3
<1>4. DOMAIN row = 1 .. Len(row)
  OBVIOUS
<1>5. [k \in DOMAIN row |-> (row[k] - taken(k)) % 256] \in Seq(Int)
  BY <1>3, <1>4
<1>6. /\ Filtered(type, row, prior) \in Seq(Int)
      /\ Len(Filtered(type, row, prior)) = Len(row) + 1
      /\ Filtered(type, row, prior)[1] = type
      /\ \A x \in 1 .. Len(row) : Filtered(type, row, prior)[x + 1] = (row[x] - taken(x)) % 256
  BY <1>1, <1>4, <1>5
<1>7. \A x \in 1 .. Len(row) :
        Filtered(type, row, prior)[x + 1] = (row[x] - Added(type, row, prior, x)) % 256
  BY <1>2, <1>6
<1> QED BY <1>6, <1>7 DEF TakenFrom

\* The recursive function of Unfilter has one value.
Fits(g, type, prior, raw) ==
  g = [x \in 1 .. Len(raw) + 3 |->
         IF x <= 3 THEN 0
         ELSE (raw[x - 3] + Png!Predictor(type, g[x - 3], prior[x], prior[x - 3])) % 256]

LEMMA OneFits ==
  ASSUME NEW type, NEW prior, NEW raw \in Seq(Int), NEW g, NEW h,
         Fits(g, type, prior, raw), Fits(h, type, prior, raw)
  PROVE  g = h
<1> DEFINE X == 1 .. Len(raw) + 3
           Differ == {x \in X : g[x] # h[x]}
<1>1. /\ \A x \in X : g[x] = IF x <= 3 THEN 0
           ELSE (raw[x - 3] + Png!Predictor(type, g[x - 3], prior[x], prior[x - 3])) % 256
      /\ \A x \in X : h[x] = IF x <= 3 THEN 0
           ELSE (raw[x - 3] + Png!Predictor(type, h[x - 3], prior[x], prior[x - 3])) % 256
  BY DEF Fits
<1>2. g = [x \in X |-> g[x]] /\ h = [x \in X |-> h[x]]
  BY DEF Fits
<1>3. Differ = {}
  <2> SUFFICES ASSUME Differ # {} PROVE FALSE
    OBVIOUS
  <2>1. Differ \in SUBSET Nat
    OBVIOUS
  <2> HIDE DEF Differ
  <2>2. PICK x \in Differ : \A y \in Differ : x <= y
    BY <2>1, Least
  <2>3. x \in X /\ g[x] # h[x]
    BY <2>2 DEF Differ
  <2>4. x > 3
    BY <1>1, <2>3
  <2>5. x - 3 \in X /\ x - 3 \notin Differ
    BY <2>2, <2>3, <2>4
  <2>6. g[x - 3] = h[x - 3]
    BY <2>5 DEF Differ
  <2> QED BY <1>1, <2>3, <2>4, <2>6
<1> QED BY <1>2, <1>3

\* A byte comes back from what was taken from it.
LEMMA ByteBack == ASSUME NEW a \in Byte, NEW t \in Byte PROVE (((a - t) % 256) + t) % 256 = a
<1>1. (a - t) % 256 = IF a >= t THEN a - t ELSE a - t + 256
  BY DEF Byte
<1> QED BY <1>1 DEF Byte

\* Whatever the filter, PNGReader gets back the row that was filtered
\* (decodepng.py: the loop over the bytes of a row and its paeth).
THEOREM UnfilterInvertsFilter ==
  ASSUME NEW type \in 0 .. 4, NEW row \in Seq(Byte), NEW prior \in Seq(Byte), Len(prior) = Len(row)
  PROVE  Png!Unfilter(type, Padded(prior), SubSeq(Filtered(type, row, prior), 2, Len(row) + 1))
           = Padded(row)
<1> DEFINE raw == SubSeq(Filtered(type, row, prior), 2, Len(row) + 1)
<1>1. /\ raw \in Seq(Int) /\ Len(raw) = Len(row)
      /\ \A x \in 1 .. Len(row) : raw[x] = (row[x] - Added(type, row, prior, x)) % 256
  <2>1. TakenFrom(type, row, prior, Filtered(type, row, prior))
    BY TakenIsAdded
  <2> QED BY <2>1 DEF TakenFrom
<1>2. \A x \in 1 .. Len(row) : Added(type, row, prior, x) \in Byte
  <2> SUFFICES ASSUME NEW x \in 1 .. Len(row) PROVE Added(type, row, prior, x) \in Byte
    OBVIOUS
  <2>1. Padded(row)[x] \in Byte /\ Padded(prior)[x + 3] \in Byte /\ Padded(prior)[x] \in Byte
    BY PaddedBytes
  <2> QED BY <2>1, PredictorIsByte DEF Added
<1> HIDE DEF raw
<1>3. Fits(Padded(row), type, Padded(prior), raw)
  <2>1. ASSUME NEW x \in 1 .. Len(row) + 3, x > 3
        PROVE  (raw[x - 3] + Png!Predictor(type, Padded(row)[x - 3],
                                            Padded(prior)[x], Padded(prior)[x - 3])) % 256 = row[x - 3]
    <3>1. x - 3 \in 1 .. Len(row) /\ (x - 3) + 3 = x /\ row[x - 3] \in Byte
      BY <2>1
    <3>2. Added(type, row, prior, x - 3) =
             Png!Predictor(type, Padded(row)[x - 3], Padded(prior)[x], Padded(prior)[x - 3])
      BY <3>1 DEF Added
    <3>3. /\ raw[x - 3] = (row[x - 3] - Added(type, row, prior, x - 3)) % 256
          /\ Added(type, row, prior, x - 3) \in Byte
      BY <1>1, <1>2, <3>1
    <3> QED BY <3>1, <3>2, <3>3, ByteBack
  <2>2. [x \in 1 .. Len(row) + 3 |-> IF x <= 3 THEN 0 ELSE row[x - 3]] =
        [x \in 1 .. Len(raw) + 3 |-> IF x <= 3 THEN 0
           ELSE (raw[x - 3] + Png!Predictor(type, Padded(row)[x - 3],
                                            Padded(prior)[x], Padded(prior)[x - 3])) % 256]
    BY <1>1, <2>1
  <2>3. Padded(row) = [x \in 1 .. Len(row) + 3 |-> IF x <= 3 THEN 0 ELSE row[x - 3]]
    BY DEF Padded
  <2> QED BY <2>2, <2>3 DEF Fits
<1>4. PICK g : g = Png!Unfilter(type, Padded(prior), raw) /\ Fits(g, type, Padded(prior), raw)
  <2> DEFINE G(g) == Fits(g, type, Padded(prior), raw)
  <2>1. Png!Unfilter(type, Padded(prior), raw) = CHOOSE g : G(g)
    BY DEF Png!Unfilter, Fits
  <2>2. G(CHOOSE g : G(g))
    <3> HIDE DEF G
    <3>1. G(Padded(row))
      BY <1>3 DEF G
    <3> QED BY <3>1
  <2> QED BY <2>1, <2>2
<1>5. g = Padded(row)
  BY <1>1, <1>3, <1>4, OneFits
<1> QED BY <1>4, <1>5 DEF raw

-----------------------------------------------------------------------------
\* The rows of three bytes for each pixel, and the row before each; the one
\* before the first is black.
IsPicture(picture, w) ==
  /\ w \in Nat /\ picture \in Seq(Seq(Byte))
  /\ \A k \in 1 .. Len(picture) : Len(picture[k]) = 3 * w
Prior(picture, w, k) == IF k = 1 THEN [x \in 1 .. 3 * w |-> 0] ELSE picture[k - 1]

\* rest[k] is what the format makes of the rows from k on, each with its filter.
AreFiltered(picture, w, types, rest) ==
  /\ types \in [1 .. Len(picture) -> 0 .. 4]
  /\ rest \in [1 .. Len(picture) + 1 -> Seq(Int)] /\ rest[Len(picture) + 1] = <<>>
  /\ \A k \in 1 .. Len(picture) :
       rest[k] = Filtered(types[k], picture[k], Prior(picture, w, k)) \o rest[k + 1]

\* The chunks up to IEND: at least one header, always the same, the data in
\* chunks of any number and length (joined[k] is that of the first k), and
\* any others between them.
AnyChunk == [type : STRING, data : Seq(Nat), crc32 : STRING \X Seq(Nat)]
AreChunksOf(chunks, picture, w, stream, joined, end) ==
  /\ chunks \in Seq(AnyChunk) /\ end \in 1 .. Len(chunks) /\ chunks[end].type = "IEND"
  /\ \A k \in 1 .. end : chunks[k].crc32 = Png!Crc32(chunks[k].type, chunks[k].data)
  /\ \A k \in 1 .. end - 1 :
       /\ chunks[k].type # "IEND"
       /\ chunks[k].type = "IHDR" => chunks[k].data = <<w, Len(picture), 8, 2, 0, 0, 0>>
       /\ joined[k] = IF chunks[k].type = "IDAT" THEN joined[k - 1] \o chunks[k].data ELSE joined[k - 1]
  /\ \E k \in 1 .. end - 1 : chunks[k].type = "IHDR"
  /\ joined[0] = <<>> /\ joined[end - 1] = stream

Encodes(input, picture, w, types, rest, joined, end) ==
  /\ input.magic = TRUE
  /\ IsPicture(picture, w) /\ AreFiltered(picture, w, types, rest)
  /\ AreChunksOf(input.chunks, picture, w, Png!Deflated(rest[1]), joined, end)

\* What PNGReader has while it reads chunks, and while it decodes rows.
HeaderOf(picture, w) ==
  [width |-> w, height |-> Len(picture), bpp |-> 8, color |-> 2,
   compression |-> 0, filter |-> 0, interlace |-> 0]
InTheChunks(picture, w, joined, end) ==
  /\ at \in 0 .. end - 1
  /\ \E header \in {<<>>, HeaderOf(picture, w)} :
       /\ acc = [header |-> header, bitmap_data |-> joined[at], rows |-> <<>>, data |-> <<>>]
       /\ header = <<>> => \A k \in 1 .. at : file.chunks[k].type # "IHDR"
InTheRows(picture, w, rest, stream) ==
  \E k \in 0 .. Len(picture) :
    acc = [header |-> HeaderOf(picture, w), bitmap_data |-> stream,
           rows |-> [j \in 1 .. k + 1 |-> Padded(Prior(picture, w, j))], data |-> rest[k + 1]]
Reads(picture, w, types, rest, joined, end) ==
  /\ Encodes(file, picture, w, types, rest, joined, end)
  /\ result \in {Pending, Ok(picture)}
  /\ InTheChunks(picture, w, joined, end) \/ InTheRows(picture, w, rest, Png!Deflated(rest[1]))

LEMMA CutAfter ==
  ASSUME NEW a \in Seq(Int), NEW b \in Seq(Int), a # <<>>
  PROVE  /\ SubSeq(a \o b, 2, Len(a)) = SubSeq(a, 2, Len(a))
         /\ SubSeq(a \o b, Len(a) + 1, Len(a \o b)) = b
         /\ Len(a \o b) \in Nat /\ Len(a \o b) >= Len(a)
OBVIOUS

LEMMA ChunkStep ==
  ASSUME NEW picture, NEW w, NEW types, NEW rest, NEW joined, NEW end,
         Encodes(file, picture, w, types, rest, joined, end), Running,
         InTheChunks(picture, w, joined, end), Png!Next
  PROVE  /\ UNCHANGED <<file, result>>
         /\ InTheChunks(picture, w, joined, end)' \/ InTheRows(picture, w, rest, Png!Deflated(rest[1]))'
<1> DEFINE chunk == file.chunks[at + 1]   stream == Png!Deflated(rest[1])
           Head1 == HeaderOf(picture, w)
<1>1. /\ end \in Nat \ {0} /\ at \in 0 .. end - 1 /\ Len(file.chunks) \in Nat /\ end <= Len(file.chunks)
      /\ file.magic = TRUE /\ file.chunks[end].type = "IEND"
      /\ joined[0] = <<>> /\ joined[end - 1] = stream
      /\ \A k \in 1 .. end : file.chunks[k].crc32 = Png!Crc32(file.chunks[k].type, file.chunks[k].data)
      /\ \A k \in 1 .. end - 1 :
           /\ file.chunks[k].type # "IEND"
           /\ file.chunks[k].type = "IHDR" => file.chunks[k].data = <<w, Len(picture), 8, 2, 0, 0, 0>>
           /\ joined[k] = IF file.chunks[k].type = "IDAT"
                          THEN joined[k - 1] \o file.chunks[k].data ELSE joined[k - 1]
      /\ \E k \in 1 .. end - 1 : file.chunks[k].type = "IHDR"
  BY DEF Encodes, AreChunksOf, InTheChunks
<1>2. PICK header \in {<<>>, Head1} :
        /\ acc = [header |-> header, bitmap_data |-> joined[at], rows |-> <<>>, data |-> <<>>]
        /\ header = <<>> => \A k \in 1 .. at : file.chunks[k].type # "IHDR"
  BY DEF InTheChunks
<1>3. at < Len(file.chunks) /\ at + 1 \in 1 .. end /\ Png!InChunks /\ Png!Intact
  BY <1>1, <1>2 DEF Png!InChunks, Png!Intact, Png!Data
<1>4. chunk.type = "IEND" <=> at + 1 = end
  BY <1>1
<1>5. ~ Png!NotAPng /\ ~ Png!DecodeRow /\ ~ Png!BadRow /\ ~ Png!Finish
  BY <1>1, <1>3 DEF Png!NotAPng, Png!DecodeRow, Png!BadRow, Png!Finish, Png!MoreRows
\* The chunks before the last one.
<1>6. ASSUME at + 1 # end, UNCHANGED <<file, result>>, at' = at + 1,
             NEW next \in {<<>>, Head1}, chunk.type = "IHDR" => next # <<>>,
             next = <<>> => header = <<>>,
             acc' = [header |-> next, bitmap_data |-> joined[at + 1], rows |-> <<>>, data |-> <<>>]
      PROVE  InTheChunks(picture, w, joined, end)'
  <2>1. at' \in 0 .. end - 1
    BY <1>1, <1>6
  <2>2. next = <<>> => \A k \in 1 .. at' : file.chunks[k].type # "IHDR"
    <3> SUFFICES ASSUME next = <<>>, NEW k \in 1 .. at + 1 PROVE file.chunks[k].type # "IHDR"
      BY <1>6
    <3>1. k = at + 1 \/ k \in 1 .. at
      BY <1>1
    <3> QED BY <1>2, <1>6, <3>1
  <2> QED BY <1>6, <2>1, <2>2 DEF InTheChunks, HeaderOf
<1>7. CASE Png!ProcessIHDR
  <2>1. chunk.type = "IHDR" /\ at + 1 # end
    BY <1>4, <1>7 DEF Png!ProcessIHDR, Png!AtChunk
  <2>2. at + 1 \in 1 .. end - 1
    BY <1>1, <2>1
  <2>3. chunk.data = <<w, Len(picture), 8, 2, 0, 0, 0>> /\ joined[at + 1] = joined[at]
    BY <1>1, <2>1, <2>2
  <2>4. Png!Fields = Head1
    BY <2>3 DEF Png!Fields, Png!Data, HeaderOf
  <2>5. Png!Supported(Png!Fields)
    BY <2>4 DEF Png!Supported, HeaderOf
  <2>6. Png!GoesOn(at + 1, [acc EXCEPT !.header = Head1])
    BY <1>7, <2>4, <2>5 DEF Png!ProcessIHDR
  <2>7. /\ UNCHANGED <<file, result>> /\ at' = at + 1
        /\ acc' = [header |-> Head1, bitmap_data |-> joined[at + 1], rows |-> <<>>, data |-> <<>>]
    BY <1>2, <2>3, <2>6 DEF Png!GoesOn
  <2>8. Head1 # <<>>
    <3>1. DOMAIN Head1 # {} /\ DOMAIN <<>> = {}
      BY DEF HeaderOf
    <3> QED BY <3>1
  <2> QED BY <1>6, <2>1, <2>7, <2>8
<1>8. CASE Png!ProcessIDAT
  <2>1. chunk.type = "IDAT" /\ at + 1 # end
    BY <1>4, <1>8 DEF Png!ProcessIDAT, Png!AtChunk
  <2>2. at + 1 \in 1 .. end - 1 /\ (at + 1) - 1 = at
    BY <1>1, <2>1
  <2>3. joined[at + 1] = joined[at] \o chunk.data
    BY <1>1, <2>1, <2>2
  <2>4. /\ UNCHANGED <<file, result>> /\ at' = at + 1
        /\ acc' = [header |-> header, bitmap_data |-> joined[at + 1], rows |-> <<>>, data |-> <<>>]
    BY <1>2, <1>8, <2>3 DEF Png!ProcessIDAT, Png!GoesOn, Png!Data
  <2> QED BY <1>6, <2>1, <2>4
<1>9. CASE Png!IgnoreChunk
  <2>1. chunk.type \notin {"IHDR", "IDAT", "IEND"} /\ at + 1 # end
    BY <1>4, <1>9 DEF Png!IgnoreChunk
  <2>2. at + 1 \in 1 .. end - 1 /\ (at + 1) - 1 = at
    BY <1>1, <2>1
  <2>3. joined[at + 1] = joined[at]
    BY <1>1, <2>1, <2>2
  <2>4. /\ UNCHANGED <<file, result>> /\ at' = at + 1
        /\ acc' = [header |-> header, bitmap_data |-> joined[at + 1], rows |-> <<>>, data |-> <<>>]
    BY <1>2, <1>9, <2>3 DEF Png!IgnoreChunk, Png!GoesOn
  <2> QED BY <1>6, <2>1, <2>4
<1>10. CASE Png!ProcessIEND
  <2>1. at + 1 = end /\ acc.bitmap_data = stream
    <3>1. at + 1 = end /\ at = end - 1
      BY <1>1, <1>4, <1>10 DEF Png!ProcessIEND, Png!AtChunk
    <3> QED BY <1>1, <1>2, <3>1
  <2>2. header = Head1
    BY <1>1, <1>2, <2>1
  <2>3. rest[1] \in Seq(Int)
    <3>1. Len(picture) \in Nat /\ rest \in [1 .. Len(picture) + 1 -> Seq(Int)]
      <4>1. IsPicture(picture, w) /\ AreFiltered(picture, w, types, rest)
        BY DEF Encodes
      <4> QED BY <4>1 DEF AreFiltered, IsPicture
    <3>2. 1 \in 1 .. Len(picture) + 1
      BY <3>1
    <3> QED BY <3>1, <3>2
  <2>4. Len(stream) >= 2 /\ SubSeq(stream, 2, Len(stream) - 1) = rest[1]
    <3> DEFINE All == Int \cup {Png!Adler32(rest[1])}
    <3>1. rest[1] \in Seq(All) /\ <<120>> \in Seq(All) /\ <<Png!Adler32(rest[1])>> \in Seq(All)
      BY <2>3
    <3>2. stream = <<120>> \o rest[1] \o <<Png!Adler32(rest[1])>>
      BY DEF Png!Deflated
    <3> HIDE DEF stream, All
    <3> QED BY <3>1, <3>2
  <2>5. Png!Inflates(acc.bitmap_data) /\ acc.header # <<>>
    <3>1. DOMAIN Head1 # {} /\ DOMAIN <<>> = {}
      BY DEF HeaderOf
    <3> QED BY <1>2, <2>1, <2>2, <2>4, <3>1 DEF Png!Inflates
  <2>6. Png!GoesOn(at + 1,
          [acc EXCEPT !.rows = <<[x \in 1 .. 3 * (acc.header.width + 1) |-> 0]>>,
                      !.data = SubSeq(acc.bitmap_data, 2, Len(acc.bitmap_data) - 1)])
    BY <1>10, <2>5 DEF Png!ProcessIEND
  <2>7. <<[x \in 1 .. 3 * (acc.header.width + 1) |-> 0]>> =
          [j \in 1 .. 0 + 1 |-> Padded(Prior(picture, w, j))]
    <3>1. acc.header.width = w /\ w \in Nat
      BY <1>2, <2>2 DEF HeaderOf, Encodes, IsPicture
    <3>2. Prior(picture, w, 1) = [x \in 1 .. 3 * w |-> 0] /\ Len(Prior(picture, w, 1)) = 3 * w
      BY <3>1 DEF Prior
    <3>3. Padded(Prior(picture, w, 1)) = [x \in 1 .. 3 * (w + 1) |-> 0]
      BY <3>1, <3>2 DEF Padded
    <3>4. [j \in 1 .. 0 + 1 |-> Padded(Prior(picture, w, j))] = <<Padded(Prior(picture, w, 1))>>
      OBVIOUS
    <3> QED BY <3>1, <3>3, <3>4
  <2>8. /\ UNCHANGED <<file, result>>
        /\ acc' = [header |-> Head1, bitmap_data |-> stream,
                   rows |-> [j \in 1 .. 0 + 1 |-> Padded(Prior(picture, w, j))], data |-> rest[0 + 1]]
    <3> DEFINE first == <<[x \in 1 .. 3 * (acc.header.width + 1) |-> 0]>>
               left == SubSeq(acc.bitmap_data, 2, Len(acc.bitmap_data) - 1)
    <3>1. left = rest[1]
      BY <2>1, <2>4
    <3>2. UNCHANGED <<file, result>> /\ acc' = [acc EXCEPT !.rows = first, !.data = left]
      BY <2>6 DEF Png!GoesOn
    <3> HIDE DEF first, left, stream, Head1
    <3>3. acc = [header |-> Head1, bitmap_data |-> stream, rows |-> <<>>, data |-> <<>>]
      BY <1>2, <2>1, <2>2
    <3>4. acc' = [header |-> Head1, bitmap_data |-> stream, rows |-> first, data |-> rest[1]]
      BY <3>1, <3>2, <3>3
    <3>5. first = [j \in 1 .. 0 + 1 |-> Padded(Prior(picture, w, j))]
      BY <2>7 DEF first
    <3>6. 0 + 1 = 1
      OBVIOUS
    <3>7. acc' = [header |-> Head1, bitmap_data |-> stream, rows |-> first, data |-> rest[0 + 1]]
      BY <3>4, <3>6
    <3> QED BY <3>2, <3>5, <3>7
  <2>9. 0 \in 0 .. Len(picture)
    BY DEF Encodes, IsPicture
  <2> QED BY <2>8, <2>9 DEF InTheRows
<1> QED BY <1>5, <1>7, <1>8, <1>9, <1>10 DEF Png!Next

LEMMA RowStep ==
  ASSUME NEW picture, NEW w, NEW types, NEW rest, NEW joined, NEW end,
         Encodes(file, picture, w, types, rest, joined, end), Running,
         InTheRows(picture, w, rest, Png!Deflated(rest[1])), Png!Next
  PROVE  /\ UNCHANGED file /\ result' \in {Pending, Ok(picture)}
         /\ InTheRows(picture, w, rest, Png!Deflated(rest[1]))'
<1> DEFINE stream == Png!Deflated(rest[1])   Head1 == HeaderOf(picture, w)   h == Len(picture)
<1>1. /\ w \in Nat /\ picture \in Seq(Seq(Byte)) /\ h \in Nat
      /\ \A k \in 1 .. h : picture[k] \in Seq(Byte) /\ Len(picture[k]) = 3 * w /\ types[k] \in 0 .. 4
      /\ \A k \in 1 .. h + 1 : rest[k] \in Seq(Int)
      /\ rest[h + 1] = <<>>
      /\ \A k \in 1 .. h : rest[k] = Filtered(types[k], picture[k], Prior(picture, w, k)) \o rest[k + 1]
  <2>1. IsPicture(picture, w) /\ AreFiltered(picture, w, types, rest)
    BY DEF Encodes
  <2>2. /\ w \in Nat /\ picture \in Seq(Seq(Byte)) /\ h \in Nat
        /\ \A k \in 1 .. h : Len(picture[k]) = 3 * w
    BY <2>1 DEF IsPicture
  <2>3. \A k \in 1 .. h : picture[k] \in Seq(Byte)
    BY <2>2
  <2>4. /\ types \in [1 .. h -> 0 .. 4] /\ rest \in [1 .. h + 1 -> Seq(Int)] /\ rest[h + 1] = <<>>
        /\ \A k \in 1 .. h :
             rest[k] = Filtered(types[k], picture[k], Prior(picture, w, k)) \o rest[k + 1]
    BY <2>1 DEF AreFiltered
  <2> HIDE DEF h
  <2>5. (\A k \in 1 .. h : types[k] \in 0 .. 4) /\ \A k \in 1 .. h + 1 : rest[k] \in Seq(Int)
    BY <2>4
  <2> QED BY <2>2, <2>3, <2>4, <2>5
<1>2. \A k \in 1 .. h + 1 : Prior(picture, w, k) \in Seq(Byte) /\ Len(Prior(picture, w, k)) = 3 * w
  <2> TAKE k \in 1 .. h + 1
  <2>1. CASE k = 1
    <3>1. 0 \in Byte /\ 3 * w \in Nat
      BY <1>1 DEF Byte
    <3> QED BY <2>1, <3>1 DEF Prior
  <2>2. CASE k # 1
    <3>1. k - 1 \in 1 .. h
      BY <1>1, <2>2
    <3> QED BY <1>1, <2>2, <3>1 DEF Prior
  <2> QED BY <2>1, <2>2
<1>3. PICK k \in 0 .. h :
        acc = [header |-> Head1, bitmap_data |-> stream,
               rows |-> [j \in 1 .. k + 1 |-> Padded(Prior(picture, w, j))], data |-> rest[k + 1]]
  BY DEF InTheRows
<1> DEFINE rows == [j \in 1 .. k + 1 |-> Padded(Prior(picture, w, j))]
<1>4. /\ acc.rows = rows /\ acc.data = rest[k + 1] /\ acc.header = Head1
      /\ DOMAIN rows = 1 .. k + 1 /\ Len(rows) = k + 1 /\ rows # <<>>
      /\ k \in Nat /\ k + 1 \in 1 .. h + 1
  <2>1. k \in Nat /\ k + 1 \in 1 .. h + 1
    BY <1>1, <1>3
  <2>2. DOMAIN rows = 1 .. k + 1 /\ Len(rows) = k + 1 /\ rows # <<>>
    <3>1. rows \in Seq({Padded(Prior(picture, w, j)) : j \in 1 .. k + 1}) /\ DOMAIN rows = 1 .. k + 1
      BY <2>1
    <3>2. Len(rows) = k + 1
      BY <2>1, <3>1
    <3> QED BY <2>1, <3>1, <3>2
  <2> HIDE DEF rows, Head1
  <2>3. acc.rows = rows /\ acc.data = rest[k + 1] /\ acc.header = Head1
    BY <1>3 DEF rows
  <2> QED BY <2>1, <2>2, <2>3
<1>5. ~ Png!InChunks /\ Png!Height = h /\ Png!RowBytes = 3 * w /\ (Png!MoreRows <=> k < h)
  <2> HIDE DEF rows
  <2>1. acc.header.width = w /\ acc.header.height = h
    BY <1>4 DEF HeaderOf
  <2> QED BY <1>1, <1>4, <2>1 DEF Png!InChunks, Png!Height, Png!RowBytes, Png!MoreRows
<1>6. /\ ~ Png!NotAPng /\ ~ Png!ProcessIHDR /\ ~ Png!ProcessIDAT /\ ~ Png!IgnoreChunk
      /\ ~ Png!ProcessIEND
  BY <1>5 DEF Png!NotAPng, Png!ProcessIHDR, Png!ProcessIDAT, Png!IgnoreChunk,
              Png!ProcessIEND, Png!AtChunk
\* The next row.
<1> DEFINE filtered == Filtered(types[k + 1], picture[k + 1], Prior(picture, w, k + 1))
<1>7. ASSUME k < h
      PROVE  /\ acc.data = filtered \o rest[k + 2] /\ filtered \in Seq(Int) /\ rest[k + 2] \in Seq(Int)
             /\ Len(filtered) = 3 * w + 1 /\ filtered[1] = types[k + 1] /\ types[k + 1] \in 0 .. 4
             /\ k + 1 \in 1 .. h /\ acc.data # <<>> /\ acc.data[1] = types[k + 1]
  <2>1. k + 1 \in 1 .. h /\ k + 2 \in 1 .. h + 1 /\ (k + 1) + 1 = k + 2 /\ k + 1 \in 1 .. h + 1
    BY <1>1, <1>4, <1>7
  <2>2. acc.data = filtered \o rest[k + 2] /\ rest[k + 2] \in Seq(Int) /\ types[k + 1] \in 0 .. 4
    BY <1>1, <1>4, <2>1
  <2>3. /\ picture[k + 1] \in Seq(Byte) /\ Len(picture[k + 1]) = 3 * w
        /\ Prior(picture, w, k + 1) \in Seq(Byte) /\ Len(Prior(picture, w, k + 1)) = 3 * w
    BY <1>1, <1>2, <2>1
  <2>4. TakenFrom(types[k + 1], picture[k + 1], Prior(picture, w, k + 1), filtered)
    BY <2>2, <2>3, TakenIsAdded
  <2>5. filtered \in Seq(Int) /\ Len(filtered) = 3 * w + 1 /\ filtered[1] = types[k + 1]
    BY <2>3, <2>4 DEF TakenFrom
  <2> HIDE DEF filtered
  <2>6. acc.data # <<>> /\ acc.data[1] = types[k + 1]
    BY <1>1, <2>2, <2>5
  <2> QED BY <2>1, <2>2, <2>5, <2>6
<1>8. ~ Png!BadRow
  <2> SUFFICES ASSUME Png!BadRow PROVE FALSE
    OBVIOUS
  <2>1. k < h /\ (acc.data # <<>> => acc.data[1] > 4)
    BY <1>5 DEF Png!BadRow
  <2> HIDE DEF filtered
  <2>2. acc.data # <<>> /\ acc.data[1] \in 0 .. 4
    BY <1>7, <2>1
  <2> QED BY <2>1, <2>2
<1>9. CASE Png!DecodeRow
  <2>1. /\ k < h /\ acc.data = filtered \o rest[k + 2]
        /\ filtered \in Seq(Int) /\ rest[k + 2] \in Seq(Int)
        /\ Len(filtered) = 3 * w + 1 /\ filtered[1] = types[k + 1] /\ types[k + 1] \in 0 .. 4
        /\ k + 1 \in 1 .. h /\ acc.data # <<>> /\ acc.data[1] = types[k + 1]
    <3> HIDE DEF filtered
    <3>1. k < h
      BY <1>5, <1>9 DEF Png!DecodeRow
    <3> QED BY <1>7, <3>1
  <2> DEFINE n == IF Len(acc.data) < 1 + Png!RowBytes THEN Len(acc.data) ELSE 1 + Png!RowBytes
             row == Png!Unfilter(acc.data[1], acc.rows[Len(acc.rows)], SubSeq(acc.data, 2, n))
  <2>2. Png!GoesOn(at, [acc EXCEPT !.rows = Append(@, row), !.data = SubSeq(@, n + 1, Len(@))])
    BY <1>9 DEF Png!DecodeRow
  <2>3. n = 3 * w + 1 /\ SubSeq(acc.data, n + 1, Len(acc.data)) = rest[k + 2]
        /\ SubSeq(acc.data, 2, n) = SubSeq(filtered, 2, 3 * w + 1)
    <3> HIDE DEF filtered
    <3>1. 3 * w \in Nat /\ filtered # <<>>
      BY <1>1, <2>1
    <3> DEFINE d == filtered \o rest[k + 2]
    <3>2. /\ SubSeq(d, 2, Len(filtered)) = SubSeq(filtered, 2, Len(filtered))
          /\ SubSeq(d, Len(filtered) + 1, Len(d)) = rest[k + 2]
          /\ Len(d) \in Nat /\ Len(d) >= Len(filtered)
      BY <2>1, <3>1, CutAfter
    <3>3. acc.data = d
      BY <2>1
    <3> HIDE DEF d
    <3>4. n = 3 * w + 1
      BY <1>5, <2>1, <3>1, <3>2, <3>3
    <3> HIDE DEF n
    <3> QED BY <2>1, <3>2, <3>3, <3>4
  <2>4. acc.rows[Len(acc.rows)] = Padded(Prior(picture, w, k + 1))
    BY <1>4
  <2>5. Png!Unfilter(types[k + 1], Padded(Prior(picture, w, k + 1)),
                     SubSeq(filtered, 2, Len(picture[k + 1]) + 1))
          = Padded(picture[k + 1])
    <3>1. /\ picture[k + 1] \in Seq(Byte) /\ types[k + 1] \in 0 .. 4
          /\ Prior(picture, w, k + 1) \in Seq(Byte)
          /\ Len(Prior(picture, w, k + 1)) = Len(picture[k + 1]) /\ Len(picture[k + 1]) = 3 * w
      <4> HIDE DEF filtered
      <4> QED BY <1>1, <1>2, <1>4, <2>1
    <3> QED BY <3>1, UnfilterInvertsFilter
  <2>6. row = Padded(Prior(picture, w, k + 2))
    <3>1. Len(picture[k + 1]) = 3 * w /\ Prior(picture, w, k + 2) = picture[k + 1]
      BY <1>1, <1>4, <2>1 DEF Prior
    <3> HIDE DEF n, filtered
    <3> QED BY <2>1, <2>3, <2>4, <2>5, <3>1
  <2> HIDE DEF row, n, filtered
  <2>7. Append(acc.rows, row) = [j \in 1 .. (k + 1) + 1 |-> Padded(Prior(picture, w, j))]
    BY <1>4, <2>6
  <2>8. k + 1 \in 0 .. h /\ (k + 1) + 1 = k + 2
    BY <2>1
  <2>9. /\ UNCHANGED <<file, result>>
        /\ acc' = [header |-> Head1, bitmap_data |-> stream,
                   rows |-> [j \in 1 .. (k + 1) + 1 |-> Padded(Prior(picture, w, j))],
                   data |-> rest[(k + 1) + 1]]
    BY <1>3, <2>2, <2>3, <2>7, <2>8 DEF Png!GoesOn
  <2> QED BY <2>8, <2>9 DEF InTheRows, Running, Pending
<1>10. CASE Png!Finish
  <2>1. k = h /\ UNCHANGED <<file, acc>>
    BY <1>4, <1>5, <1>10 DEF Png!Finish, Png!Ends
  <2>2. ASSUME NEW y \in 1 .. h
        PROVE  SubSeq(acc.rows[y + 1], 4, Len(acc.rows[y + 1])) = picture[y]
    <3>1. acc.rows[y + 1] = Padded(picture[y])
      BY <1>1, <1>4, <2>1 DEF Prior
    <3>2. Padded(picture[y]) \in Seq(Byte) /\ Len(Padded(picture[y])) = Len(picture[y]) + 3
      <4>1. picture[y] \in Seq(Byte) /\ Len(picture[y]) + 3 \in Nat
        BY <1>1
      <4>2. \A x \in 1 .. Len(picture[y]) + 3 : Padded(picture[y])[x] \in Byte
        BY <4>1, PaddedBytes
      <4>3. Padded(picture[y]) = [x \in 1 .. Len(picture[y]) + 3 |-> Padded(picture[y])[x]]
        BY DEF Padded
      <4> QED BY <4>1, <4>2, <4>3
    <3>3. \A x \in 1 .. Len(picture[y]) : Padded(picture[y])[x + 3] = picture[y][x]
      BY <1>1 DEF Padded
    <3> QED BY <1>1, <3>1, <3>2, <3>3
  <2>3. [y \in 1 .. Png!Height |-> SubSeq(acc.rows[y + 1], 4, Len(acc.rows[y + 1]))] = picture
    <3>1. picture = [y \in 1 .. h |-> picture[y]]
      BY <1>1
    <3> QED BY <1>5, <2>2, <3>1
  <2>4. result' = Ok(picture)
    BY <1>10, <2>3 DEF Png!Finish, Png!Ends, Png!Ok, Ok
  <2> QED BY <1>3, <2>1, <2>4 DEF InTheRows
<1> QED BY <1>6, <1>8, <1>9, <1>10 DEF Png!Next

\* PNGReader gets the picture back from every file that follows the format:
\* of any size, with any filter in each row, its data in chunks of any length
\* with any others in between (decodepng.py: decode, _process_bitmap_data).
HoldsPicture(input, picture) ==
  \E w, types, rest, joined, end : Encodes(input, picture, w, types, rest, joined, end)
THEOREM PicturesComeBack ==
  ASSUME NEW picture
  PROVE  (\E input : HoldsPicture(input, picture) /\ Png!Init(input)) /\ [][Png!Next]_decodingVars
           => [](result \in {Pending, Ok(picture)})
<1> DEFINE Inv == \E w, types, rest, joined, end : Reads(picture, w, types, rest, joined, end)
<1>1. (\E input : HoldsPicture(input, picture) /\ Png!Init(input)) => Inv
  <2> SUFFICES ASSUME NEW input, HoldsPicture(input, picture), Png!Init(input) PROVE Inv
    OBVIOUS
  <2>1. PICK w, types, rest, joined, end : Encodes(input, picture, w, types, rest, joined, end)
    BY DEF HoldsPicture
  <2>2. /\ file = input /\ at = 0 /\ result = Pending
        /\ acc = [header |-> <<>>, bitmap_data |-> <<>>, rows |-> <<>>, data |-> <<>>]
    BY DEF Png!Init, Png!Begins, Png!Pending, Pending
  <2>3. joined[0] = <<>> /\ 0 \in 0 .. end - 1 /\ 1 .. 0 = {}
    BY <2>1 DEF Encodes, AreChunksOf
  <2>4. InTheChunks(picture, w, joined, end)
    BY <2>2, <2>3 DEF InTheChunks
  <2> QED BY <2>1, <2>2, <2>4 DEF Reads
<1>2. Inv /\ [Png!Next]_decodingVars => Inv'
  <2> SUFFICES ASSUME Inv, [Png!Next]_decodingVars PROVE Inv'
    OBVIOUS
  <2>1. PICK w, types, rest, joined, end : Reads(picture, w, types, rest, joined, end)
    OBVIOUS
  <2>2. Reads(picture, w, types, rest, joined, end)'
    <3>1. CASE UNCHANGED decodingVars
      BY <2>1, <3>1 DEF decodingVars, Reads, InTheChunks, InTheRows
    <3>2. CASE Png!Next
      <4>1. Running
        BY <3>2 DEF Png!Next, Png!NotAPng, Png!ProcessIHDR, Png!ProcessIDAT, Png!IgnoreChunk,
                    Png!ProcessIEND, Png!DecodeRow, Png!BadRow, Png!Finish,
                    Png!GoesOn, Png!Ends, Png!Running, Running,
                    Png!Pending, Pending
      <4> QED BY <2>1, <3>2, <4>1, ChunkStep, RowStep DEF Reads
    <3> QED BY <3>1, <3>2
  <2> QED BY <2>2
<1>3. Inv => result \in {Pending, Ok(picture)}
  BY DEF Reads
<1> QED BY <1>1, <1>2, <1>3, PTL

\* A file whose chunks are spoilt or cut short before IEND.
SpoiltBefore(input, end) ==
  /\ input.chunks \in Seq(AnyChunk) /\ end \in 1 .. Len(input.chunks) + 1
  /\ end <= Len(input.chunks) =>
       input.chunks[end].crc32 # Png!Crc32(input.chunks[end].type, input.chunks[end].data)
  /\ \A k \in 1 .. end - 1 : input.chunks[k].type # "IEND"
NothingDecoded(end) ==
  /\ SpoiltBefore(file, end) /\ at \in 0 .. end - 1 /\ result \in {Pending, Error}
  /\ \E header, bitmap_data :
       acc = [header |-> header, bitmap_data |-> bitmap_data, rows |-> <<>>, data |-> <<>>]

LEMMA SpoiltStep ==
  ASSUME NEW end, NothingDecoded(end), Png!Next PROVE NothingDecoded(end)'
<1>1. /\ at \in 0 .. end - 1 /\ end \in Nat \ {0} /\ Len(file.chunks) \in Nat
      /\ end <= Len(file.chunks) + 1
      /\ end <= Len(file.chunks) =>
           file.chunks[end].crc32 # Png!Crc32(file.chunks[end].type, file.chunks[end].data)
      /\ \A k \in 1 .. end - 1 : file.chunks[k].type # "IEND"
  BY DEF NothingDecoded, SpoiltBefore
<1>2. PICK header, bitmap_data :
        acc = [header |-> header, bitmap_data |-> bitmap_data, rows |-> <<>>, data |-> <<>>]
  BY DEF NothingDecoded
<1>3. Png!InChunks /\ (Png!Intact /\ at < Len(file.chunks) => at + 1 \in 0 .. end - 1)
  BY <1>1, <1>2 DEF Png!InChunks, Png!Intact, Png!Data
\* A chunk is read, or the file is refused.
<1>4. ASSUME Png!Ends(Error) PROVE NothingDecoded(end)'
  BY <1>4 DEF Png!Ends, NothingDecoded
<1>5. ASSUME at + 1 \in 0 .. end - 1, NEW state, Png!GoesOn(at + 1, state),
             \E h, b : state = [header |-> h, bitmap_data |-> b, rows |-> <<>>, data |-> <<>>]
      PROVE  NothingDecoded(end)'
  BY <1>5 DEF Png!GoesOn, NothingDecoded
<1>6. CASE Png!NotAPng
  BY <1>4, <1>6 DEF Png!NotAPng, Png!Error, Error
<1>7. CASE Png!ProcessIHDR
  <2>1. \E h, b : [acc EXCEPT !.header = Png!Fields] =
                    [header |-> h, bitmap_data |-> b, rows |-> <<>>, data |-> <<>>]
    <3>1. [acc EXCEPT !.header = Png!Fields] =
            [header |-> Png!Fields, bitmap_data |-> bitmap_data, rows |-> <<>>, data |-> <<>>]
      BY <1>2
    <3> QED BY <3>1
  <2> QED BY <1>3, <1>4, <1>5, <1>7, <2>1 DEF Png!ProcessIHDR, Png!AtChunk, Png!Error, Error
<1>8. CASE Png!ProcessIDAT
  <2>1. \E h, b : [acc EXCEPT !.bitmap_data = @ \o Png!Data] =
                    [header |-> h, bitmap_data |-> b, rows |-> <<>>, data |-> <<>>]
    <3>1. [acc EXCEPT !.bitmap_data = @ \o Png!Data] =
            [header |-> header, bitmap_data |-> bitmap_data \o Png!Data, rows |-> <<>>, data |-> <<>>]
      <4>1. acc.bitmap_data = bitmap_data
        BY <1>2
      <4> DEFINE more == bitmap_data \o Png!Data
      <4>2. [acc EXCEPT !.bitmap_data = @ \o Png!Data] = [acc EXCEPT !.bitmap_data = more]
        BY <4>1
      <4> HIDE DEF more
      <4>3. [acc EXCEPT !.bitmap_data = more] =
              [header |-> header, bitmap_data |-> more, rows |-> <<>>, data |-> <<>>]
        BY <1>2
      <4> QED BY <4>2, <4>3 DEF more
    <3> QED BY <3>1
  <2> QED BY <1>3, <1>5, <1>8, <2>1 DEF Png!ProcessIDAT, Png!AtChunk
<1>9. CASE Png!IgnoreChunk
  BY <1>2, <1>3, <1>5, <1>9 DEF Png!IgnoreChunk
<1>10. ~ Png!ProcessIEND
  <2> SUFFICES ASSUME Png!ProcessIEND PROVE FALSE
    OBVIOUS
  <2>1. at + 1 \in 1 .. end - 1 /\ file.chunks[at + 1].type = "IEND"
    BY <1>1, <1>3 DEF Png!ProcessIEND, Png!AtChunk
  <2> QED BY <1>1, <2>1
<1>11. ~ Png!DecodeRow /\ ~ Png!BadRow /\ ~ Png!Finish
  BY <1>3 DEF Png!DecodeRow, Png!BadRow, Png!Finish, Png!MoreRows
<1> QED BY <1>6, <1>7, <1>8, <1>9, <1>10, <1>11 DEF Png!Next

\* PNGReader makes no picture of a file that ends before IEND, or one of whose
\* chunks up to IEND does not have the checksum of what it holds
\* (decodepng.py: _read_chunk).
THEOREM SpoiltIsRefused ==
  (\E input, end : SpoiltBefore(input, end) /\ Png!Init(input)) /\ [][Png!Next]_decodingVars
    => [](result \in {Pending, Error})
<1> DEFINE Inv == \E end : NothingDecoded(end)
<1>1. (\E input, end : SpoiltBefore(input, end) /\ Png!Init(input)) => Inv
  <2> SUFFICES ASSUME NEW input, NEW end, SpoiltBefore(input, end), Png!Init(input) PROVE Inv
    OBVIOUS
  <2>1. /\ file = input /\ at = 0 /\ result = Pending
        /\ acc = [header |-> <<>>, bitmap_data |-> <<>>, rows |-> <<>>, data |-> <<>>]
    BY DEF Png!Init, Png!Begins, Png!Pending, Pending
  <2>2. 0 \in 0 .. end - 1
    BY DEF SpoiltBefore
  <2>3. NothingDecoded(end)
    BY <2>1, <2>2 DEF NothingDecoded
  <2> QED BY <2>3
<1>2. Inv /\ [Png!Next]_decodingVars => Inv'
  <2> SUFFICES ASSUME NEW end, NothingDecoded(end), [Png!Next]_decodingVars PROVE NothingDecoded(end)'
    OBVIOUS
  <2>1. CASE UNCHANGED decodingVars
    BY <2>1 DEF decodingVars, NothingDecoded
  <2> QED BY <2>1, SpoiltStep
<1>3. Inv => result \in {Pending, Error}
  BY DEF NothingDecoded
<1> QED BY <1>1, <1>2, <1>3, PTL

-----------------------------------------------------------------------------
(* parse_ini.  The greatest and the least of a set of positions.           *)
LEMMA Extremes ==
  ASSUME NEW n \in Nat, NEW S \in SUBSET (0 .. n), S # {}
  PROVE  /\ Max(S) \in S /\ \A y \in S : Max(S) >= y
         /\ Min(S) \in S /\ \A y \in S : Min(S) <= y
<1>1. \E x \in S : \A y \in S : x <= y
  BY Least
<1>2. \E x \in S : \A y \in S : x >= y
  <2> DEFINE T == {n - x : x \in S}
  <2>1. T \in SUBSET Nat
    <3>1. \A x \in S : n - x \in Nat
      OBVIOUS
    <3> QED BY <3>1
  <2> HIDE DEF T
  <2>5. T # {}
    BY DEF T
  <2>2. PICK t \in T : \A u \in T : t <= u
    BY <2>1, <2>5, Least
  <2>3. PICK x \in S : t = n - x
    BY <2>2 DEF T
  <2>4. \A y \in S : n - y \in T
    BY DEF T
  <2> QED BY <2>2, <2>3, <2>4
<1> QED BY <1>1, <1>2 DEF Max, Min

LEMMA SameExtremes == \A S : Ini!Max(S) = Max(S) /\ Ini!Min(S) = Min(S)
BY DEF Ini!Max, Max, Ini!Min, Min

\* What an INI file says, by positions of characters: s is what stands between
\* two positions of a text, without the spaces around it ...
Chars == Seq(STRING)
Trims(text, i, j, s) ==
  /\ s # <<>> => s[1] # Ini!Space /\ s[Len(s)] # Ini!Space
  /\ \E d \in i - 1 .. j - Len(s) :
       /\ \A k \in 1 .. Len(s) : text[d + k] = s[k]
       /\ \A k \in i .. j : k \in d + 1 .. d + Len(s) \/ text[k] = Ini!Space

\* ... and a header is all but spaces from one bracket to the other.
InBrackets(text, i, j) ==
  /\ i \in DOMAIN text /\ j \in DOMAIN text /\ i < j /\ text[i] = Ini!Opening /\ text[j] = Ini!Closing
  /\ \A k \in DOMAIN text : k < i \/ k > j => text[k] = Ini!Space
Bracketed(text) == \E i, j \in DOMAIN text : InBrackets(text, i, j)
Commented(text) == text # <<>> /\ text[1] = Ini!Semicolon

HeaderSays(line) ==
  /\ ~ Commented(line.text)
  /\ \E i, j \in DOMAIN line.text :
       InBrackets(line.text, i, j) /\ Trims(line.text, i + 1, j - 1, line.name)
KeySays(line) ==
  /\ ~ Commented(line.text) /\ ~ Bracketed(line.text)
  /\ \E i \in DOMAIN line.text :
       /\ line.text[i] = Ini!Equals /\ \A k \in 1 .. i - 1 : line.text[k] # Ini!Equals
       /\ Trims(line.text, 1, i - 1, line.name)
       /\ Trims(line.text, i + 1, Len(line.text), line.value)
NothingSays(line) ==
  \/ Commented(line.text)
  \/ ~ Bracketed(line.text) /\ \A k \in DOMAIN line.text : line.text[k] # Ini!Equals

IniLine == [text : Chars, kind : {"header", "key", "nothing"}, name : Chars, value : Chars]
SaysSo(line) ==
  /\ line \in IniLine
  /\ line.kind = "header" => HeaderSays(line)
  /\ line.kind = "key" => KeySays(line)
  /\ line.kind = "nothing" => NothingSays(line)

-----------------------------------------------------------------------------
\* What strip() leaves.
LEMMA StripsTo ==
  ASSUME NEW w \in Chars, NEW s \in Chars, Trims(w, 1, Len(w), s)
  PROVE  Ini!Strip(w) = s
<1> DEFINE ink == {i \in DOMAIN w : w[i] # Ini!Space}
<1>1. PICK d \in 0 .. Len(w) - Len(s) :
        /\ \A k \in 1 .. Len(s) : w[d + k] = s[k]
        /\ \A k \in 1 .. Len(w) : k \in d + 1 .. d + Len(s) \/ w[k] = Ini!Space
  BY DEF Trims
<1>2. Len(w) \in Nat /\ Len(s) \in Nat /\ DOMAIN w = 1 .. Len(w) /\ d + Len(s) <= Len(w)
  BY <1>1 DEF Chars
<1>3. ink \in SUBSET (0 .. Len(w)) /\ \A i \in ink : i \in d + 1 .. d + Len(s)
  BY <1>1, <1>2
<1>4. CASE s = <<>>
  <2>1. Len(s) = 0
    BY <1>4
  <2>2. ink = {}
    BY <1>2, <1>3, <2>1
  <2> QED BY <1>4, <2>2 DEF Ini!Strip
<1>5. CASE s # <<>>
  <2>1. Len(s) >= 1 /\ s[1] # Ini!Space /\ s[Len(s)] # Ini!Space
    <3>1. s[1] # Ini!Space /\ s[Len(s)] # Ini!Space
      BY <1>5 DEF Trims
    <3>2. Len(s) # 0
      BY <1>5 DEF Chars
    <3> QED BY <1>2, <3>1, <3>2
  <2>2. d + 1 \in ink /\ d + Len(s) \in ink
    <3>1. w[d + 1] = s[1] /\ w[d + Len(s)] = s[Len(s)]
      BY <1>1, <1>2, <2>1
    <3> QED BY <1>1, <1>2, <2>1, <3>1
  <2> HIDE DEF ink
  <2>3. ink # {}
    BY <2>2
  <2>4. /\ Max(ink) \in ink /\ \A y \in ink : Max(ink) >= y
        /\ Min(ink) \in ink /\ \A y \in ink : Min(ink) <= y
    BY <1>2, <1>3, <2>3, Extremes
  <2>5. Min(ink) = d + 1 /\ Max(ink) = d + Len(s)
    <3>1. Min(ink) \in d + 1 .. d + Len(s) /\ Max(ink) \in d + 1 .. d + Len(s)
      BY <1>3, <2>4
    <3>2. Min(ink) <= d + 1 /\ Max(ink) >= d + Len(s)
      BY <2>2, <2>4
    <3> QED BY <1>1, <1>2, <3>1, <3>2
  <2>6. Ini!Strip(w) = SubSeq(w, d + 1, d + Len(s))
    <3>1. Ini!Strip(w) = SubSeq(w, Ini!Min(ink), Ini!Max(ink))
      BY <2>3 DEF Ini!Strip, ink
    <3> QED BY <2>5, <3>1, SameExtremes
  <2>7. SubSeq(w, d + 1, d + Len(s)) = s
    BY <1>1, <1>2, <2>1 DEF Chars
  <2> QED BY <2>6, <2>7
<1> QED BY <1>4, <1>5

\* A part of a text.
LEMMA PartStripsTo ==
  ASSUME NEW w \in Chars, NEW s \in Chars, NEW i \in 1 .. Len(w) + 1, NEW j \in i - 1 .. Len(w),
         Trims(w, i, j, s)
  PROVE  Ini!Strip(SubSeq(w, i, j)) = s
<1> DEFINE v == SubSeq(w, i, j)
<1>1. /\ v \in Chars /\ Len(v) = (j - i) + 1 /\ Len(w) \in Nat
      /\ \A k \in 1 .. Len(v) : v[k] = w[(i - 1) + k]
  BY DEF Chars
<1>2. PICK d \in i - 1 .. j - Len(s) :
        /\ \A k \in 1 .. Len(s) : w[d + k] = s[k]
        /\ \A k \in i .. j : k \in d + 1 .. d + Len(s) \/ w[k] = Ini!Space
  BY DEF Trims
<1>3. Len(s) \in Nat
  BY DEF Chars
<1> HIDE DEF v
<1>4. Trims(v, 1, Len(v), s)
  <2> DEFINE e == d - (i - 1)
  <2>1. e \in 1 - 1 .. Len(v) - Len(s)
    BY <1>1, <1>2, <1>3
  <2>2. \A k \in 1 .. Len(s) : v[e + k] = s[k]
    <3> SUFFICES ASSUME NEW k \in 1 .. Len(s) PROVE v[e + k] = s[k]
      OBVIOUS
    <3>1. e + k \in 1 .. Len(v) /\ (i - 1) + (e + k) = d + k
      BY <1>1, <1>2, <1>3
    <3> QED BY <1>1, <1>2, <3>1
  <2>3. \A k \in 1 .. Len(v) : k \in e + 1 .. e + Len(s) \/ v[k] = Ini!Space
    <3> SUFFICES ASSUME NEW k \in 1 .. Len(v), k \notin e + 1 .. e + Len(s) PROVE v[k] = Ini!Space
      OBVIOUS
    <3>1. (i - 1) + k \in i .. j /\ (i - 1) + k \notin d + 1 .. d + Len(s)
      BY <1>1, <1>2, <1>3
    <3> QED BY <1>1, <1>2, <3>1
  <2> HIDE DEF e
  <2> QED BY <2>1, <2>2, <2>3 DEF Trims
<1> QED BY <1>1, <1>4, StripsTo DEF v

\* Spaces at the ends of a part of a text make no difference.
LEMMA TrimsLess ==
  ASSUME NEW w \in Chars, NEW s \in Chars, NEW i \in Nat, NEW j \in Nat, Trims(w, i, j, s),
         NEW a \in i .. j + 1, NEW b \in a - 1 .. j,
         \A k \in i .. j : k < a \/ k > b => w[k] = Ini!Space
  PROVE  Trims(w, a, b, s)
<1>1. PICK d \in i - 1 .. j - Len(s) :
        /\ \A k \in 1 .. Len(s) : w[d + k] = s[k]
        /\ \A k \in i .. j : k \in d + 1 .. d + Len(s) \/ w[k] = Ini!Space
  BY DEF Trims
<1>2. Len(s) \in Nat /\ (s # <<>> => Len(s) >= 1)
  <2>1. Len(s) \in Nat /\ (s # <<>> => Len(s) # 0)
    BY DEF Chars
  <2> QED BY <2>1
<1>3. CASE s = <<>>
  <2>1. Len(s) = 0
    BY <1>3
  <2>2. a - 1 \in a - 1 .. b - Len(s)
    BY <2>1
  <2>3. \A k \in a .. b : w[k] = Ini!Space
    <3> SUFFICES ASSUME NEW k \in a .. b PROVE w[k] = Ini!Space
      OBVIOUS
    <3>1. k \in i .. j /\ k \notin d + 1 .. d + Len(s)
      BY <2>1
    <3> QED BY <1>1, <3>1
  <2>4. \A k \in 1 .. Len(s) : FALSE
    BY <2>1
  <2> QED BY <1>3, <2>2, <2>3, <2>4 DEF Trims
<1>4. CASE s # <<>>
  <2>1. s[1] # Ini!Space /\ s[Len(s)] # Ini!Space /\ Len(s) >= 1
    BY <1>2, <1>4 DEF Trims
  <2>2. w[d + 1] = s[1] /\ w[d + Len(s)] = s[Len(s)]
    BY <1>1, <1>2, <2>1
  <2>3. d + 1 \in i .. j /\ d + Len(s) \in i .. j
    BY <1>1, <1>2, <2>1
  <2>4. d + 1 >= a /\ d + Len(s) <= b
    <3>1. ~ (d + 1 < a) /\ ~ (d + Len(s) > b)
      BY <2>1, <2>2, <2>3
    <3> QED BY <1>1, <1>2, <3>1
  <2>5. d \in a - 1 .. b - Len(s)
    BY <1>1, <1>2, <2>4
  <2>6. \A k \in a .. b : k \in i .. j
    OBVIOUS
  <2> QED BY <1>1, <1>4, <2>1, <2>5, <2>6 DEF Trims
<1> QED BY <1>3, <1>4

\* What strip() leaves of a text that is not all spaces, and what a part of that is.
LEMMA StripCuts ==
  ASSUME NEW w \in Chars, NEW c \in 1 .. Len(w), w[c] # Ini!Space
  PROVE  \E a \in 1 .. c, b \in c .. Len(w) :
           /\ w[a] # Ini!Space /\ w[b] # Ini!Space
           /\ \A k \in 1 .. Len(w) : k < a \/ k > b => w[k] = Ini!Space
           /\ Ini!Strip(w) = SubSeq(w, a, b)
<1> DEFINE ink == {i \in DOMAIN w : w[i] # Ini!Space}
<1>1. Len(w) \in Nat /\ DOMAIN w = 1 .. Len(w)
  BY DEF Chars
<1>2. ink \in SUBSET (0 .. Len(w)) /\ c \in ink
  BY <1>1
<1>3. \A k \in 1 .. Len(w) : k \in ink <=> w[k] # Ini!Space
  BY <1>1
<1>4. Ini!Strip(w) = SubSeq(w, Ini!Min(ink), Ini!Max(ink))
  BY <1>2 DEF Ini!Strip
<1>5. \A k \in ink : k \in 1 .. Len(w)
  BY <1>1
<1> HIDE DEF ink
<1>6. /\ Max(ink) \in ink /\ \A y \in ink : Max(ink) >= y
      /\ Min(ink) \in ink /\ \A y \in ink : Min(ink) <= y
  BY <1>1, <1>2, Extremes
<1> DEFINE a == Min(ink)   b == Max(ink)
<1>7. Ini!Strip(w) = SubSeq(w, a, b)
  BY <1>4, SameExtremes
<1> HIDE DEF a, b
<1>8. a \in ink /\ b \in ink /\ \A y \in ink : a <= y /\ y <= b
  BY <1>5, <1>6 DEF a, b
<1>9. a \in 1 .. c /\ b \in c .. Len(w)
  BY <1>2, <1>5, <1>8
<1>10. \A k \in 1 .. Len(w) : k < a \/ k > b => w[k] = Ini!Space
  BY <1>3, <1>8, <1>9
<1>11. w[a] # Ini!Space /\ w[b] # Ini!Space
  BY <1>3, <1>5, <1>8
<1> HIDE DEF ink
<1> QED BY <1>7, <1>9, <1>10, <1>11

LEMMA PartOfPart ==
  ASSUME NEW w \in Chars, NEW a \in 1 .. Len(w), NEW b \in a .. Len(w)
  PROVE  /\ SubSeq(w, a, b) \in Chars /\ Len(SubSeq(w, a, b)) = (b - a) + 1
         /\ \A k \in 1 .. (b - a) + 1 : SubSeq(w, a, b)[k] = w[(a - 1) + k]
         /\ \A i \in a .. b + 1, j \in a - 1 .. b : i <= j + 1 =>
              SubSeq(SubSeq(w, a, b), (i - a) + 1, (j - a) + 1) = SubSeq(w, i, j)
<1> DEFINE v == SubSeq(w, a, b)
<1>1. /\ v \in Chars /\ Len(v) = (b - a) + 1 /\ Len(w) \in Nat
      /\ \A k \in 1 .. (b - a) + 1 : v[k] = w[(a - 1) + k]
  BY DEF Chars
<1> HIDE DEF v
<1>2. ASSUME NEW i \in a .. b + 1, NEW j \in a - 1 .. b, i <= j + 1
      PROVE  SubSeq(v, (i - a) + 1, (j - a) + 1) = SubSeq(w, i, j)
  <2> DEFINE x == SubSeq(v, (i - a) + 1, (j - a) + 1)   y == SubSeq(w, i, j)
  <2>1. /\ x \in Chars /\ Len(x) = (j - i) + 1
        /\ \A k \in 1 .. Len(x) : x[k] = v[(i - a) + k]
    BY <1>1, <1>2 DEF Chars
  <2>2. /\ y \in Chars /\ Len(y) = (j - i) + 1
        /\ \A k \in 1 .. Len(y) : y[k] = w[(i - 1) + k]
    BY <1>1, <1>2 DEF Chars
  <2> HIDE DEF x, y
  <2>3. \A k \in 1 .. Len(x) : x[k] = y[k]
    <3> SUFFICES ASSUME NEW k \in 1 .. Len(x) PROVE x[k] = y[k]
      OBVIOUS
    <3>1. (i - a) + k \in 1 .. (b - a) + 1 /\ (a - 1) + ((i - a) + k) = (i - 1) + k
      BY <1>2, <2>1
    <3> QED BY <1>1, <2>1, <2>2, <3>1
  <2>4. x = y
    BY <2>1, <2>2, <2>3, SeqEqual DEF Chars
  <2> QED BY <2>4 DEF x, y
<1> QED BY <1>1, <1>2 DEF v

-----------------------------------------------------------------------------
\* What the reader makes of a line.
LEMMA Marks ==
  /\ Ini!Opening # Ini!Space /\ Ini!Closing # Ini!Space /\ Ini!Equals # Ini!Space
  /\ Ini!Opening # Ini!Closing
BY Zenon DEF Ini!Opening, Ini!Closing, Ini!Equals, Ini!Space

LEMMA CommentOrNot == ASSUME NEW text, Ini!Line = text PROVE Ini!IsComment <=> Commented(text)
BY DEF Ini!IsComment, Commented

LEMMA HeaderIsBracketed ==
  ASSUME NEW text \in Chars, Ini!Line = text, Ini!IsHeader PROVE Bracketed(text)
<1> DEFINE st == Ini!Strip(text)
<1>1. Ini!Stripped = st
  BY DEF Ini!Stripped
<1>2. st # <<>> /\ st[1] = Ini!Opening /\ st[Len(st)] = Ini!Closing
  BY <1>1 DEF Ini!IsHeader
<1>3. PICK c \in 1 .. Len(text) : text[c] # Ini!Space
  <2> SUFFICES ASSUME \A c \in 1 .. Len(text) : text[c] = Ini!Space PROVE FALSE
    OBVIOUS
  <2>1. {i \in DOMAIN text : text[i] # Ini!Space} = {}
    BY DEF Chars
  <2>2. st = <<>>
    BY <2>1 DEF Ini!Strip
  <2> QED BY <1>2, <2>2
<1>4. PICK a \in 1 .. c, b \in c .. Len(text) :
        /\ text[a] # Ini!Space /\ text[b] # Ini!Space
        /\ \A k \in 1 .. Len(text) : k < a \/ k > b => text[k] = Ini!Space
        /\ st = SubSeq(text, a, b)
  BY <1>3, StripCuts
<1>5. Len(text) \in Nat /\ DOMAIN text = 1 .. Len(text)
  BY DEF Chars
<1>6. a \in 1 .. Len(text) /\ b \in a .. Len(text)
  BY <1>3, <1>4, <1>5
<1>7. /\ Len(SubSeq(text, a, b)) = (b - a) + 1
      /\ \A k \in 1 .. (b - a) + 1 : SubSeq(text, a, b)[k] = text[(a - 1) + k]
  BY <1>6, PartOfPart
<1> HIDE DEF st
<1>8. Len(st) = (b - a) + 1 /\ \A k \in 1 .. (b - a) + 1 : st[k] = text[(a - 1) + k]
  BY <1>4, <1>7
<1>9. text[a] = Ini!Opening /\ text[b] = Ini!Closing
  <2>1. 1 \in 1 .. (b - a) + 1 /\ (b - a) + 1 \in 1 .. (b - a) + 1
    BY <1>6, <1>5
  <2>2. (a - 1) + 1 = a /\ (a - 1) + ((b - a) + 1) = b
    BY <1>6, <1>5
  <2> QED BY <1>2, <1>8, <2>1, <2>2
<1>10. a # b
  BY <1>9, Marks
<1>11. InBrackets(text, a, b)
  BY <1>4, <1>5, <1>6, <1>9, <1>10 DEF InBrackets
<1> QED BY <1>5, <1>6, <1>11 DEF Bracketed

LEMMA HeaderRead ==
  ASSUME NEW line, SaysSo(line), line.kind = "header", Ini!Line = line.text
  PROVE  /\ ~ Ini!IsComment /\ Ini!IsHeader
         /\ Ini!Strip(SubSeq(Ini!Stripped, 2, Len(Ini!Stripped) - 1)) = line.name
<1> DEFINE text == line.text
<1>1. text \in Chars /\ line.name \in Chars /\ HeaderSays(line)
  BY DEF SaysSo, IniLine
<1>2. ~ Ini!IsComment
  BY <1>1, CommentOrNot DEF HeaderSays
<1>3. PICK i \in DOMAIN text, j \in DOMAIN text :
        InBrackets(text, i, j) /\ Trims(text, i + 1, j - 1, line.name)
  BY <1>1 DEF HeaderSays
<1>4. Len(text) \in Nat /\ DOMAIN text = 1 .. Len(text)
  BY <1>1 DEF Chars
<1> HIDE DEF text
<1>5. /\ i \in 1 .. Len(text) /\ j \in 1 .. Len(text) /\ i < j
      /\ text[i] = Ini!Opening /\ text[j] = Ini!Closing
      /\ \A k \in 1 .. Len(text) : k < i \/ k > j => text[k] = Ini!Space
  BY <1>3, <1>4 DEF InBrackets
<1>6. text[i] # Ini!Space /\ text[j] # Ini!Space
  BY <1>5, Marks
<1>7. PICK a \in 1 .. i, b \in i .. Len(text) :
        /\ text[a] # Ini!Space /\ text[b] # Ini!Space
        /\ \A k \in 1 .. Len(text) : k < a \/ k > b => text[k] = Ini!Space
        /\ Ini!Strip(text) = SubSeq(text, a, b)
  BY <1>1, <1>5, <1>6, StripCuts DEF text
<1>8. a = i /\ b = j
  <2>1. ~ (a < i) /\ ~ (b > j) /\ ~ (j > b)
    BY <1>4, <1>5, <1>6, <1>7
  <2> QED BY <1>4, <1>5, <1>7, <2>1
<1> DEFINE st == SubSeq(text, i, j)
<1>9. Ini!Stripped = st
  BY <1>7, <1>8 DEF Ini!Stripped, text
<1>10. /\ st \in Chars /\ Len(st) = (j - i) + 1
       /\ \A k \in 1 .. (j - i) + 1 : st[k] = text[(i - 1) + k]
       /\ \A p \in i .. j + 1, q \in i - 1 .. j : p <= q + 1 =>
            SubSeq(st, (p - i) + 1, (q - i) + 1) = SubSeq(text, p, q)
  <2>1. j \in i .. Len(text)
    BY <1>4, <1>5
  <2> QED BY <1>1, <1>5, <2>1, PartOfPart DEF text
<1> HIDE DEF st
<1>11. st # <<>> /\ st[1] = Ini!Opening /\ st[Len(st)] = Ini!Closing
  <2>1. 1 \in 1 .. (j - i) + 1 /\ (j - i) + 1 \in 1 .. (j - i) + 1 /\ (j - i) + 1 > 0
    BY <1>5
  <2>2. (i - 1) + 1 = i /\ (i - 1) + ((j - i) + 1) = j
    BY <1>5
  <2>3. st # <<>>
    BY <1>10, <2>1
  <2> QED BY <1>5, <1>10, <2>1, <2>2, <2>3
<1>12. Ini!IsHeader
  BY <1>2, <1>9, <1>11 DEF Ini!IsHeader
<1>13. SubSeq(st, 2, Len(st) - 1) = SubSeq(text, i + 1, j - 1)
  <2>1. ((i + 1) - i) + 1 = 2 /\ ((j - 1) - i) + 1 = Len(st) - 1
    BY <1>5, <1>10
  <2>2. i + 1 \in i .. j + 1 /\ j - 1 \in i - 1 .. j /\ i + 1 <= (j - 1) + 1
    BY <1>5
  <2> QED BY <1>10, <2>1, <2>2
<1>14. Ini!Strip(SubSeq(text, i + 1, j - 1)) = line.name
  <2>1. i + 1 \in 1 .. Len(text) + 1 /\ j - 1 \in (i + 1) - 1 .. Len(text)
    BY <1>4, <1>5
  <2> QED BY <1>1, <1>3, <2>1, PartStripsTo DEF text
<1> QED BY <1>2, <1>9, <1>12, <1>13, <1>14

LEMMA NothingRead ==
  ASSUME NEW line, SaysSo(line), line.kind = "nothing", Ini!Line = line.text
  PROVE  Ini!IsComment \/ (~ Ini!IsHeader /\ Ini!Signs = {})
<1> DEFINE text == line.text
<1>1. text \in Chars /\ NothingSays(line)
  BY DEF SaysSo, IniLine
<1> SUFFICES ASSUME ~ Ini!IsComment PROVE ~ Ini!IsHeader /\ Ini!Signs = {}
  OBVIOUS
<1>2. ~ Bracketed(text) /\ \A k \in DOMAIN text : text[k] # Ini!Equals
  BY <1>1, CommentOrNot DEF NothingSays
<1>3. ~ Ini!IsHeader
  BY <1>1, <1>2, HeaderIsBracketed
<1>4. Len(text) \in Nat /\ DOMAIN text = 1 .. Len(text)
  BY <1>1 DEF Chars
<1>5. CASE \A c \in 1 .. Len(text) : text[c] = Ini!Space
  <2>1. {i \in DOMAIN text : text[i] # Ini!Space} = {}
    BY <1>4, <1>5
  <2>2. Ini!Stripped = <<>>
    BY <2>1 DEF Ini!Strip, Ini!Stripped
  <2>3. Ini!Signs = {}
    BY <2>2 DEF Ini!Signs
  <2> QED BY <1>3, <2>3
<1>6. ASSUME NEW c \in 1 .. Len(text), text[c] # Ini!Space PROVE Ini!Signs = {}
  <2> HIDE DEF text
  <2>1. PICK a \in 1 .. c, b \in c .. Len(text) : Ini!Strip(text) = SubSeq(text, a, b)
    BY <1>1, <1>6, StripCuts DEF text
  <2>2. a \in 1 .. Len(text) /\ b \in a .. Len(text)
    BY <1>4, <1>6, <2>1
  <2> DEFINE st == SubSeq(text, a, b)
  <2>3. /\ st \in Chars /\ Len(st) = (b - a) + 1
        /\ \A k \in 1 .. (b - a) + 1 : st[k] = text[(a - 1) + k]
    BY <1>1, <2>2, PartOfPart DEF text
  <2>4. Ini!Stripped = st
    BY <2>1 DEF Ini!Stripped, text
  <2> HIDE DEF st
  <2>5. DOMAIN st = 1 .. (b - a) + 1
    BY <2>3 DEF Chars
  <2>6. \A k \in DOMAIN st : st[k] # Ini!Equals
    <3> SUFFICES ASSUME NEW k \in 1 .. (b - a) + 1 PROVE st[k] # Ini!Equals
      BY <2>5
    <3>1. (a - 1) + k \in DOMAIN text
      BY <1>4, <2>2
    <3> QED BY <1>2, <2>3, <3>1 DEF text
  <2> QED BY <2>4, <2>6 DEF Ini!Signs
<1> QED BY <1>3, <1>5, <1>6

LEMMA KeyRead ==
  ASSUME NEW line, SaysSo(line), line.kind = "key", Ini!Line = line.text
  PROVE  /\ ~ Ini!IsComment /\ ~ Ini!IsHeader /\ Ini!Signs # {}
         /\ Ini!Strip(SubSeq(Ini!Stripped, 1, Ini!SplitAt(Ini!Signs) - 1)) = line.name
         /\ Ini!Strip(SubSeq(Ini!Stripped, Ini!SplitAt(Ini!Signs) + 1, Len(Ini!Stripped))) = line.value
<1> DEFINE text == line.text
<1>1. text \in Chars /\ line.name \in Chars /\ line.value \in Chars /\ KeySays(line)
  BY DEF SaysSo, IniLine
<1>2. ~ Ini!IsComment /\ ~ Ini!IsHeader
  BY <1>1, CommentOrNot, HeaderIsBracketed DEF KeySays
<1>3. PICK i \in DOMAIN text :
        /\ text[i] = Ini!Equals /\ \A k \in 1 .. i - 1 : text[k] # Ini!Equals
        /\ Trims(text, 1, i - 1, line.name) /\ Trims(text, i + 1, Len(text), line.value)
  BY <1>1 DEF KeySays
<1>4. Len(text) \in Nat /\ DOMAIN text = 1 .. Len(text)
  BY <1>1 DEF Chars
<1> HIDE DEF text
<1>5. i \in 1 .. Len(text) /\ text[i] # Ini!Space
  BY <1>3, <1>4, Marks
<1>6. PICK a \in 1 .. i, b \in i .. Len(text) :
        /\ \A k \in 1 .. Len(text) : k < a \/ k > b => text[k] = Ini!Space
        /\ Ini!Strip(text) = SubSeq(text, a, b)
  BY <1>1, <1>5, StripCuts DEF text
<1> DEFINE st == SubSeq(text, a, b)   s == (i - a) + 1
<1>7. Ini!Stripped = st
  BY <1>6 DEF Ini!Stripped, text
<1>8. /\ st \in Chars /\ Len(st) = (b - a) + 1
      /\ \A k \in 1 .. (b - a) + 1 : st[k] = text[(a - 1) + k]
      /\ \A p \in a .. b + 1, q \in a - 1 .. b : p <= q + 1 =>
           SubSeq(st, (p - a) + 1, (q - a) + 1) = SubSeq(text, p, q)
  <2>1. a \in 1 .. Len(text) /\ b \in a .. Len(text)
    BY <1>4, <1>5, <1>6
  <2> QED BY <1>1, <2>1, PartOfPart DEF text
<1> HIDE DEF st
<1>9. DOMAIN st = 1 .. (b - a) + 1
  BY <1>8 DEF Chars
<1>10. s \in 1 .. (b - a) + 1 /\ (a - 1) + s = i
  BY <1>5, <1>6
<1>11. s \in Ini!Signs
  BY <1>3, <1>7, <1>8, <1>9, <1>10 DEF Ini!Signs
<1>12. \A k \in Ini!Signs : k \in 1 .. (b - a) + 1 /\ k >= s
  <2> SUFFICES ASSUME NEW k \in Ini!Signs PROVE k \in 1 .. (b - a) + 1 /\ k >= s
    OBVIOUS
  <2>1. k \in 1 .. (b - a) + 1 /\ st[k] = Ini!Equals
    BY <1>7, <1>9 DEF Ini!Signs
  <2>2. text[(a - 1) + k] = Ini!Equals
    BY <1>8, <2>1
  <2>3. (a - 1) + k \notin 1 .. i - 1
    BY <1>3, <2>2
  <2> QED BY <1>5, <1>6, <2>1, <2>3
<1>13. Ini!SplitAt(Ini!Signs) = s
  <2>1. Ini!Signs \in SUBSET (0 .. Len(st)) /\ Ini!Signs # {} /\ Len(st) \in Nat
    BY <1>5, <1>6, <1>8, <1>11, <1>12
  <2>2. Min(Ini!Signs) \in Ini!Signs /\ \A y \in Ini!Signs : Min(Ini!Signs) <= y
    BY <2>1, Extremes
  <2>3. Min(Ini!Signs) <= s /\ Min(Ini!Signs) >= s /\ Min(Ini!Signs) \in Int
    BY <1>11, <1>12, <2>2
  <2>4. Min(Ini!Signs) = s
    BY <1>10, <2>3
  <2> QED BY <2>4, SameExtremes DEF Ini!SplitAt
<1>14. Ini!Strip(SubSeq(st, 1, s - 1)) = line.name
  <2>1. SubSeq(st, 1, s - 1) = SubSeq(text, a, i - 1)
    <3>1. (a - a) + 1 = 1 /\ ((i - 1) - a) + 1 = s - 1
      BY <1>5, <1>6
    <3>2. a \in a .. b + 1 /\ i - 1 \in a - 1 .. b /\ a <= (i - 1) + 1
      BY <1>5, <1>6
    <3> QED BY <1>8, <3>1, <3>2
  <2>2. Trims(text, a, i - 1, line.name)
    <3>1. 1 \in Nat /\ i - 1 \in Nat /\ a \in 1 .. (i - 1) + 1 /\ i - 1 \in a - 1 .. i - 1
      BY <1>5, <1>6
    <3>2. \A k \in 1 .. i - 1 : k < a \/ k > i - 1 => text[k] = Ini!Space
      BY <1>4, <1>5, <1>6
    <3> QED BY <1>1, <1>3, <3>1, <3>2, TrimsLess DEF text
  <2>3. a \in 1 .. Len(text) + 1 /\ i - 1 \in a - 1 .. Len(text)
    BY <1>4, <1>5, <1>6
  <2>4. Ini!Strip(SubSeq(text, a, i - 1)) = line.name
    BY <1>1, <2>2, <2>3, PartStripsTo DEF text
  <2> QED BY <2>1, <2>4
<1>15. Ini!Strip(SubSeq(st, s + 1, Len(st))) = line.value
  <2>1. SubSeq(st, s + 1, Len(st)) = SubSeq(text, i + 1, b)
    <3>1. ((i + 1) - a) + 1 = s + 1 /\ (b - a) + 1 = Len(st)
      BY <1>5, <1>6, <1>8
    <3>2. i + 1 \in a .. b + 1 /\ b \in a - 1 .. b /\ i + 1 <= b + 1
      BY <1>5, <1>6
    <3> QED BY <1>8, <3>1, <3>2
  <2>2. Trims(text, i + 1, b, line.value)
    <3>1. i + 1 \in Nat /\ Len(text) \in Nat /\ i + 1 \in i + 1 .. Len(text) + 1 /\ b \in (i + 1) - 1 .. Len(text)
      BY <1>4, <1>5, <1>6
    <3>2. \A k \in i + 1 .. Len(text) : k < i + 1 \/ k > b => text[k] = Ini!Space
      BY <1>4, <1>5, <1>6
    <3> QED BY <1>1, <1>3, <3>1, <3>2, TrimsLess DEF text
  <2>3. i + 1 \in 1 .. Len(text) + 1 /\ b \in (i + 1) - 1 .. Len(text)
    BY <1>4, <1>5, <1>6
  <2>4. Ini!Strip(SubSeq(text, i + 1, b)) = line.value
    BY <1>1, <2>2, <2>3, PartStripsTo DEF text
  <2> QED BY <2>1, <2>4
<1> HIDE DEF s
<1> QED BY <1>2, <1>7, <1>11, <1>13, <1>14, <1>15

-----------------------------------------------------------------------------
\* What a file means, line by line.
HeadersOf(said) == {k \in DOMAIN said : said[k].kind = "header"}
OpenedAt(said, s) == Max({k \in HeadersOf(said) : said[k].name = s} \cup {0})
KeysIn(said, s) ==
  {k \in DOMAIN said : /\ said[k].kind = "key" /\ k > OpenedAt(said, s)
                       /\ \A h \in HeadersOf(said) : h <= OpenedAt(said, s) \/ h > k}
SectionsOf(said) == {Ini!Global} \cup {said[k].name : k \in HeadersOf(said)}
NamesIn(said, s) == {said[k].name : k \in KeysIn(said, s)}
WithName(said, s, n) == {k \in KeysIn(said, s) : said[k].name = n}
SectionOf(said) ==
  IF HeadersOf(said) = {} THEN Ini!Global ELSE said[Max(HeadersOf(said))].name

SectionSays(said, s) == [n \in NamesIn(said, s) |-> said[Max(WithName(said, s, n))].value]

LEMMA MeaningIs ==
  ASSUME NEW said PROVE Meaning(said) = [s \in SectionsOf(said) |-> SectionSays(said, s)]
BY DEF Meaning, HeadersOf, OpenedAt, KeysIn, SectionsOf, NamesIn, WithName, SectionSays

Said == Seq(IniLine)

\* One more line.
LEMMA OneMore ==
  ASSUME NEW said \in Said, NEW line \in IniLine
  PROVE  /\ Len(said) \in Nat /\ Append(said, line) \in Said
         /\ DOMAIN said = 1 .. Len(said) /\ DOMAIN Append(said, line) = 1 .. Len(said) + 1
         /\ \A k \in 1 .. Len(said) : Append(said, line)[k] = said[k]
         /\ Append(said, line)[Len(said) + 1] = line
         /\ HeadersOf(said) \in SUBSET (1 .. Len(said))
         /\ HeadersOf(Append(said, line)) =
              HeadersOf(said) \cup (IF line.kind = "header" THEN {Len(said) + 1} ELSE {})
<1> DEFINE n == Len(said)   more == Append(said, line)
<1>1. /\ n \in Nat /\ more \in Said /\ DOMAIN said = 1 .. n /\ DOMAIN more = 1 .. n + 1
      /\ \A k \in 1 .. n : more[k] = said[k]
      /\ more[n + 1] = line
  BY DEF Said
<1>2. HeadersOf(said) \in SUBSET (1 .. n)
  BY <1>1 DEF HeadersOf
<1> HIDE DEF n, more
<1>3. HeadersOf(more) = HeadersOf(said) \cup (IF line.kind = "header" THEN {n + 1} ELSE {})
  <2>1. \A k \in 1 .. n : k \in HeadersOf(more) <=> k \in HeadersOf(said)
    BY <1>1 DEF HeadersOf
  <2>2. n + 1 \in HeadersOf(more) <=> line.kind = "header"
    BY <1>1 DEF HeadersOf
  <2>3. \A k \in HeadersOf(more) : k \in 1 .. n \/ k = n + 1
    BY <1>1 DEF HeadersOf
  <2> QED BY <1>1, <1>2, <2>1, <2>2, <2>3
<1> QED BY <1>1, <1>2, <1>3 DEF n, more

LEMMA OpenedType ==
  ASSUME NEW said \in Said, NEW s
  PROVE  /\ OpenedAt(said, s) \in 0 .. Len(said)
         /\ OpenedAt(said, s) # 0 =>
              OpenedAt(said, s) \in HeadersOf(said) /\ said[OpenedAt(said, s)].name = s
         /\ \A k \in HeadersOf(said) : said[k].name = s => k <= OpenedAt(said, s)
<1> DEFINE these == {k \in HeadersOf(said) : said[k].name = s} \cup {0}
<1>1. these \in SUBSET (0 .. Len(said)) /\ these # {} /\ Len(said) \in Nat
  BY DEF HeadersOf, Said
<1>2. \A k \in HeadersOf(said) : said[k].name = s => k \in these
  OBVIOUS
<1>3. \A k \in these : k # 0 => k \in HeadersOf(said) /\ said[k].name = s
  OBVIOUS
<1>4. OpenedAt(said, s) = Max(these)
  BY DEF OpenedAt
<1> HIDE DEF these
<1>5. Max(these) \in these /\ \A y \in these : Max(these) >= y
  BY <1>1, Extremes
<1>6. \A k \in these : k \in Int
  BY <1>1
<1> QED BY <1>1, <1>2, <1>3, <1>4, <1>5, <1>6

LEMMA SameOpened ==
  ASSUME NEW said \in Said, NEW line \in IniLine, NEW s, line.kind # "header" \/ line.name # s
  PROVE  OpenedAt(Append(said, line), s) = OpenedAt(said, s)
<1> DEFINE more == Append(said, line)
<1>1. {k \in HeadersOf(more) : more[k].name = s} = {k \in HeadersOf(said) : said[k].name = s}
  <2>1. \A k \in HeadersOf(said) : more[k] = said[k] /\ k \in HeadersOf(more)
    BY OneMore
  <2>2. \A k \in HeadersOf(more) : more[k].name = s => k \in HeadersOf(said)
    BY OneMore
  <2> HIDE DEF more
  <2> QED BY <2>1, <2>2
<1> QED BY <1>1 DEF OpenedAt

\* A section whose keys are the same says the same.
LEMMA SameSection ==
  ASSUME NEW said \in Said, NEW line \in IniLine, NEW s,
         KeysIn(Append(said, line), s) = KeysIn(said, s)
  PROVE  SectionSays(Append(said, line), s) = SectionSays(said, s)
<1> DEFINE more == Append(said, line)
<1>1. \A k \in KeysIn(said, s) : k \in 1 .. Len(said) /\ more[k] = said[k]
  BY OneMore DEF KeysIn
<1> HIDE DEF more
<1>2. KeysIn(more, s) = KeysIn(said, s)
  BY DEF more
<1>3. NamesIn(more, s) = NamesIn(said, s)
  BY <1>1, <1>2 DEF NamesIn
<1>4. \A n : WithName(more, s, n) = WithName(said, s, n)
  BY <1>1, <1>2 DEF WithName
<1>5. ASSUME NEW n \in NamesIn(said, s)
      PROVE  more[Max(WithName(said, s, n))] = said[Max(WithName(said, s, n))]
  <2>1. WithName(said, s, n) # {} /\ WithName(said, s, n) \in SUBSET (0 .. Len(said))
    BY <1>1 DEF NamesIn, WithName
  <2>2. Len(said) \in Nat
    BY DEF Said
  <2>3. Max(WithName(said, s, n)) \in WithName(said, s, n)
    BY <2>1, <2>2, Extremes
  <2> QED BY <1>1, <2>3 DEF WithName
<1>6. SectionSays(more, s) = SectionSays(said, s)
  BY <1>3, <1>4, <1>5 DEF SectionSays
<1> QED BY <1>6 DEF more

LEMMA NothingMeans ==
  ASSUME NEW said \in Said, NEW line \in IniLine, line.kind = "nothing"
  PROVE  Meaning(Append(said, line)) = Meaning(said) /\ SectionOf(Append(said, line)) = SectionOf(said)
<1> DEFINE more == Append(said, line)   n == Len(said)
<1>1. /\ n \in Nat /\ DOMAIN said = 1 .. n /\ DOMAIN more = 1 .. n + 1
      /\ \A k \in 1 .. n : more[k] = said[k]
      /\ more[n + 1] = line
      /\ HeadersOf(said) \in SUBSET (1 .. n)
  BY OneMore
<1>2. HeadersOf(more) = HeadersOf(said)
  <2>1. HeadersOf(more) = HeadersOf(said) \cup (IF line.kind = "header" THEN {n + 1} ELSE {})
    BY OneMore
  <2> HIDE DEF more, n
  <2>2. line.kind # "header"
    OBVIOUS
  <2> QED BY <2>1, <2>2
<1>3. \A s : OpenedAt(more, s) = OpenedAt(said, s)
  BY SameOpened
<1>4. ASSUME NEW s PROVE SectionSays(more, s) = SectionSays(said, s)
  <2>1. KeysIn(more, s) = KeysIn(said, s)
    <3> HIDE DEF more, n
    <3> QED BY <1>1, <1>2, <1>3 DEF KeysIn
  <2> QED BY <2>1, SameSection
<1> HIDE DEF more, n
<1>5. \A k \in HeadersOf(said) : more[k] = said[k]
  BY <1>1
<1>6. SectionsOf(more) = SectionsOf(said)
  BY <1>2, <1>5 DEF SectionsOf
<1>7. Meaning(more) = Meaning(said)
  BY <1>4, <1>6, MeaningIs
<1>8. HeadersOf(said) # {} => Max(HeadersOf(said)) \in HeadersOf(said)
  <2>1. HeadersOf(said) \in SUBSET (0 .. n)
    BY <1>1
  <2> QED BY <1>1, <2>1, Extremes
<1>9. SectionOf(more) = SectionOf(said)
  BY <1>2, <1>5, <1>8 DEF SectionOf
<1> QED BY <1>7, <1>9 DEF more

LEMMA HeaderMeans ==
  ASSUME NEW said \in Said, NEW line \in IniLine, line.kind = "header"
  PROVE  /\ Meaning(Append(said, line)) = Ini!Set(Meaning(said), line.name, Ini!NoKeys)
         /\ SectionOf(Append(said, line)) = line.name
<1> DEFINE more == Append(said, line)   n == Len(said)
<1>1. /\ n \in Nat /\ more \in Said /\ DOMAIN said = 1 .. n /\ DOMAIN more = 1 .. n + 1
      /\ \A k \in 1 .. n : more[k] = said[k]
      /\ more[n + 1] = line
      /\ HeadersOf(said) \in SUBSET (1 .. n)
  BY OneMore
<1>2. HeadersOf(more) = HeadersOf(said) \cup {n + 1}
  BY OneMore
<1>3. ASSUME NEW s, s # line.name PROVE SectionSays(more, s) = SectionSays(said, s)
  <2>1. OpenedAt(more, s) = OpenedAt(said, s)
    BY <1>3, SameOpened
  <2>2. OpenedAt(said, s) \in 0 .. n
    BY OpenedType
  <2> HIDE DEF more, n
  <2>3. \A k \in 1 .. n : k \in KeysIn(more, s) <=> k \in KeysIn(said, s)
    <3> SUFFICES ASSUME NEW k \in 1 .. n PROVE k \in KeysIn(more, s) <=> k \in KeysIn(said, s)
      OBVIOUS
    <3>1. n + 1 > k
      BY <1>1
    <3>2. (\A h \in HeadersOf(more) : h <= OpenedAt(said, s) \/ h > k)
            <=> (\A h \in HeadersOf(said) : h <= OpenedAt(said, s) \/ h > k)
      BY <1>2, <3>1
    <3> QED BY <1>1, <2>1, <3>2 DEF KeysIn
  <2>4. n + 1 \notin KeysIn(more, s)
    BY <1>1 DEF KeysIn
  <2>5. KeysIn(more, s) = KeysIn(said, s)
    <3>1. \A k \in KeysIn(more, s) : k \in 1 .. n + 1
      BY <1>1 DEF KeysIn
    <3>2. \A k \in KeysIn(said, s) : k \in 1 .. n
      BY <1>1 DEF KeysIn
    <3>3. \A k \in 1 .. n + 1 : k \in 1 .. n \/ k = n + 1
      BY <1>1
    <3> QED BY <2>3, <2>4, <3>1, <3>2, <3>3
  <2> QED BY <2>5, SameSection DEF more
<1>4. SectionSays(more, line.name) = Ini!NoKeys
  <2>1. OpenedAt(more, line.name) = n + 1
    <3>1. /\ OpenedAt(more, line.name) \in 0 .. Len(more)
          /\ \A k \in HeadersOf(more) : more[k].name = line.name => k <= OpenedAt(more, line.name)
      BY <1>1, OpenedType
    <3>2. Len(more) = n + 1
      BY DEF Said
    <3> HIDE DEF more, n
    <3>3. n + 1 \in HeadersOf(more) /\ more[n + 1].name = line.name
      BY <1>1, <1>2
    <3>4. n + 1 <= OpenedAt(more, line.name)
      BY <3>1, <3>3
    <3> QED BY <1>1, <3>1, <3>2, <3>4
  <2> HIDE DEF more, n
  <2>2. KeysIn(more, line.name) = {}
    <3> SUFFICES ASSUME NEW k \in KeysIn(more, line.name) PROVE FALSE
      OBVIOUS
    <3>1. k \in 1 .. n + 1 /\ k > n + 1
      BY <1>1, <2>1 DEF KeysIn
    <3> QED BY <1>1, <3>1
  <2>3. NamesIn(more, line.name) = {}
    BY <2>2 DEF NamesIn
  <2> QED BY <2>3 DEF SectionSays, Ini!NoKeys
<1> HIDE DEF more, n
<1>5. SectionsOf(more) = SectionsOf(said) \cup {line.name}
  BY <1>1, <1>2 DEF SectionsOf
<1>6. Meaning(more) = Ini!Set(Meaning(said), line.name, Ini!NoKeys)
  <2>1. Meaning(more) = [s \in SectionsOf(said) \cup {line.name} |->
                           IF s = line.name THEN Ini!NoKeys ELSE SectionSays(said, s)]
    BY <1>3, <1>4, <1>5, MeaningIs
  <2>2. /\ DOMAIN Meaning(said) = SectionsOf(said)
        /\ \A s \in SectionsOf(said) : Meaning(said)[s] = SectionSays(said, s)
    BY MeaningIs
  <2> QED BY <2>1, <2>2 DEF Ini!Set
<1>7. SectionOf(more) = line.name
  <2>1. HeadersOf(more) \in SUBSET (0 .. n + 1) /\ n + 1 \in HeadersOf(more)
    BY <1>1, <1>2
  <2>2. Max(HeadersOf(more)) \in HeadersOf(more) /\ Max(HeadersOf(more)) >= n + 1
    <3>1. HeadersOf(more) # {} /\ n + 1 \in Nat
      BY <1>1, <2>1
    <3> QED BY <2>1, <3>1, Extremes
  <2>3. Max(HeadersOf(more)) = n + 1
    BY <1>1, <2>1, <2>2
  <2> QED BY <1>1, <2>1, <2>3 DEF SectionOf
<1> QED BY <1>6, <1>7 DEF more

\* The keys of the section that is being read are those after the last header.
LEMMA LastOpened ==
  ASSUME NEW said \in Said
  PROVE  /\ SectionOf(said) \in SectionsOf(said)
         /\ \A h \in HeadersOf(said) : h <= OpenedAt(said, SectionOf(said))
         /\ \A s \in SectionsOf(said) \ {SectionOf(said)} :
              \E h \in HeadersOf(said) : h > OpenedAt(said, s)
<1> DEFINE H == HeadersOf(said)   n == Len(said)   cur == SectionOf(said)
<1>1. n \in Nat /\ H \in SUBSET (0 .. n)
  BY DEF HeadersOf, Said
<1>2. CASE H = {}
  <2>1. cur = Ini!Global /\ SectionsOf(said) = {Ini!Global}
    BY <1>2 DEF SectionOf, SectionsOf
  <2> QED BY <1>2, <2>1
<1>3. CASE H # {}
  <2>1. Max(H) \in H /\ \A y \in H : Max(H) >= y
    <3> HIDE DEF H, n
    <3> QED BY <1>1, <1>3, Extremes
  <2>2. cur = said[Max(H)].name
    BY <1>3 DEF SectionOf
  <2>3. cur \in SectionsOf(said)
    BY <2>1, <2>2 DEF SectionsOf
  <2> HIDE DEF H, n, cur
  <2>4. Max(H) \in 0 .. n
    BY <1>1, <2>1
  <2>5. OpenedAt(said, cur) \in 0 .. n /\ Max(H) <= OpenedAt(said, cur)
    BY <2>1, <2>2, OpenedType DEF H, n
  <2>6. \A h \in H : h <= OpenedAt(said, cur)
    <3> SUFFICES ASSUME NEW h \in H PROVE h <= OpenedAt(said, cur)
      OBVIOUS
    <3>1. h \in 0 .. n /\ h <= Max(H)
      BY <1>1, <2>1, <2>4
    <3> QED BY <1>1, <2>4, <2>5, <3>1
  <2>7. ASSUME NEW s, s # cur PROVE Max(H) > OpenedAt(said, s)
    <3>1. /\ OpenedAt(said, s) \in 0 .. n
          /\ OpenedAt(said, s) # 0 => OpenedAt(said, s) \in H /\ said[OpenedAt(said, s)].name = s
      BY OpenedType DEF H, n
    <3>2. H \in SUBSET (1 .. n)
      BY OneMore, <2>1 DEF H, n, HeadersOf, Said
    <3>6. \A h \in H : h \in 1 .. n
      BY <3>2
    <3>3. Max(H) \in 1 .. n
      BY <2>1, <3>6
    <3>4. CASE OpenedAt(said, s) = 0
      BY <1>1, <3>3, <3>4
    <3>5. CASE OpenedAt(said, s) # 0
      <4>1. OpenedAt(said, s) # Max(H)
        BY <2>2, <2>7, <3>1, <3>5
      <4>2. OpenedAt(said, s) <= Max(H)
        BY <2>1, <3>1, <3>5
      <4> QED BY <2>4, <3>1, <4>1, <4>2
    <3> QED BY <3>4, <3>5
  <2> QED BY <2>1, <2>3, <2>6, <2>7 DEF H, cur
<1> QED BY <1>2, <1>3

LEMMA KeyMeans ==
  ASSUME NEW said \in Said, NEW line \in IniLine, line.kind = "key"
  PROVE  /\ Meaning(Append(said, line)) =
              [Meaning(said) EXCEPT ![SectionOf(said)] = Ini!Set(@, line.name, line.value)]
         /\ SectionOf(Append(said, line)) = SectionOf(said)
         /\ SectionOf(said) \in SectionsOf(said)
<1> DEFINE more == Append(said, line)   n == Len(said)   cur == SectionOf(said)
           old == SectionSays(said, cur)
<1>1. /\ n \in Nat /\ DOMAIN said = 1 .. n /\ DOMAIN more = 1 .. n + 1
      /\ \A k \in 1 .. n : more[k] = said[k]
      /\ more[n + 1] = line
      /\ HeadersOf(said) \in SUBSET (1 .. n)
  BY OneMore
<1>2. HeadersOf(more) = HeadersOf(said)
  <2>1. HeadersOf(more) = HeadersOf(said) \cup (IF line.kind = "header" THEN {n + 1} ELSE {})
    BY OneMore
  <2> HIDE DEF more, n
  <2> QED BY <2>1
<1>3. \A s : OpenedAt(more, s) = OpenedAt(said, s) /\ OpenedAt(said, s) \in 0 .. n
  BY SameOpened, OpenedType
<1>4. /\ cur \in SectionsOf(said)
      /\ \A h \in HeadersOf(said) : h <= OpenedAt(said, cur)
      /\ \A s \in SectionsOf(said) \ {cur} : \E h \in HeadersOf(said) : h > OpenedAt(said, s)
  BY LastOpened
<1>5. \A s : SectionSays(more, s) = [x \in NamesIn(more, s) |-> more[Max(WithName(more, s, x))].value]
  BY DEF SectionSays
<1>6. \A s : KeysIn(more, s) = KeysIn(said, s) => SectionSays(more, s) = SectionSays(said, s)
  BY SameSection
<1> HIDE DEF more, n, cur
<1>7. ASSUME NEW s
      PROVE  /\ KeysIn(said, s) \in SUBSET (1 .. n)
             /\ KeysIn(more, s) \in SUBSET (1 .. n + 1)
             /\ \A k \in 1 .. n : k \in KeysIn(more, s) <=> k \in KeysIn(said, s)
  BY <1>1, <1>2, <1>3 DEF KeysIn
<1>8. ASSUME NEW s \in SectionsOf(said) \ {cur} PROVE SectionSays(more, s) = SectionSays(said, s)
  <2>1. PICK h \in HeadersOf(said) : h > OpenedAt(said, s)
    BY <1>4
  <2>2. h \in 1 .. n /\ ~ (h <= OpenedAt(said, s)) /\ ~ (h > n + 1)
    BY <1>1, <1>3, <2>1
  <2>3. n + 1 \notin KeysIn(more, s)
    BY <1>2, <1>3, <2>2 DEF KeysIn
  <2>4. \A k \in KeysIn(more, s) : k \in 1 .. n
    BY <1>1, <1>7, <2>3
  <2>5. KeysIn(more, s) = KeysIn(said, s)
    BY <1>7, <2>4
  <2> QED BY <1>6, <2>5
<1>9. KeysIn(more, cur) = KeysIn(said, cur) \cup {n + 1}
  <2>1. n + 1 \in KeysIn(more, cur)
    <3>1. n + 1 \in DOMAIN more /\ more[n + 1].kind = "key"
      BY <1>1
    <3>2. n + 1 > OpenedAt(more, cur)
      BY <1>1, <1>3
    <3> QED BY <1>2, <1>3, <1>4, <3>1, <3>2 DEF KeysIn
  <2>2. \A k \in KeysIn(more, cur) : k \in 1 .. n \/ k = n + 1
    BY <1>1, <1>7
  <2> QED BY <1>7, <2>1, <2>2
<1>10. NamesIn(more, cur) = NamesIn(said, cur) \cup {line.name}
  <2>1. \A k \in KeysIn(said, cur) : more[k] = said[k]
    BY <1>1, <1>7
  <2> QED BY <1>1, <1>9, <2>1 DEF NamesIn
<1>11. ASSUME NEW x \in NamesIn(said, cur), x # line.name
       PROVE  more[Max(WithName(more, cur, x))].value = old[x]
  <2>1. \A k \in KeysIn(said, cur) : more[k] = said[k]
    BY <1>1, <1>7
  <2>2. WithName(more, cur, x) = WithName(said, cur, x)
    BY <1>1, <1>9, <1>11, <2>1 DEF WithName
  <2>3. WithName(said, cur, x) # {} /\ WithName(said, cur, x) \in SUBSET (0 .. n)
    <3>1. WithName(said, cur, x) # {}
      BY DEF WithName, NamesIn
    <3>2. \A k \in WithName(said, cur, x) : k \in 1 .. n
      BY <1>7 DEF WithName
    <3> QED BY <1>1, <3>1, <3>2
  <2>4. Max(WithName(said, cur, x)) \in WithName(said, cur, x)
    BY <1>1, <2>3, Extremes
  <2>5. more[Max(WithName(said, cur, x))] = said[Max(WithName(said, cur, x))]
    BY <2>1, <2>4 DEF WithName
  <2>6. old[x] = said[Max(WithName(said, cur, x))].value
    BY DEF SectionSays
  <2> QED BY <2>2, <2>5, <2>6
<1>12. more[Max(WithName(more, cur, line.name))].value = line.value
  <2> DEFINE W == WithName(more, cur, line.name)
  <2>1. n + 1 \in W
    BY <1>1, <1>9 DEF WithName
  <2>2. \A k \in W : k \in 1 .. n + 1
    BY <1>7 DEF WithName
  <2> HIDE DEF W
  <2>3. W \in SUBSET (0 .. n + 1) /\ W # {} /\ n + 1 \in Nat
    BY <1>1, <2>1, <2>2
  <2>4. Max(W) \in W /\ Max(W) >= n + 1
    BY <2>1, <2>3, Extremes
  <2>5. Max(W) = n + 1
    BY <1>1, <2>2, <2>4
  <2> QED BY <1>1, <2>5 DEF W
<1>13. SectionSays(more, cur) = Ini!Set(old, line.name, line.value)
  <2>1. DOMAIN old = NamesIn(said, cur)
    BY DEF SectionSays
  <2> HIDE DEF old
  <2>2. SectionSays(more, cur) = [x \in NamesIn(said, cur) \cup {line.name} |->
                                    more[Max(WithName(more, cur, x))].value]
    BY <1>5, <1>10
  <2>3. ASSUME NEW x \in NamesIn(said, cur) \cup {line.name}
        PROVE  more[Max(WithName(more, cur, x))].value = IF x = line.name THEN line.value ELSE old[x]
    BY <1>11, <1>12
  <2> QED BY <2>1, <2>2, <2>3 DEF Ini!Set
<1>14. \A k \in HeadersOf(said) : more[k] = said[k]
  BY <1>1
<1>15. SectionsOf(more) = SectionsOf(said)
  BY <1>2, <1>14 DEF SectionsOf
<1>16. Meaning(more) = [Meaning(said) EXCEPT ![cur] = Ini!Set(@, line.name, line.value)]
  <2>1. Meaning(more) = [s \in SectionsOf(said) |-> SectionSays(more, s)]
    BY <1>15, MeaningIs
  <2>2. Meaning(said) = [s \in SectionsOf(said) |-> SectionSays(said, s)]
    BY MeaningIs
  <2>3. Meaning(said)[cur] = old
    BY <1>4, <2>2
  <2> HIDE DEF old
  <2> QED BY <1>4, <1>8, <1>13, <2>1, <2>2, <2>3
<1>17. HeadersOf(said) # {} => Max(HeadersOf(said)) \in HeadersOf(said)
  <2>1. HeadersOf(said) \in SUBSET (0 .. n)
    BY <1>1
  <2> QED BY <1>1, <2>1, Extremes
<1>18. SectionOf(more) = cur
  BY <1>2, <1>14, <1>17 DEF SectionOf, cur
<1> QED BY <1>4, <1>16, <1>18 DEF more, cur

-----------------------------------------------------------------------------
\* The file that says so: its lines are the texts, one after the other.
IsIniFile(input, said) ==
  /\ said \in Said /\ \A k \in 1 .. Len(said) : SaysSo(said[k])
  /\ input.lines = [k \in 1 .. Len(said) |-> said[k].text]

\* What has been made of the lines so far is what they say.
ReadSoFar(said) ==
  /\ IsIniFile(file, said) /\ at \in 0 .. Len(said)
  /\ acc = [section |-> SectionOf(SubSeq(said, 1, at)), ini |-> Meaning(SubSeq(said, 1, at))]
  /\ result \in {Pending, Ok(Meaning(said))}

LEMMA NothingSaid ==
  ASSUME NEW said
  PROVE  /\ SectionOf(SubSeq(said, 1, 0)) = Ini!Global
         /\ Meaning(SubSeq(said, 1, 0)) = Ini!Set(Ini!NoKeys, Ini!Global, Ini!NoKeys)
<1> DEFINE none == SubSeq(said, 1, 0)
<1>1. DOMAIN none = {}
  BY SMTT(10)
<1> HIDE DEF none
<1>2. HeadersOf(none) = {}
  BY <1>1 DEF HeadersOf
<1>3. SectionOf(none) = Ini!Global /\ SectionsOf(none) = {Ini!Global}
  BY <1>2 DEF SectionOf, SectionsOf
<1>4. NamesIn(none, Ini!Global) = {}
  BY <1>1 DEF NamesIn, KeysIn
<1>5. SectionSays(none, Ini!Global) = Ini!NoKeys
  BY <1>4 DEF SectionSays, Ini!NoKeys
<1>6. Meaning(none) = [s \in {Ini!Global} |-> Ini!NoKeys]
  BY <1>3, <1>5, MeaningIs
<1>7. Ini!Set(Ini!NoKeys, Ini!Global, Ini!NoKeys) = [s \in {Ini!Global} |-> Ini!NoKeys]
  <2>1. DOMAIN Ini!NoKeys = {}
    BY DEF Ini!NoKeys
  <2> QED BY <2>1 DEF Ini!Set
<1> QED BY <1>3, <1>6, <1>7 DEF none

LEMMA IniStarts ==
  ASSUME NEW said, NEW input, IsIniFile(input, said), Ini!Init(input)
  PROVE  ReadSoFar(said)
<1>1. /\ file = input /\ at = 0 /\ result = Pending
      /\ acc = [section |-> Ini!Global, ini |-> Ini!Set(Ini!NoKeys, Ini!Global, Ini!NoKeys)]
  BY DEF Ini!Init, Ini!Begins, Ini!Pending, Pending
<1>2. at \in 0 .. Len(said)
  BY <1>1 DEF IsIniFile, Said
<1> QED BY <1>1, <1>2, NothingSaid DEF ReadSoFar

\* The line that is read and what is said with it.
LEMMA NextLine ==
  ASSUME NEW said, ReadSoFar(said), Ini!Reading
  PROVE  /\ at + 1 \in 1 .. Len(said) /\ at \in 0 .. Len(said)
         /\ SubSeq(said, 1, at) \in Said
         /\ said[at + 1] \in IniLine /\ SaysSo(said[at + 1])
         /\ SubSeq(said, 1, at + 1) = Append(SubSeq(said, 1, at), said[at + 1])
         /\ Ini!Line = said[at + 1].text
<1>1. /\ Len(said) \in Nat /\ at \in 0 .. Len(said) /\ said \in Seq(IniLine)
      /\ file.lines = [k \in 1 .. Len(said) |-> said[k].text]
      /\ \A k \in 1 .. Len(said) : SaysSo(said[k])
  BY DEF ReadSoFar, IsIniFile, Said
<1>2. Len(file.lines) = Len(said)
  BY <1>1
<1>3. at + 1 \in 1 .. Len(said)
  BY <1>1, <1>2 DEF Ini!Reading
<1>4. Ini!Line = said[at + 1].text
  BY <1>1, <1>3 DEF Ini!Line
<1>5. SubSeq(said, 1, at) \in Said /\ said[at + 1] \in IniLine
  BY <1>1, <1>3 DEF Said
<1>6. SubSeq(said, 1, at + 1) = Append(SubSeq(said, 1, at), said[at + 1])
  <2>1. \A k \in 1 .. at : k \in 1 .. Len(said)
    BY <1>1
  <2> QED BY <1>1, <1>3, <2>1
<1> QED BY <1>1, <1>3, <1>4, <1>5, <1>6

LEMMA LineKeeps ==
  ASSUME NEW said, ReadSoFar(said), Ini!Skip \/ Ini!Header \/ Ini!Assign
  PROVE  ReadSoFar(said)'
<1> DEFINE before == SubSeq(said, 1, at)   line == said[at + 1]
           Becomes(section, ini) == acc' = [section |-> section, ini |-> ini]
<1>1. Ini!Reading
  BY DEF Ini!Skip, Ini!Header, Ini!Assign
<1>2. /\ at + 1 \in 1 .. Len(said) /\ at \in 0 .. Len(said)
      /\ before \in Said /\ line \in IniLine /\ SaysSo(line)
      /\ SubSeq(said, 1, at + 1) = Append(before, line) /\ Ini!Line = line.text
  BY <1>1, NextLine
<1>3. file' = file /\ result' = result /\ at' = at + 1
  BY DEF Ini!Skip, Ini!Header, Ini!Assign, Ini!GoesOn
<1>4. acc = [section |-> SectionOf(before), ini |-> Meaning(before)]
  BY DEF ReadSoFar
<1> HIDE DEF before, line
<1>5. Becomes(SectionOf(Append(before, line)), Meaning(Append(before, line)))
  <2>1. CASE line.kind = "nothing"
    <3>1. Ini!IsComment \/ (~ Ini!IsHeader /\ Ini!Signs = {})
      BY <1>2, <2>1, NothingRead
    <3>2. acc' = acc
      <4>1. Ini!IsComment => ~ Ini!IsHeader
        BY DEF Ini!IsHeader
      <4>2. Ini!Skip
        BY <3>1, <4>1 DEF Ini!Header, Ini!Assign
      <4> QED BY <4>2 DEF Ini!Skip, Ini!GoesOn
    <3> QED BY <1>2, <1>4, <2>1, <3>2, NothingMeans
  <2>2. CASE line.kind = "header"
    <3>1. Ini!IsHeader /\ Ini!Strip(SubSeq(Ini!Stripped, 2, Len(Ini!Stripped) - 1)) = line.name
      BY <1>2, <2>2, HeaderRead
    <3>2. Ini!Header
      BY <3>1 DEF Ini!Skip, Ini!Assign, Ini!IsHeader
    <3>3. acc' = [section |-> line.name, ini |-> Ini!Set(acc.ini, line.name, Ini!NoKeys)]
      BY <3>1, <3>2 DEF Ini!Header, Ini!GoesOn
    <3>4. acc.ini = Meaning(before)
      BY <1>4
    <3> QED BY <1>2, <2>2, <3>3, <3>4, HeaderMeans
  <2>3. CASE line.kind = "key"
    <3>1. /\ ~ Ini!IsComment /\ ~ Ini!IsHeader /\ Ini!Signs # {}
          /\ Ini!Strip(SubSeq(Ini!Stripped, 1, Ini!SplitAt(Ini!Signs) - 1)) = line.name
          /\ Ini!Strip(SubSeq(Ini!Stripped, Ini!SplitAt(Ini!Signs) + 1, Len(Ini!Stripped))) = line.value
      BY <1>2, <2>3, KeyRead
    <3>2. Ini!Assign
      BY <3>1 DEF Ini!Skip, Ini!Header
    <3>3. acc' = [acc EXCEPT !.ini[acc.section] = Ini!Set(@, line.name, line.value)]
      BY <3>1, <3>2 DEF Ini!Assign, Ini!GoesOn
    <3>4. acc' = [section |-> SectionOf(before),
                  ini |-> [Meaning(before) EXCEPT ![SectionOf(before)] = Ini!Set(@, line.name, line.value)]]
      BY <1>4, <3>3
    <3> QED BY <1>2, <2>3, <3>4, KeyMeans
  <2> QED BY <1>2, <2>1, <2>2, <2>3 DEF IniLine
<1>6. at + 1 \in 0 .. Len(said)
  BY <1>2
<1>7. acc' = [section |-> SectionOf(SubSeq(said, 1, at')), ini |-> Meaning(SubSeq(said, 1, at'))]
  BY <1>2, <1>3, <1>5
<1>8. IsIniFile(file, said) /\ result \in {Pending, Ok(Meaning(said))}
  BY DEF ReadSoFar
<1> QED BY <1>3, <1>6, <1>7, <1>8 DEF ReadSoFar

LEMMA IniEnds ==
  ASSUME NEW said, ReadSoFar(said), Ini!Finish
  PROVE  ReadSoFar(said)'
<1>1. /\ ~ Ini!Reading /\ result' = Ok(acc.ini) /\ UNCHANGED <<file, at, acc>>
  BY DEF Ini!Finish, Ini!Ends, Ini!Ok, Ok
<1>2. /\ Len(said) \in Nat /\ at \in 0 .. Len(said) /\ said \in Seq(IniLine)
      /\ file.lines = [k \in 1 .. Len(said) |-> said[k].text]
  BY DEF ReadSoFar, IsIniFile, Said
<1>3. Len(file.lines) = Len(said)
  BY <1>2
<1>4. at = Len(said)
  <2>1. ~ (at < Len(said))
    BY <1>1, <1>3 DEF Ini!Reading
  <2>2. Len(said) \in Nat /\ at \in 0 .. Len(said)
    BY <1>2
  <2> QED BY <2>1, <2>2
<1>5. SubSeq(said, 1, at) = said
  BY <1>2, <1>4
<1>6. acc.ini = Meaning(said)
  BY <1>5 DEF ReadSoFar
<1> QED BY <1>1, <1>6 DEF ReadSoFar

\* parse_ini of parseini.py: a file of any length, whose every line is a
\* comment or says nothing, or is a header or gives a key its value, with
\* whatever spaces around and inside, gives exactly the sections and the keys
\* that it says: what follows the last header of that name, up to the next
\* header, and the last value of each key.
THEOREM SectionsComeBack ==
  ASSUME NEW said
  PROVE  /\ \E input : IsIniFile(input, said) /\ Ini!Init(input)
         /\ [][Ini!Next]_decodingVars
         => [](result \in {Pending, Ok(Meaning(said))})
<1> DEFINE Begun == \E input : IsIniFile(input, said) /\ Ini!Init(input)
           Inv == ReadSoFar(said)
<1>1. Begun => Inv
  BY IniStarts
<1>2. Inv /\ [Ini!Next]_decodingVars => Inv'
  <2> SUFFICES ASSUME Inv, [Ini!Next]_decodingVars PROVE Inv'
    OBVIOUS
  <2>1. CASE UNCHANGED decodingVars
    BY <2>1 DEF decodingVars, ReadSoFar
  <2>2. CASE Ini!Next
    BY <2>2, LineKeeps, IniEnds DEF Ini!Next
  <2> QED BY <2>1, <2>2
<1>3. Inv => result \in {Pending, Ok(Meaning(said))}
  BY DEF ReadSoFar
<1> HIDE DEF Inv
<1> QED BY <1>1, <1>2, <1>3, PTL

-----------------------------------------------------------------------------
(* The DNS client.  What it takes apart is the packet that was announced,  *)
(* in however many pieces it came.                                         *)
Announced == 256 * file.stream[1] + file.stream[2]
AnsweringFields == {"reading", "want", "packet", "idx", "questions", "answers", "reply"}

\* What recv_all has is what came since it was called, and no more than it asked for.
ReceivedSoFar ==
  /\ file.stream \in Seq(Byte) /\ at \in 0 .. Len(file.stream) /\ DOMAIN acc = AnsweringFields
  /\ acc.reading \in {"length", "packet", "parse"}
  /\ acc.reading = "length" => acc.want = 2 /\ at <= 2 /\ acc.packet = SubSeq(file.stream, 1, at)
  /\ acc.reading # "length" =>
       /\ acc.want = Announced /\ at \in 2 .. 2 + Announced
       /\ acc.packet = SubSeq(file.stream, 3, at)
  /\ acc.reading = "parse" => at = 2 + Announced
  /\ result \in {Pending, Error} \/ acc.reading = "parse"

LEMMA PartsOfBytes ==
  ASSUME NEW s \in Seq(Byte), NEW i \in 1 .. 3, NEW j \in i - 1 .. Len(s)
  PROVE  SubSeq(s, i, j) \in Seq(Byte) /\ Len(SubSeq(s, i, j)) = (j - i) + 1
<1>1. Len(s) \in Nat
  BY LenProperties
<1>. QED BY <1>1

\* A piece is appended to the part before it.
LEMMA PiecesJoin ==
  ASSUME NEW s \in Seq(Byte), NEW i \in 1 .. 3, NEW j \in i - 1 .. Len(s), NEW n \in 1 .. Len(s) - j
  PROVE  SubSeq(s, i, j) \o SubSeq(s, j + 1, j + n) = SubSeq(s, i, j + n)
<1>. DEFINE a == SubSeq(s, i, j)
            b == SubSeq(s, j + 1, j + n)
            c == SubSeq(s, i, j + n)
<1>0. Len(s) \in Nat
  BY LenProperties
<1>1. /\ a \in Seq(Byte) /\ Len(a) = (j - i) + 1 /\ \A k \in 1 .. Len(a) : a[k] = s[i + (k - 1)]
      /\ b \in Seq(Byte) /\ Len(b) = n /\ \A k \in 1 .. n : b[k] = s[j + k]
      /\ c \in Seq(Byte) /\ Len(c) = (j - i) + 1 + n /\ \A k \in 1 .. Len(c) : c[k] = s[i + (k - 1)]
  BY <1>0
<1>. HIDE DEF a, b, c
<1>2. /\ a \o b \in Seq(Byte) /\ Len(a \o b) = Len(a) + Len(b)
      /\ \A k \in 1 .. Len(a) + Len(b) : (a \o b)[k] = IF k <= Len(a) THEN a[k] ELSE b[k - Len(a)]
  BY <1>1, ConcatProperties
<1>3. ASSUME NEW k \in 1 .. Len(c) PROVE (a \o b)[k] = c[k]
  <2>1. CASE k <= Len(a)
    BY <1>0, <1>1, <1>2, <1>3, <2>1
  <2>2. CASE ~ (k <= Len(a))
    <3>1. k - Len(a) \in 1 .. n /\ j + (k - Len(a)) = i + (k - 1)
      BY <1>0, <1>1, <1>3, <2>2
    <3>2. (a \o b)[k] = b[k - Len(a)]
      BY <1>0, <1>1, <1>2, <1>3, <2>2
    <3>. QED BY <1>1, <1>3, <3>1, <3>2
  <2>. QED BY <2>1, <2>2
<1>4. a \o b = c
  BY <1>1, <1>2, <1>3, SeqEqual
<1>. QED BY <1>4 DEF a, b, c

LEMMA WordIsNat == ASSUME NEW x \in Byte, NEW y \in Byte PROVE 256 * x + y \in Nat
  BY DEF Byte
LEMMA AnnouncedIsNat ==
  ASSUME file.stream \in Seq(Byte), Len(file.stream) >= 2 PROVE Announced \in Nat
<1>1. file.stream[1] \in Byte /\ file.stream[2] \in Byte
  OBVIOUS
<1>. QED BY <1>1, WordIsNat DEF Announced

LEMMA DnsStarts ==
  ASSUME NEW input, input.stream \in Seq(Byte), Dns!Init(input) PROVE ReceivedSoFar
<1>1. /\ file = input /\ at = 0 /\ result = Pending
      /\ acc = [reading |-> "length", want |-> 2, packet |-> <<>>,
                idx |-> 0, questions |-> 0, answers |-> 0, reply |-> <<>>]
  BY DEF Dns!Init, Dns!Begins, Dns!Pending, Pending
<1>2. Len(input.stream) \in Nat
  BY LenProperties
<1>3. SubSeq(input.stream, 1, 0) = <<>>
  BY <1>2
<1>. QED BY <1>1, <1>2, <1>3 DEF ReceivedSoFar, AnsweringFields

LEMMA ReceiveKeeps == ASSUME ReceivedSoFar, Dns!Receive PROVE ReceivedSoFar'
<1>. DEFINE s == file.stream
            i == IF acc.reading = "length" THEN 1 ELSE 3
<1>1. /\ acc.reading \in {"length", "packet"} /\ Len(acc.packet) < acc.want /\ result = Pending
      /\ \E n \in 1 .. acc.want - Len(acc.packet) :
           /\ n <= Len(s) - at /\ at' = at + n /\ UNCHANGED <<file, result>>
           /\ acc' = [acc EXCEPT !.packet = @ \o SubSeq(s, at + 1, at + n)]
  BY DEF Dns!Receive, Dns!Receiving, Dns!Arrived, Dns!GoesOn, Dns!Running, Dns!Pending, Pending
<1>2. PICK n \in 1 .. acc.want - Len(acc.packet) :
           /\ n <= Len(s) - at /\ at' = at + n /\ UNCHANGED <<file, result>>
           /\ acc' = [acc EXCEPT !.packet = @ \o SubSeq(s, at + 1, at + n)]
  BY <1>1
<1>3. /\ s \in Seq(Byte) /\ Len(s) \in Nat /\ at \in 0 .. Len(s)
      /\ acc.packet = SubSeq(s, i, at) /\ i \in 1 .. 3 /\ at \in i - 1 .. Len(s)
      /\ acc.want \in Int
  <2>1. s \in Seq(Byte) /\ Len(s) \in Nat /\ at \in 0 .. Len(s)
    BY LenProperties DEF ReceivedSoFar
  <2>2. CASE acc.reading = "length"
    BY <2>1, <2>2 DEF ReceivedSoFar
  <2>3. CASE acc.reading = "packet"
    <3>1. at >= 2 /\ at <= Len(s)
      BY <2>1, <2>3 DEF ReceivedSoFar
    <3>2. Announced \in Nat
      BY <2>1, <3>1, AnnouncedIsNat
    <3>3. acc.packet = SubSeq(s, 3, at) /\ acc.want = Announced
      BY <2>3 DEF ReceivedSoFar
    <3>. QED BY <2>1, <2>3, <3>1, <3>2, <3>3
  <2>. QED BY <1>1, <2>2, <2>3
<1>4. Len(acc.packet) = (at - i) + 1
  BY <1>3, PartsOfBytes
<1>5. /\ DOMAIN acc = AnsweringFields /\ DOMAIN acc' = AnsweringFields
      /\ acc'.packet = acc.packet \o SubSeq(s, at + 1, at + n)
      /\ acc'.reading = acc.reading /\ acc'.want = acc.want
  BY <1>2 DEF ReceivedSoFar, AnsweringFields
<1>6. n \in 1 .. Len(s) - at /\ at' = at + n /\ at' \in 0 .. Len(s)
  BY <1>2, <1>3, <1>4
<1>7. acc'.packet = SubSeq(s, i, at')
  BY <1>3, <1>5, <1>6, PiecesJoin
<1>8. at' <= acc.want + i - 1
  BY <1>2, <1>3, <1>4
<1>9. CASE acc.reading = "length"
  <2>1. acc.want = 2 /\ i = 1
    BY <1>9 DEF ReceivedSoFar
  <2>2. at' <= 2 /\ acc'.packet = SubSeq(s, 1, at')
    BY <1>3, <1>6, <1>7, <1>8, <2>1
  <2>. QED BY <1>1, <1>2, <1>3, <1>5, <1>6, <1>9, <2>1, <2>2 DEF ReceivedSoFar
<1>10. CASE acc.reading = "packet"
  <2>1. Announced' = Announced /\ acc.want = Announced
    BY <1>2, <1>10 DEF Announced, ReceivedSoFar
  <2>2. at' \in 2 .. 2 + Announced /\ acc'.packet = SubSeq(s, 3, at')
    BY <1>3, <1>6, <1>7, <1>8, <1>10, <2>1
  <2>. QED BY <1>1, <1>2, <1>3, <1>5, <1>6, <1>7, <1>10, <2>1, <2>2 DEF ReceivedSoFar
<1>. QED BY <1>1, <1>9, <1>10

LEMMA LengthKeeps == ASSUME ReceivedSoFar, Dns!LengthReceived PROVE ReceivedSoFar'
<1>. DEFINE s == file.stream
<1>1. /\ acc.reading = "length" /\ ~ (Len(acc.packet) < acc.want) /\ result = Pending
      /\ at' = at /\ UNCHANGED <<file, result>>
      /\ acc' = [acc EXCEPT !.reading = "packet", !.want = 256 * acc.packet[1] + acc.packet[2],
                             !.packet = <<>>]
  BY DEF Dns!LengthReceived, Dns!Receiving, Dns!GoesOn, Dns!Running, Dns!Pending, Pending,
         Dns!WordAt, Dns!P
<1>2. /\ s \in Seq(Byte) /\ Len(s) \in Nat /\ at \in 0 .. Len(s) /\ at <= 2 /\ acc.want = 2
      /\ acc.packet = SubSeq(s, 1, at) /\ DOMAIN acc = AnsweringFields
  BY <1>1, LenProperties DEF ReceivedSoFar
<1>3. Len(acc.packet) = at /\ at = 2
  BY <1>1, <1>2
<1>4. acc.packet[1] = s[1] /\ acc.packet[2] = s[2] /\ s[1] \in Byte /\ s[2] \in Byte
  BY <1>2, <1>3
<1>5. SubSeq(s, 3, 2) = <<>>
  BY <1>2
<1>6. /\ acc'.reading = "packet" /\ acc'.want = Announced /\ acc'.packet = <<>>
      /\ DOMAIN acc' = AnsweringFields
  BY <1>1, <1>2, <1>4 DEF AnsweringFields, Announced
<1>7. Announced' = Announced /\ Announced \in Nat
  <2>1. Announced' = Announced
    BY <1>1 DEF Announced
  <2>2. Len(s) >= 2
    BY <1>2, <1>3
  <2>. QED BY <1>2, <2>1, <2>2, AnnouncedIsNat
<1>. QED BY <1>1, <1>2, <1>3, <1>5, <1>6, <1>7 DEF ReceivedSoFar

LEMMA PacketKeeps == ASSUME ReceivedSoFar, Dns!PacketReceived PROVE ReceivedSoFar'
<1>1. /\ acc.reading = "packet" /\ ~ (Len(acc.packet) < acc.want) /\ result = Pending
      /\ UNCHANGED <<file, at>>
      /\ \/ result' = Error /\ acc' = acc
         \/ /\ result' = result
            /\ \E q, a :
                 acc' = [acc EXCEPT !.reading = "parse", !.idx = 12, !.questions = q, !.answers = a]
  BY DEF Dns!PacketReceived, Dns!Receiving, Dns!GoesOn, Dns!Ends, Dns!Running, Dns!Pending, Pending,
         Dns!Error, Error
<1>2. Announced' = Announced
  BY <1>1 DEF Announced
<1>3. CASE result' = Error /\ acc' = acc
  BY <1>1, <1>2, <1>3 DEF ReceivedSoFar
<1>4. CASE /\ result' = result
           /\ \E q, a :
                acc' = [acc EXCEPT !.reading = "parse", !.idx = 12, !.questions = q, !.answers = a]
  <2>1. /\ acc'.reading = "parse" /\ acc'.want = acc.want /\ acc'.packet = acc.packet
        /\ DOMAIN acc' = AnsweringFields
    BY <1>4 DEF ReceivedSoFar, AnsweringFields
  <2>2. /\ file.stream \in Seq(Byte) /\ Len(file.stream) \in Nat /\ at \in 2 .. Len(file.stream)
        /\ acc.packet = SubSeq(file.stream, 3, at) /\ acc.want = Announced /\ at <= 2 + Announced
    <3>1. file.stream \in Seq(Byte) /\ Len(file.stream) \in Nat /\ at \in 0 .. Len(file.stream)
      BY LenProperties DEF ReceivedSoFar
    <3>2. /\ at \in 2 .. 2 + Announced
          /\ acc.packet = SubSeq(file.stream, 3, at) /\ acc.want = Announced
      BY <1>1 DEF ReceivedSoFar
    <3>. QED BY <3>1, <3>2
  <2>3. Len(acc.packet) = at - 2
    BY <2>2
  <2>4. Announced \in Nat
    BY <2>2, AnnouncedIsNat
  <2>5. at = 2 + Announced
    <3>1. ~ (Len(acc.packet) < acc.want)
      BY <1>1
    <3>2. ~ (at - 2 < Announced)
      BY <2>2, <2>3, <3>1
    <3>. QED BY <2>2, <2>4, <3>2
  <2>. QED BY <1>1, <1>2, <1>4, <2>1, <2>2, <2>5 DEF ReceivedSoFar
<1>. QED BY <1>1, <1>3, <1>4

\* While the packet is taken apart it stays what it is.
LEMMA ParseKeeps ==
  ASSUME ReceivedSoFar, acc.reading = "parse", UNCHANGED <<file, at>>,
         DOMAIN acc' = DOMAIN acc, acc'.reading = acc.reading,
         acc'.want = acc.want, acc'.packet = acc.packet
  PROVE  ReceivedSoFar'
<1>1. Announced' = Announced
  BY DEF Announced
<1>. QED BY <1>1 DEF ReceivedSoFar

LEMMA DnsStep == ASSUME ReceivedSoFar, [Dns!Next]_decodingVars PROVE ReceivedSoFar'
<1>1. CASE UNCHANGED decodingVars
  BY <1>1 DEF decodingVars, ReceivedSoFar, Announced
<1>2. CASE Dns!ConnectionEnds
  BY <1>2 DEF Dns!ConnectionEnds, Dns!Ends, Dns!Error, Error, ReceivedSoFar, Announced
<1>3. CASE Dns!SkipQuestion
  <2>1. acc.reading = "parse" /\ UNCHANGED <<file, at>>
    BY <1>3 DEF Dns!SkipQuestion, Dns!Ends, Dns!GoesOn
  <2>2. \/ acc' = acc
        \/ \E i : acc' = [acc EXCEPT !.questions = @ - 1, !.idx = i]
    BY <1>3 DEF Dns!SkipQuestion, Dns!Ends, Dns!GoesOn
  <2>3. DOMAIN acc = AnsweringFields
    BY DEF ReceivedSoFar
  <2>4. /\ DOMAIN acc' = DOMAIN acc /\ acc'.reading = acc.reading /\ acc'.want = acc.want
        /\ acc'.packet = acc.packet
    BY <2>2, <2>3 DEF AnsweringFields
  <2>. QED BY <2>1, <2>4, ParseKeeps
<1>4. CASE Dns!ParseAnswer
  <2>1. acc.reading = "parse" /\ UNCHANGED <<file, at>>
    BY <1>4 DEF Dns!ParseAnswer, Dns!Ends, Dns!GoesOn
  <2>2. \/ acc' = acc
        \/ \E i, a : acc' = [acc EXCEPT !.answers = @ - 1, !.idx = i, !.reply = Append(@, a)]
    <3>. DEFINE name == Dns!DecodeDomain(acc.idx)
                i == name.idx
                a == [type |-> Dns!TypeName(Dns!WordAt(i)),
                      class |-> Dns!ClassName(Dns!WordAt(i + 2)),
                      ttl |-> <<Dns!WordAt(i + 4), Dns!WordAt(i + 6)>>,
                      data |-> Dns!DataOf(Dns!WordAt(i), i + 10, Dns!WordAt(i + 8))]
                j == i + 10 + Dns!WordAt(i + 8)
    <3>1. \/ acc' = acc
          \/ acc' = [acc EXCEPT !.answers = @ - 1, !.idx = j, !.reply = Append(@, a)]
      BY <1>4, Zenon DEF Dns!ParseAnswer, Dns!Ends, Dns!GoesOn
    <3>. HIDE DEF j, a
    <3>. QED BY <3>1
  <2>3. DOMAIN acc = AnsweringFields
    BY DEF ReceivedSoFar
  <2>4. /\ DOMAIN acc' = DOMAIN acc /\ acc'.reading = acc.reading /\ acc'.want = acc.want
        /\ acc'.packet = acc.packet
    BY <2>2, <2>3 DEF AnsweringFields
  <2>. QED BY <2>1, <2>4, ParseKeeps
<1>5. CASE Dns!Finish
  BY <1>5, ParseKeeps DEF Dns!Finish, Dns!Ends
<1>. QED BY <1>1, <1>2, <1>3, <1>4, <1>5, ReceiveKeeps, LengthKeeps, PacketKeeps DEF Dns!Next

\* recv_all and dns_tcp_recv_packet of tcpdns.py: in whatever pieces the
\* server's bytes arrive, the packet that is taken apart has the length that
\* was announced and holds the bytes that follow, and what ends earlier gives
\* no reply at all.
AsAnnounced ==
  /\ acc.reading = "parse" =>
       acc.packet = SubSeq(file.stream, 3, 2 + Announced) /\ Len(acc.packet) = Announced
  /\ Len(file.stream) < 2 \/ Len(file.stream) < 2 + Announced => result \in {Pending, Error}
THEOREM PacketsArriveWhole ==
  (\E input : input.stream \in Seq(Byte) /\ Dns!Init(input)) /\ [][Dns!Next]_decodingVars
    => []AsAnnounced
<1>1. (\E input : input.stream \in Seq(Byte) /\ Dns!Init(input)) => ReceivedSoFar
  BY DnsStarts
<1>2. ReceivedSoFar /\ [Dns!Next]_decodingVars => ReceivedSoFar'
  BY DnsStep
<1>3. ReceivedSoFar => AsAnnounced
  <2>. SUFFICES ASSUME ReceivedSoFar PROVE AsAnnounced
    OBVIOUS
  <2>1. file.stream \in Seq(Byte) /\ Len(file.stream) \in Nat /\ at \in 0 .. Len(file.stream)
    BY LenProperties DEF ReceivedSoFar
  <2>2. CASE acc.reading = "parse"
    <3>1. at >= 2 /\ at = 2 + Announced /\ acc.packet = SubSeq(file.stream, 3, at)
      BY <2>2 DEF ReceivedSoFar
    <3>2. Announced \in Nat
      BY <2>1, <3>1, AnnouncedIsNat
    <3>3. Len(acc.packet) = (at - 3) + 1
      BY <2>1, <3>1
    <3>. QED BY <2>1, <3>1, <3>2, <3>3 DEF AsAnnounced
  <2>3. CASE acc.reading # "parse"
    BY <2>3 DEF ReceivedSoFar, AsAnnounced
  <2>. QED BY <2>2, <2>3
<1>. QED BY <1>1, <1>2, <1>3, PTL

-----------------------------------------------------------------------------
(* Bitmaps.  A picture is its pixels, row after row from the top.          *)
Colours == {<<r, g, b>> : r, g, b \in Byte}
FillsBitmap(picture, w, h) == picture \in Seq(Colours) /\ Len(picture) = w * h

\* No side of a bitmap is longer in the C++ reader.
MaxSide == 20000

\* The headers of a bitmap of w by h pixels that its reader takes.
HeaderFits(input, w, h) ==
  /\ input.magic = TRUE /\ w \in Nat \ {0} /\ h \in Nat \ {0} /\ input.biWidth = w
  /\ input.data \in Seq(Byte)
  /\ input.reader = "c++" => input.biHeight \in {h, -h} /\ w <= MaxSide /\ h <= MaxSide
  /\ input.reader # "c++" => input.biHeight = h /\ input.biSize = 40

\* Uncompressed: each row begins at a multiple of four bytes, and the rows go
\* up, or down when the height is negative.
IsRgb(input, w, h, start, picture) ==
  /\ HeaderFits(input, w, h) /\ input.biBitCount = 24 /\ input.biCompression = 0
  /\ FillsBitmap(picture, w, h)
  /\ \E pad \in 0 .. 3 :
       /\ (3 * w + pad) % 4 = 0 /\ start \in [0 .. h - 1 -> Nat] /\ start[0] = 0
       /\ \A k \in 1 .. h - 1 : start[k] = start[k - 1] + 3 * w + pad
  /\ \A k \in 0 .. h - 1 :
       /\ start[k] + 3 * w <= Len(input.data)
       /\ \A x \in 1 .. w :
            picture[(IF input.biHeight < 0 THEN k ELSE h - 1 - k) * w + x] =
              <<input.data[start[k] + (3 * x - 2)], input.data[start[k] + (3 * x - 1)],
                input.data[start[k] + 3 * x]>>

\* Run-length encoded: operations that draw some colours, or move.
Op == [kind : {"run", "raw", "line", "move"}, colours : Seq(Byte), dx : Byte, dy : Byte]
Hue(input, index) == IF index < Len(input.palette) THEN input.palette[index + 1] ELSE <<0, 0, 0>>

StoredAt(data, op, a) ==
  LET n == Len(op.colours)
  IN  /\ op.kind = "run" =>
           /\ n \in 1 .. 255 /\ data[a + 1] = n /\ \A j \in 1 .. n : op.colours[j] = data[a + 2]
      /\ op.kind = "raw" =>
           /\ n \in 3 .. 255 /\ data[a + 1] = 0 /\ data[a + 2] = n
           /\ \A j \in 1 .. n : op.colours[j] = data[a + (2 + j)]
      /\ op.kind = "line" => n = 0 /\ data[a + 1] = 0 /\ data[a + 2] = 0
      /\ op.kind = "move" =>
           /\ n = 0 /\ data[a + 1] = 0 /\ data[a + 2] = 2
           /\ data[a + 3] = op.dx /\ data[a + 4] = op.dy
SizeOf(op) ==
  IF op.kind = "raw" THEN 2 + Len(op.colours) + (Len(op.colours) % 2)
  ELSE IF op.kind = "move" THEN 4 ELSE 2
NextX(op, x) ==
  IF op.kind = "line" THEN 0 ELSE IF op.kind = "move" THEN x + op.dx ELSE x + Len(op.colours)
NextY(op, y) == IF op.kind = "line" THEN y - 1 ELSE IF op.kind = "move" THEN y - op.dy ELSE y

\* Operation k is stored at place[k] and begins at x[k] and y[k], which never
\* leave the bitmap; the first one begins in the lowest row, and what none draws
\* is the first colour of the palette.
Drawn(op, x, y, w, i) == i \in y * w + x + 1 .. y * w + x + Len(op.colours)
IsRle(input, w, h, ops, place, x, y, picture) ==
  /\ HeaderFits(input, w, h) /\ input.biBitCount = 8 /\ input.biCompression = 1
  /\ input.reader # "c++" /\ input.palette \in Seq(Colours) /\ input.palette # <<>>
  /\ FillsBitmap(picture, w, h)
  /\ ops \in Seq(Op) /\ place \in [1 .. Len(ops) + 1 -> Nat]
  /\ x \in [1 .. Len(ops) + 1 -> 0 .. w] /\ y \in [1 .. Len(ops) + 1 -> 0 .. h - 1]
  /\ place[1] = 0 /\ x[1] = 0 /\ y[1] = h - 1
  /\ \A k \in 1 .. Len(ops) :
       /\ StoredAt(input.data, ops[k], place[k])
       /\ place[k] + SizeOf(ops[k]) <= Len(input.data)
       /\ place[k + 1] = place[k] + SizeOf(ops[k])
       /\ x[k + 1] = NextX(ops[k], x[k]) /\ y[k + 1] = NextY(ops[k], y[k])
       /\ \A j \in 1 .. Len(ops[k].colours) :
            picture[y[k] * w + x[k] + j] = Hue(input, ops[k].colours[j])
  /\ LET e == place[Len(ops) + 1]
     IN  e + 2 <= Len(input.data) /\ input.data[e + 1] = 0 /\ input.data[e + 2] = 1
  /\ \A i \in 1 .. w * h :
       \/ \E k \in 1 .. Len(ops) : Drawn(ops[k], x[k], y[k], w, i)
       \/ picture[i] = input.palette[1]

HoldsBitmap(input, picture) ==
  \E w, h : \/ \E start : IsRgb(input, w, h, start, picture)
            \/ \E ops, place, x, y : IsRle(input, w, h, ops, place, x, y, picture)

-----------------------------------------------------------------------------
\* Row y of h rows lies in the bitmap.
LEMMA RowFits ==
  ASSUME NEW w \in Nat, NEW h \in Nat, NEW y \in 0 .. h - 1
  PROVE  y * w \in Nat /\ y * w + w <= w * h /\ w * h \in Nat
<1>1. (y + 1) * w <= h * w
  <2>1. (h - (y + 1)) * w >= 0 /\ h - (y + 1) \in Nat
    OBVIOUS
  <2>2. (h - (y + 1)) * w = h * w - (y + 1) * w
    OBVIOUS
  <2>. QED BY <2>1, <2>2
<1>2. (y + 1) * w = y * w + w /\ h * w = w * h
  OBVIOUS
<1>3. y * w \in Nat /\ w * h \in Nat
  OBVIOUS
<1>. QED BY <1>1, <1>2, <1>3

\* Colours in a row are a sequence of colours.
LEMMA FunctionIsSeq ==
  ASSUME NEW n \in Nat, NEW f \in [1 .. n -> Colours] PROVE f \in Seq(Colours) /\ Len(f) = n
  OBVIOUS

\* What is drawn within a row is within the bitmap.
LEMMA SumFits ==
  ASSUME NEW q \in Nat, NEW v \in Nat, NEW n \in Nat, NEW w \in Nat, NEW m \in Nat,
         q + w <= m, v + n <= w
  PROVE  q + v \in Nat /\ q + v + n <= m
  OBVIOUS

\* What Written leaves of the bitmap.
LEMMA WrittenSays ==
  ASSUME acc.bitmap \in Seq(Colours), NEW colours \in Seq(Colours),
         NEW p \in Nat, acc.x + acc.y * file.biWidth = p
  PROVE  /\ Bmp!Written(colours) \in Seq(Colours) /\ Len(Bmp!Written(colours)) = Len(acc.bitmap)
         /\ \A i \in 1 .. Len(acc.bitmap) :
              Bmp!Written(colours)[i] =
                IF i \in p + 1 .. p + Len(colours) THEN colours[i - p] ELSE acc.bitmap[i]
<1>. DEFINE b == acc.bitmap
            n == Len(b)
            f == [i \in 1 .. n |-> IF i \in p + 1 .. p + Len(colours) THEN colours[i - p] ELSE b[i]]
<1>1. Bmp!Written(colours) = f
  BY DEF Bmp!Written
<1>2. n \in Nat /\ Len(colours) \in Nat /\ b \in Seq(Colours)
  BY LenProperties
<1>. HIDE DEF b, n
<1>3. ASSUME NEW i \in 1 .. n
      PROVE  (IF i \in p + 1 .. p + Len(colours) THEN colours[i - p] ELSE b[i]) \in Colours
  <2>1. i \in p + 1 .. p + Len(colours) => i - p \in 1 .. Len(colours)
    BY <1>2
  <2>2. b[i] \in Colours
    BY <1>2 DEF n
  <2>. QED BY <2>1, <2>2
<1>4. f \in Seq(Colours) /\ Len(f) = n
  BY <1>2, <1>3
<1>. QED BY <1>1, <1>4 DEF b, n

\* Rows that have been read: the picture from one end on.
AtRow(k, b, w, h, start, picture) ==
  LET down == file.biHeight < 0
  IN  /\ acc = [kind |-> "rgb24", x |-> 0, y |-> IF down THEN k ELSE h - 1 - k,
                dy |-> IF down THEN 1 ELSE -1, bitmap |-> b]
      /\ k < h => at = start[k]
      /\ Len(b) = w * h
      /\ \A i \in 1 .. w * h :
           (IF down THEN i <= k * w ELSE i > (h - k) * w) => b[i] = picture[i]
RowsSoFar(w, h, start, picture) ==
  /\ IsRgb(file, w, h, start, picture)
  /\ \E k \in 0 .. h : \E b \in Seq(Colours) : AtRow(k, b, w, h, start, picture)

\* What the header says of the size.
LEMMA HeightSays ==
  ASSUME NEW w, NEW h, HeaderFits(file, w, h)
  PROVE  /\ Bmp!Height = h /\ (Bmp!TopDown <=> file.biHeight < 0) /\ file.biWidth = w
         /\ w \in Nat /\ h \in Nat /\ h >= 1 /\ w >= 1
<1>1. w \in Nat \ {0} /\ h \in Nat \ {0} /\ file.biWidth = w /\ file.biHeight \in {h, -h}
  BY DEF HeaderFits
<1>. QED BY <1>1 DEF Bmp!Height, Bmp!TopDown

\* The reader pads a row to four bytes, in the only way there is.
LEMMA PitchIs ==
  ASSUME NEW w \in Nat, NEW pad \in 0 .. 3, (3 * w + pad) % 4 = 0
  PROVE  ((3 * w + 3) \div 4) * 4 = 3 * w + pad
  OBVIOUS

\* A step among the rows: it can only read the next row whole, or end.
LEMMA RowStep24 ==
  ASSUME NEW w, NEW h, NEW start, NEW picture, RowsSoFar(w, h, start, picture),
         result = Pending, Bmp!Next
  PROVE  (RowsSoFar(w, h, start, picture)' /\ result' = Pending)
         \/ (RowsSoFar(w, h, start, picture)' /\ result' = Ok(picture))
<1>. DEFINE down == file.biHeight < 0
            data == file.data
<1>1. /\ HeaderFits(file, w, h) /\ IsRgb(file, w, h, start, picture)
      /\ picture \in Seq(Colours) /\ Len(picture) = w * h
  BY DEF RowsSoFar, IsRgb, FillsBitmap
<1>2. /\ Bmp!Height = h /\ file.biWidth = w /\ w \in Nat /\ h \in Nat /\ h >= 1 /\ w >= 1
  BY <1>1, HeightSays
<1>3. PICK k \in 0 .. h, b \in Seq(Colours) :
        /\ acc = [kind |-> "rgb24", x |-> 0, y |-> IF down THEN k ELSE h - 1 - k,
                  dy |-> IF down THEN 1 ELSE -1, bitmap |-> b]
        /\ k < h => at = start[k]
        /\ Len(b) = w * h
        /\ \A i \in 1 .. w * h :
             (IF down THEN i <= k * w ELSE i > (h - k) * w) => b[i] = picture[i]
  BY DEF RowsSoFar, AtRow
<1>. DEFINE y == IF down THEN k ELSE h - 1 - k
<1>4. /\ acc.kind = "rgb24" /\ acc.x = 0 /\ acc.y = y /\ acc.dy = (IF down THEN 1 ELSE -1)
      /\ acc.bitmap = b
  BY <1>3
<1>5. Bmp!ReadRow \/ Bmp!ShortRow \/ Bmp!RowsRead
  BY <1>4, Zenon DEF Bmp!Next, Bmp!LoadHeader, Bmp!RejectHeader, Bmp!Run, Bmp!CanRun, Bmp!Raw,
     Bmp!CanDrawRaw, Bmp!EndOfLine, Bmp!CanEndLine, Bmp!EndOfBitmap, Bmp!Move, Bmp!CanMove,
     Bmp!Escape, Bmp!BadOpcode, Bmp!InRle
<1>6. Bmp!InRows <=> k < h
  BY <1>2, <1>3, <1>4 DEF Bmp!InRows
<1>7. CASE k < h
  <2>1. at = start[k] /\ start[k] + 3 * w <= Len(data) /\ data \in Seq(Byte) /\ k \in 0 .. h - 1
    BY <1>1, <1>2, <1>3, <1>7 DEF IsRgb, HeaderFits
  <2>2. PICK pad \in 0 .. 3 :
          /\ (3 * w + pad) % 4 = 0 /\ start \in [0 .. h - 1 -> Nat]
          /\ \A j \in 1 .. h - 1 : start[j] = start[j - 1] + 3 * w + pad
    BY <1>1 DEF IsRgb
  <2>3. Bmp!Pitch = 3 * w + pad
    BY <1>2, <2>2, PitchIs DEF Bmp!Pitch
  <2>4. start[k] \in Nat /\ (k + 1 < h => start[k + 1] = start[k] + Bmp!Pitch)
    <3>1. start[k] \in Nat
      BY <2>1, <2>2
    <3>2. ASSUME k + 1 < h PROVE start[k + 1] = start[k] + (3 * w + pad)
      <4>1. k + 1 \in 1 .. h - 1 /\ (k + 1) - 1 = k
        BY <1>2, <2>1, <3>2
      <4>2. start[k + 1] = start[k] + 3 * w + pad
        BY <2>2, <4>1
      <4>. QED BY <1>2, <3>1, <4>2
    <3>. QED BY <2>3, <3>1, <3>2
  <2>5. /\ at \in Nat /\ Len(data) \in Nat /\ at + 3 * w <= Len(data)
        /\ Bmp!Left \in Int /\ Bmp!Left >= 3 * w
    BY <1>2, <2>1, <2>4, LenProperties DEF Bmp!Left
  <2>6. Bmp!ReadRow
    <3>1. ~ (Bmp!Left < 3 * w)
      BY <1>2, <2>5
    <3>. QED BY <1>2, <1>5, <1>6, <1>7, <3>1 DEF Bmp!ShortRow, Bmp!RowsRead
  <2>. DEFINE row == [i \in 1 .. w |-> <<Bmp!Byte(3 * i - 2), Bmp!Byte(3 * i - 1), Bmp!Byte(3 * i)>>]
  <2>7. /\ at' = at + Bmp!Pitch /\ UNCHANGED <<file, result>>
        /\ acc' = [acc EXCEPT !.y = @ + acc.dy, !.bitmap = Bmp!Written(row)]
    BY <1>2, <2>6 DEF Bmp!ReadRow, Bmp!GoesOn
  <2>8. ASSUME NEW i \in 1 .. w
        PROVE  /\ row[i] = picture[y * w + i]
               /\ <<Bmp!Byte(3 * i - 2), Bmp!Byte(3 * i - 1), Bmp!Byte(3 * i)>> \in Colours
    <3>0. <<Bmp!Byte(3 * i - 2), Bmp!Byte(3 * i - 1), Bmp!Byte(3 * i)>> = row[i]
      BY <2>8
    <3>1. row[i] = <<data[at + (3 * i - 2)], data[at + (3 * i - 1)], data[at + 3 * i]>>
      BY <2>8 DEF Bmp!Byte
    <3>2. /\ at + (3 * i - 2) \in 1 .. Len(data) /\ at + (3 * i - 1) \in 1 .. Len(data)
          /\ at + 3 * i \in 1 .. Len(data)
      <4>. HIDE DEF data
      <4>1. i \in Nat /\ i >= 1 /\ i <= w /\ w \in Nat
        BY <1>2, <2>8
      <4>. QED BY <2>5, <4>1
    <3>3. row[i] \in Colours
      BY <2>1, <3>1, <3>2 DEF Colours
    <3>4. picture[y * w + i] = <<data[at + (3 * i - 2)], data[at + (3 * i - 1)], data[at + 3 * i]>>
      BY <1>1, <2>1 DEF IsRgb
    <3>. QED BY <3>0, <3>1, <3>3, <3>4
  <2>9. row \in Seq(Colours) /\ Len(row) = w
    <3>1. row \in [1 .. w -> Colours]
      BY <2>8, Zenon
    <3>. HIDE DEF row
    <3>. QED BY <1>2, <3>1, FunctionIsSeq
  <2>. HIDE DEF row
  <2>10. y \in 0 .. h - 1 /\ y * w \in Nat /\ y * w + w <= w * h /\ w * h \in Nat
    BY <1>2, <2>1, RowFits
  <2>11. PICK new \in Seq(Colours) :
           /\ new = Bmp!Written(row) /\ Len(new) = w * h
           /\ \A i \in 1 .. w * h :
                new[i] = IF i \in y * w + 1 .. y * w + w THEN row[i - y * w] ELSE b[i]
    <3>1. acc.bitmap \in Seq(Colours) /\ acc.bitmap = b
      BY <1>4, <1>3
    <3>2. acc.x + acc.y * file.biWidth = y * w
      BY <1>2, <1>4, <2>10
    <3>. HIDE DEF y
    <3>3. /\ Bmp!Written(row) \in Seq(Colours) /\ Len(Bmp!Written(row)) = Len(acc.bitmap)
          /\ \A i \in 1 .. Len(acc.bitmap) :
               Bmp!Written(row)[i] =
                 IF i \in y * w + 1 .. y * w + Len(row) THEN row[i - y * w] ELSE acc.bitmap[i]
      BY <2>9, <2>10, <3>1, <3>2, WrittenSays
    <3>. QED BY <1>3, <2>9, <3>1, <3>3
  <2>12. ASSUME NEW i \in 1 .. w * h, IF down THEN i <= (k + 1) * w ELSE i > (h - (k + 1)) * w
         PROVE  new[i] = picture[i]
    <3>1. CASE i \in y * w + 1 .. y * w + w
      <4>1. i - y * w \in 1 .. w /\ y * w + (i - y * w) = i
        BY <1>2, <2>10, <2>12, <3>1
      <4>2. new[i] = row[i - y * w]
        BY <2>11, <3>1
      <4>. QED BY <2>8, <4>1, <4>2
    <3>2. CASE i \notin y * w + 1 .. y * w + w
      <4>1. new[i] = b[i]
        BY <2>11, <3>2
      <4>2. IF down THEN i <= k * w ELSE i > (h - k) * w
        <5>1. CASE down
          <6>1. (k + 1) * w = y * w + w /\ y * w = k * w
            BY <1>2, <2>1, <5>1
          <6>. QED BY <2>10, <2>12, <3>2, <5>1, <6>1
        <5>2. CASE ~ down
          <6>1. (h - (k + 1)) * w = y * w /\ (h - k) * w = y * w + w
            BY <1>2, <2>1, <5>2
          <6>. HIDE DEF y
          <6>2. i > y * w /\ i \in Nat
            BY <2>10, <2>12, <5>2, <6>1
          <6>3. i > y * w + w
            BY <1>2, <2>10, <3>2, <6>2
          <6>. QED BY <5>2, <6>1, <6>3
        <5>. QED BY <5>1, <5>2
      <4>. QED BY <1>3, <2>12, <4>1, <4>2
    <3>. QED BY <3>1, <3>2
  <2>13. acc' = [kind |-> "rgb24", x |-> 0, y |-> IF down THEN k + 1 ELSE h - 1 - (k + 1),
                 dy |-> IF down THEN 1 ELSE -1, bitmap |-> new]
    <3>1. (IF down THEN k + 1 ELSE h - 1 - (k + 1)) = y + acc.dy
      BY <1>2, <1>4, <2>1
    <3>. HIDE DEF y, down
    <3>. QED BY <1>3, <1>4, <2>7, <2>11, <3>1
  <2>14. k + 1 < h => at' = start[k + 1]
    BY <2>1, <2>4, <2>7
  <2>15. IsRgb(file, w, h, start, picture)' /\ result' = Pending
    BY <1>1, <2>7
  <2>16. RowsSoFar(w, h, start, picture)'
    <3>1. k + 1 \in 0 .. h /\ (file.biHeight < 0)' = down
      BY <1>2, <2>1, <2>7
    <3>. HIDE DEF y
    <3>2. \A i \in 1 .. w * h :
            (IF down THEN i <= (k + 1) * w ELSE i > (h - (k + 1)) * w) => new[i] = picture[i]
      BY <2>12
    <3>. HIDE DEF down
    <3>3. AtRow(k + 1, new, w, h, start, picture)'
      BY <2>11, <2>13, <2>14, <3>1, <3>2 DEF AtRow
    <3>4. \E j \in 0 .. h : \E c \in Seq(Colours) : AtRow(j, c, w, h, start, picture)'
      BY <2>11, <3>1, <3>3
    <3>. QED BY <2>15, <3>4 DEF RowsSoFar
  <2>. QED BY <2>15, <2>16
<1>8. CASE ~ (k < h)
  <2>1. k = h /\ Bmp!RowsRead
    BY <1>2, <1>3, <1>5, <1>6, <1>8 DEF Bmp!ReadRow, Bmp!ShortRow
  <2>2. result' = Ok(b) /\ UNCHANGED <<file, at, acc>>
    BY <1>4, <2>1 DEF Bmp!RowsRead, Bmp!Ends, Bmp!Ok, Ok
  <2>3. ASSUME NEW i \in 1 .. w * h PROVE b[i] = picture[i]
    <3>1. i <= k * w /\ i > (h - k) * w
      BY <1>2, <2>1
    <3>. QED BY <1>3, <3>1
  <2>4. b = picture
    BY <1>1, <1>3, <2>3, SeqEqual
  <2>5. RowsSoFar(w, h, start, picture)'
    BY <2>2 DEF RowsSoFar, AtRow
  <2>. QED BY <2>2, <2>4, <2>5
<1>. QED BY <1>7, <1>8

\* Operations that have been read: what they drew is the picture's.
DrawnSoFar(input, k, b, w, h, ops, x, y, picture) ==
  /\ Len(b) = w * h
  /\ \A i \in 1 .. w * h :
       b[i] = IF \E m \in 1 .. k - 1 : Drawn(ops[m], x[m], y[m], w, i) THEN picture[i]
              ELSE input.palette[1]
AtOp(k, b, w, h, ops, place, x, y, picture) ==
  /\ acc = [kind |-> "rle8", x |-> x[k], y |-> y[k], dy |-> -1, bitmap |-> b]
  /\ at = place[k] /\ DrawnSoFar(file, k, b, w, h, ops, x, y, picture)
OpsSoFar(w, h, ops, place, x, y, picture) ==
  /\ IsRle(file, w, h, ops, place, x, y, picture)
  /\ \E k \in 1 .. Len(ops) + 1 : \E b \in Seq(Colours) :
       AtOp(k, b, w, h, ops, place, x, y, picture)

\* An index is a colour, of the palette or black.
LEMMA HueIsColour ==
  ASSUME NEW input, input.palette \in Seq(Colours), NEW i \in Byte PROVE Hue(input, i) \in Colours
<1>1. 0 \in Byte /\ i \in Nat
  BY DEF Byte
<1>2. <<0, 0, 0>> \in Colours
  BY <1>1 DEF Colours
<1>3. Len(input.palette) \in Nat
  BY LenProperties
<1>4. CASE i < Len(input.palette)
  <2>1. i + 1 \in 1 .. Len(input.palette)
    BY <1>1, <1>3, <1>4
  <2>2. input.palette[i + 1] \in Colours
    BY <2>1
  <2>. QED BY <1>4, <2>2 DEF Hue
<1>. QED BY <1>2, <1>4 DEF Hue

\* What is known before operation k.
BeginsOp(k, b, w, h, ops, place, x, y) ==
  /\ w \in Nat /\ h \in Nat /\ file.biWidth = w /\ Len(ops) \in Nat /\ ops \in Seq(Op)
  /\ acc.kind = "rle8" /\ acc.x = x[k] /\ acc.y = y[k] /\ acc.bitmap = b
  /\ x[k] \in 0 .. w /\ y[k] \in 0 .. h - 1 /\ at \in Nat /\ at = place[k]
  /\ file.data \in Seq(Byte) /\ Len(file.data) \in Nat /\ Len(b) = w * h
  /\ y[k] * w \in Nat /\ y[k] * w + w <= w * h /\ w * h \in Nat

LEMMA OpsFacts ==
  ASSUME NEW w, NEW h, NEW ops, NEW place, NEW x, NEW y, NEW picture,
         IsRle(file, w, h, ops, place, x, y, picture),
         NEW k \in 1 .. Len(ops) + 1, NEW b \in Seq(Colours),
         AtOp(k, b, w, h, ops, place, x, y, picture)
  PROVE  BeginsOp(k, b, w, h, ops, place, x, y)
<1>1. /\ HeaderFits(file, w, h) /\ ops \in Seq(Op) /\ place \in [1 .. Len(ops) + 1 -> Nat]
      /\ x \in [1 .. Len(ops) + 1 -> 0 .. w] /\ y \in [1 .. Len(ops) + 1 -> 0 .. h - 1]
  BY DEF IsRle
<1>2. /\ w \in Nat /\ h \in Nat /\ file.biWidth = w /\ Len(ops) \in Nat
      /\ file.data \in Seq(Byte) /\ Len(file.data) \in Nat
  BY <1>1, HeightSays, LenProperties DEF HeaderFits
<1>3. /\ acc = [kind |-> "rle8", x |-> x[k], y |-> y[k], dy |-> -1, bitmap |-> b]
      /\ at = place[k] /\ Len(b) = w * h
  BY DEF AtOp, DrawnSoFar
<1>4. x[k] \in 0 .. w /\ y[k] \in 0 .. h - 1 /\ place[k] \in Nat
  BY <1>1
<1>5. y[k] * w \in Nat /\ y[k] * w + w <= w * h /\ w * h \in Nat
  BY <1>2, <1>4, RowFits
<1>. QED BY <1>1, <1>2, <1>3, <1>4, <1>5 DEF BeginsOp

\* An operation draws its colours, and nothing else.
LEMMA DrawsOn ==
  ASSUME NEW w, NEW h, NEW ops, NEW x, NEW y, NEW picture, NEW input,
         NEW k \in Nat \ {0}, NEW b, NEW c, Len(c) = w * h,
         DrawnSoFar(input, k, b, w, h, ops, x, y, picture),
         \A i \in 1 .. w * h :
           /\ Drawn(ops[k], x[k], y[k], w, i) => c[i] = picture[i]
           /\ ~ Drawn(ops[k], x[k], y[k], w, i) => c[i] = b[i]
  PROVE  DrawnSoFar(input, k + 1, c, w, h, ops, x, y, picture)
<1>1. ASSUME NEW i \in 1 .. w * h
      PROVE  c[i] = IF \E m \in 1 .. (k + 1) - 1 : Drawn(ops[m], x[m], y[m], w, i) THEN picture[i]
                    ELSE input.palette[1]
  <2>1. \A m : m \in 1 .. (k + 1) - 1 <=> m \in 1 .. k - 1 \/ m = k
    OBVIOUS
  <2>2. b[i] = IF \E m \in 1 .. k - 1 : Drawn(ops[m], x[m], y[m], w, i) THEN picture[i]
               ELSE input.palette[1]
    BY DEF DrawnSoFar
  <2>3. CASE Drawn(ops[k], x[k], y[k], w, i)
    BY <2>1, <2>3
  <2>4. CASE ~ Drawn(ops[k], x[k], y[k], w, i)
    <3>1. c[i] = b[i]
      BY <2>4
    <3>2. (\E m \in 1 .. (k + 1) - 1 : Drawn(ops[m], x[m], y[m], w, i))
            <=> (\E m \in 1 .. k - 1 : Drawn(ops[m], x[m], y[m], w, i))
      BY <2>1, <2>4
    <3>. QED BY <2>2, <3>1, <3>2
  <2>. QED BY <2>3, <2>4
<1>. QED BY <1>1 DEF DrawnSoFar

\* The operation after it begins where it should.
LEMMA OpAfter ==
  ASSUME NEW w, NEW h, NEW ops, NEW place, NEW x, NEW y, NEW picture,
         IsRle(file, w, h, ops, place, x, y, picture),
         NEW k \in 1 .. Len(ops), NEW b \in Seq(Colours), NEW c \in Seq(Colours),
         AtOp(k, b, w, h, ops, place, x, y, picture),
         UNCHANGED file, at' = at + SizeOf(ops[k]),
         acc' = [kind |-> "rle8", x |-> NextX(ops[k], x[k]), y |-> NextY(ops[k], y[k]),
                 dy |-> -1, bitmap |-> c],
         DrawnSoFar(file, k + 1, c, w, h, ops, x, y, picture)
  PROVE  OpsSoFar(w, h, ops, place, x, y, picture)'
<1>1. /\ acc = [kind |-> "rle8", x |-> x[k], y |-> y[k], dy |-> -1, bitmap |-> b]
      /\ at = place[k]
  BY DEF AtOp
<1>2. /\ place[k + 1] = place[k] + SizeOf(ops[k])
      /\ x[k + 1] = NextX(ops[k], x[k]) /\ y[k + 1] = NextY(ops[k], y[k])
  BY DEF IsRle
<1>3. acc' = [kind |-> "rle8", x |-> x[k + 1], y |-> y[k + 1], dy |-> -1, bitmap |-> c]
  BY <1>1, <1>2
<1>4. at' = place[k + 1]
  BY <1>1, <1>2
<1>5. AtOp(k + 1, c, w, h, ops, place, x, y, picture)'
  BY <1>3, <1>4 DEF AtOp
<1>6. k + 1 \in 1 .. Len(ops) + 1
  <2>1. Len(ops) \in Nat
    BY LenProperties DEF IsRle
  <2>. QED BY <2>1
<1>7. IsRle(file, w, h, ops, place, x, y, picture)'
  OBVIOUS
<1>. QED BY <1>5, <1>6, <1>7 DEF OpsSoFar

\* What the reader draws for an operation, and that it fits.
LEMMA Draws ==
  ASSUME NEW w, NEW h, NEW ops, NEW place, NEW x, NEW y, NEW picture,
         IsRle(file, w, h, ops, place, x, y, picture),
         NEW k \in 1 .. Len(ops), NEW b \in Seq(Colours),
         AtOp(k, b, w, h, ops, place, x, y, picture),
         NEW n \in Nat, n = Len(ops[k].colours), x[k + 1] = x[k] + n,
         NEW colours \in Seq(Colours), Len(colours) = n,
         \A j \in 1 .. n : colours[j] = Hue(file, ops[k].colours[j])
  PROVE  /\ Bmp!Fits(n)
         /\ \E c \in Seq(Colours) : c = Bmp!Written(colours)
              /\ DrawnSoFar(file, k + 1, c, w, h, ops, x, y, picture)
<1>0. Len(ops) \in Nat /\ k \in 1 .. Len(ops) + 1 /\ k + 1 \in 1 .. Len(ops) + 1
  BY LenProperties DEF IsRle
<1>1. /\ w \in Nat /\ h \in Nat /\ file.biWidth = w
      /\ acc.x = x[k] /\ acc.y = y[k] /\ acc.bitmap = b
      /\ x[k] \in 0 .. w /\ y[k] \in 0 .. h - 1 /\ Len(b) = w * h
      /\ y[k] * w \in Nat /\ y[k] * w + w <= w * h /\ w * h \in Nat
  <2>1. BeginsOp(k, b, w, h, ops, place, x, y)
    BY <1>0, OpsFacts, Zenon
  <2>. QED BY <2>1 DEF BeginsOp
<1>2. x[k + 1] \in 0 .. w
  BY <1>0 DEF IsRle
<1>. DEFINE p == y[k] * w + x[k]
<1>3. /\ p \in Nat /\ p + n <= w * h /\ acc.x + acc.y * file.biWidth = p
      /\ acc.x + acc.y * file.biWidth + n = p + n
  <2>. DEFINE q == y[k] * w
  <2>1. q \in Nat /\ q + w <= w * h /\ w * h \in Nat
    BY <1>1
  <2>2. acc.x + acc.y * file.biWidth = x[k] + q
    BY <1>1
  <2>3. x[k] + n <= w /\ x[k] \in Nat /\ w \in Nat
    BY <1>1, <1>2
  <2>. HIDE DEF p, q
  <2>4. q + x[k] \in Nat /\ q + x[k] + n <= w * h
    BY <2>1, <2>3, SumFits
  <2>5. p = q + x[k]
    BY DEF p, q
  <2>. QED BY <1>1, <2>1, <2>2, <2>3, <2>4, <2>5
<1>. HIDE DEF p
<1>4. Bmp!Fits(n)
  BY <1>1, <1>3 DEF Bmp!Fits
<1>5. PICK c \in Seq(Colours) :
        /\ c = Bmp!Written(colours) /\ Len(c) = Len(b)
        /\ \A i \in 1 .. Len(b) :
             c[i] = IF i \in p + 1 .. p + n THEN colours[i - p] ELSE b[i]
  <2>1. acc.bitmap \in Seq(Colours) /\ acc.x + acc.y * file.biWidth = p /\ p \in Nat
    BY <1>1, <1>3
  <2>2. /\ Bmp!Written(colours) \in Seq(Colours) /\ Len(Bmp!Written(colours)) = Len(acc.bitmap)
        /\ \A i \in 1 .. Len(acc.bitmap) :
             Bmp!Written(colours)[i] =
               IF i \in p + 1 .. p + Len(colours) THEN colours[i - p] ELSE acc.bitmap[i]
    BY <2>1, WrittenSays
  <2>. QED BY <1>1, <2>2
<1>6. ASSUME NEW i \in 1 .. w * h
      PROVE  /\ Drawn(ops[k], x[k], y[k], w, i) => c[i] = picture[i]
             /\ ~ Drawn(ops[k], x[k], y[k], w, i) => c[i] = b[i]
  <2>1. Drawn(ops[k], x[k], y[k], w, i) <=> i \in p + 1 .. p + n
    BY DEF Drawn, p
  <2>2. i \in 1 .. Len(b)
    BY <1>1, <1>6
  <2>3. CASE i \in p + 1 .. p + n
    <3>1. i - p \in 1 .. n /\ p + (i - p) = i
      BY <1>3, <2>3
    <3>2. c[i] = colours[i - p]
      BY <1>5, <2>2, <2>3
    <3>3. picture[p + (i - p)] = Hue(file, ops[k].colours[i - p])
      BY <3>1 DEF IsRle, p
    <3>4. colours[i - p] = Hue(file, ops[k].colours[i - p])
      BY <3>1
    <3>. QED BY <2>1, <2>3, <3>1, <3>2, <3>3, <3>4
  <2>4. CASE i \notin p + 1 .. p + n
    BY <1>5, <2>1, <2>2, <2>4
  <2>. QED BY <2>3, <2>4
<1>8. DrawnSoFar(file, k, b, w, h, ops, x, y, picture)
  BY DEF AtOp
<1>9. k \in Nat \ {0}
  BY <1>0
<1>10. Len(c) = w * h
  BY <1>1, <1>5
<1>11. DrawnSoFar(file, k + 1, c, w, h, ops, x, y, picture)
  BY <1>6, <1>8, <1>9, <1>10, DrawsOn, Zenon
<1>. QED BY <1>4, <1>5, <1>11

\* A run is never empty.
LEMMA SomeBytes == ASSUME NEW n \in 1 .. 255 PROVE n \in Nat /\ n > 0
  OBVIOUS

\* A run repeats one colour.
LEMMA OneColour ==
  ASSUME NEW n \in Nat, NEW c \in Colours
  PROVE  LET colours == [i \in 1 .. n |-> c]
         IN  colours \in Seq(Colours) /\ Len(colours) = n /\ \A j \in 1 .. n : colours[j] = c
  OBVIOUS

\* The locals after an operation.
LEMMA Drawing ==
  ASSUME NEW a, NEW x, NEW y, NEW b, NEW c, NEW m, NEW s,
         a = [kind |-> "rle8", x |-> x, y |-> y, dy |-> -1, bitmap |-> b],
         s = [a EXCEPT !.x = m, !.bitmap = c]
  PROVE  s = [kind |-> "rle8", x |-> m, y |-> y, dy |-> -1, bitmap |-> c]
  OBVIOUS
LEMMA Moving ==
  ASSUME NEW a, NEW x, NEW y, NEW b, NEW m, NEW n, NEW s,
         a = [kind |-> "rle8", x |-> x, y |-> y, dy |-> -1, bitmap |-> b],
         s = [a EXCEPT !.x = m, !.y = n]
  PROVE  s = [kind |-> "rle8", x |-> m, y |-> n, dy |-> -1, bitmap |-> b]
  OBVIOUS
LEMMA EvenBytes == ASSUME NEW n \in Nat PROVE 2 + 2 * ((n + 1) \div 2) = 2 + n + (n % 2)
  OBVIOUS

\* A run: the reader can only draw it.
LEMMA RunStep ==
  ASSUME NEW w, NEW h, NEW ops, NEW place, NEW x, NEW y, NEW picture,
         IsRle(file, w, h, ops, place, x, y, picture),
         NEW k \in 1 .. Len(ops), NEW b \in Seq(Colours),
         AtOp(k, b, w, h, ops, place, x, y, picture), Bmp!Next, ops[k].kind = "run"
  PROVE  OpsSoFar(w, h, ops, place, x, y, picture)' /\ UNCHANGED result
<1>0. k \in 1 .. Len(ops) + 1
  BY LenProperties DEF IsRle
<1>1. /\ acc.kind = "rle8" /\ acc.x = x[k] /\ acc.y = y[k] /\ acc.bitmap = b
      /\ at \in Nat /\ at = place[k] /\ file.data \in Seq(Byte) /\ Len(file.data) \in Nat
      /\ ops \in Seq(Op)
  <2>1. BeginsOp(k, b, w, h, ops, place, x, y)
    BY <1>0, OpsFacts, Zenon
  <2>. QED BY <2>1 DEF BeginsOp
<1>. DEFINE op == ops[k]
<1>2. /\ StoredAt(file.data, op, at) /\ at + SizeOf(op) <= Len(file.data)
      /\ x[k + 1] = NextX(op, x[k])
  BY <1>1 DEF IsRle
<1>3. PICK n \in 1 .. 255 : n = Len(op.colours) /\ Bmp!Byte(1) = n
  BY <1>2 DEF StoredAt, Bmp!Byte
<1>3a. Bmp!Byte(1) = n /\ n \in Nat /\ n > 0
  <2>1. Bmp!Byte(1) = n
    BY <1>3, Zenon
  <2>. QED BY <2>1, SomeBytes, Zenon
<1>3b. \A j \in 1 .. n : op.colours[j] = Bmp!Byte(2)
  BY <1>2, <1>3 DEF StoredAt, Bmp!Byte
<1>3c. SizeOf(op) = 2
  BY DEF SizeOf
<1>3d. NextX(op, x[k]) = x[k] + n /\ NextY(op, y[k]) = y[k]
  BY <1>3 DEF NextX, NextY
<1>4. Bmp!Left \in Int /\ Bmp!Left >= 2
  BY <1>1, <1>2, <1>3c DEF Bmp!Left
<1>. DEFINE colours == [i \in 1 .. Bmp!Byte(1) |-> Bmp!Colour(Bmp!Byte(2))]
<1>5. Bmp!Byte(2) \in Byte
  <2>1. at + 2 \in 1 .. Len(file.data)
    BY <1>1, <1>2, <1>3c
  <2>. QED BY <1>1, <2>1 DEF Bmp!Byte
<1>6. Bmp!Colour(Bmp!Byte(2)) = Hue(file, Bmp!Byte(2)) /\ Hue(file, Bmp!Byte(2)) \in Colours
  <2>1. file.palette \in Seq(Colours)
    BY DEF IsRle
  <2>. QED BY <1>5, <2>1, HueIsColour DEF Bmp!Colour, Bmp!Black, Hue
<1>7. /\ colours \in Seq(Colours) /\ Len(colours) = n
      /\ \A j \in 1 .. n : colours[j] = Hue(file, op.colours[j])
  <2>1. colours = [i \in 1 .. n |-> Hue(file, Bmp!Byte(2))]
    BY <1>3a, <1>6, Zenon
  <2>. HIDE DEF colours
  <2>2. /\ colours \in Seq(Colours) /\ Len(colours) = n
        /\ \A j \in 1 .. n : colours[j] = Hue(file, Bmp!Byte(2))
    BY <1>3a, <1>6, <2>1, OneColour
  <2>. QED BY <1>3b, <2>2, Zenon
<1>. HIDE DEF colours
<1>8. /\ Bmp!Fits(n)
      /\ \E c \in Seq(Colours) : c = Bmp!Written(colours)
           /\ DrawnSoFar(file, k + 1, c, w, h, ops, x, y, picture)
  <2>1. n \in Nat /\ x[k + 1] = x[k] + n
    BY <1>2, <1>3d, <1>3a, Zenon
  <2>. QED BY <1>3, <1>7, <2>1, Draws
<1>9. Bmp!Run
  <2>1. Bmp!CanRun
    BY <1>1, <1>3a, <1>4, <1>8 DEF Bmp!CanRun, Bmp!InRle
  <2>2. ~ (Bmp!Byte(1) = 0)
    BY <1>3a
  <2>. QED BY <1>1, <2>1, <2>2, Zenon DEF Bmp!Next, Bmp!LoadHeader, Bmp!RejectHeader, Bmp!ReadRow,
              Bmp!ShortRow, Bmp!RowsRead, Bmp!InRows, Bmp!Raw, Bmp!CanDrawRaw, Bmp!EndOfLine,
              Bmp!CanEndLine, Bmp!EndOfBitmap, Bmp!Move, Bmp!CanMove, Bmp!Escape, Bmp!BadOpcode
<1>10. /\ at' = at + 2 /\ acc' = [acc EXCEPT !.x = @ + Len(colours), !.bitmap = Bmp!Written(colours)]
       /\ UNCHANGED <<file, result>>
  BY <1>9, Zenon DEF Bmp!Run, Bmp!Draw, Bmp!GoesOn, colours
<1>11. PICK c \in Seq(Colours) :
         c = Bmp!Written(colours) /\ DrawnSoFar(file, k + 1, c, w, h, ops, x, y, picture)
  BY <1>8
<1>12. acc' = [kind |-> "rle8", x |-> NextX(op, x[k]), y |-> NextY(op, y[k]),
               dy |-> -1, bitmap |-> c]
  <2>1. acc = [kind |-> "rle8", x |-> x[k], y |-> y[k], dy |-> -1, bitmap |-> b]
    BY DEF AtOp
  <2>2. acc' = [acc EXCEPT !.x = x[k] + n, !.bitmap = c]
    BY <1>1, <1>7, <1>10, <1>11, Zenon
  <2>3. acc' = [kind |-> "rle8", x |-> x[k] + n, y |-> y[k], dy |-> -1, bitmap |-> c]
    BY <2>1, <2>2, Drawing
  <2>. QED BY <1>3d, <2>3, Zenon
<1>13. at' = at + SizeOf(op)
  BY <1>3c, <1>10
<1>. QED BY <1>10, <1>11, <1>12, <1>13, OpAfter

\* Raw data are three bytes or more: fewer are an escape.
LEMMA ThreeBytes == ASSUME NEW n \in 3 .. 255 PROVE n \in Nat /\ n >= 3
  OBVIOUS

\* Raw data: likewise, with the padding.
LEMMA RawStep ==
  ASSUME NEW w, NEW h, NEW ops, NEW place, NEW x, NEW y, NEW picture,
         IsRle(file, w, h, ops, place, x, y, picture),
         NEW k \in 1 .. Len(ops), NEW b \in Seq(Colours),
         AtOp(k, b, w, h, ops, place, x, y, picture), Bmp!Next, ops[k].kind = "raw"
  PROVE  OpsSoFar(w, h, ops, place, x, y, picture)' /\ UNCHANGED result
<1>0. k \in 1 .. Len(ops) + 1
  BY LenProperties DEF IsRle
<1>1. /\ acc.kind = "rle8" /\ acc.x = x[k] /\ acc.y = y[k] /\ acc.bitmap = b
      /\ at \in Nat /\ at = place[k] /\ file.data \in Seq(Byte) /\ Len(file.data) \in Nat
      /\ ops \in Seq(Op)
  <2>1. BeginsOp(k, b, w, h, ops, place, x, y)
    BY <1>0, OpsFacts, Zenon
  <2>. QED BY <2>1 DEF BeginsOp
<1>. DEFINE op == ops[k]
<1>2. /\ StoredAt(file.data, op, at) /\ at + SizeOf(op) <= Len(file.data)
      /\ x[k + 1] = NextX(op, x[k])
  BY <1>1 DEF IsRle
<1>3. PICK n \in 3 .. 255 : n = Len(op.colours) /\ Bmp!Byte(1) = 0 /\ Bmp!Byte(2) = n
  BY <1>2 DEF StoredAt, Bmp!Byte
<1>3a. Bmp!Byte(1) = 0 /\ Bmp!Byte(2) = n /\ n \in Nat /\ n >= 3
  <2>1. Bmp!Byte(1) = 0 /\ Bmp!Byte(2) = n
    BY <1>3, Zenon
  <2>. QED BY <2>1, ThreeBytes, Zenon
<1>3b. \A j \in 1 .. n : op.colours[j] = Bmp!Byte(2 + j)
  BY <1>2, <1>3 DEF StoredAt, Bmp!Byte
<1>3c. SizeOf(op) = 2 + n + (n % 2) /\ Bmp!RawBytes = 2 + n + (n % 2)
  <2>1. SizeOf(op) = 2 + n + (n % 2)
    BY <1>3 DEF SizeOf
  <2>2. Bmp!RawBytes = 2 + 2 * ((n + 1) \div 2)
    BY <1>3a, Zenon DEF Bmp!RawBytes
  <2>. QED BY <1>3a, <2>1, <2>2, EvenBytes
<1>3e. 2 + n + (n % 2) \in Nat /\ 2 + n + (n % 2) >= 2 + n
  BY <1>3a
<1>3d. NextX(op, x[k]) = x[k] + n /\ NextY(op, y[k]) = y[k]
  BY <1>3 DEF NextX, NextY
<1>4. Bmp!Left \in Int /\ Bmp!Left >= 2 /\ Bmp!Left >= Bmp!RawBytes
  BY <1>1, <1>2, <1>3c, <1>3a, <1>3e DEF Bmp!Left
<1>. DEFINE colours == [i \in 1 .. Bmp!Byte(2) |-> Bmp!Colour(Bmp!Byte(2 + i))]
<1>5. ASSUME NEW i \in 1 .. n PROVE Bmp!Byte(2 + i) \in Byte
  <2>1. at + (2 + i) \in 1 .. Len(file.data)
    BY <1>1, <1>2, <1>3c, <1>3a, <1>3e
  <2>. QED BY <1>1, <2>1 DEF Bmp!Byte
<1>6. ASSUME NEW i \in 1 .. n
      PROVE  /\ Bmp!Colour(Bmp!Byte(2 + i)) = Hue(file, Bmp!Byte(2 + i))
             /\ Bmp!Colour(Bmp!Byte(2 + i)) \in Colours
  <2>1. file.palette \in Seq(Colours)
    BY DEF IsRle
  <2>. QED BY <1>5, <2>1, HueIsColour DEF Bmp!Colour, Bmp!Black, Hue
<1>7. /\ colours \in Seq(Colours) /\ Len(colours) = n
      /\ \A j \in 1 .. n : colours[j] = Hue(file, op.colours[j])
  <2>1. colours = [i \in 1 .. n |-> Bmp!Colour(Bmp!Byte(2 + i))]
    BY <1>3a, Zenon
  <2>2. colours \in [1 .. n -> Colours]
    BY <1>6, <2>1, Zenon
  <2>3. \A j \in 1 .. n : colours[j] = Hue(file, op.colours[j])
    BY <1>3b, <1>6, <2>1, Zenon
  <2>. HIDE DEF colours
  <2>4. colours \in Seq(Colours) /\ Len(colours) = n
    BY <1>3a, <2>2, FunctionIsSeq
  <2>. QED BY <2>3, <2>4, Zenon
<1>. HIDE DEF colours
<1>8. /\ Bmp!Fits(n)
      /\ \E c \in Seq(Colours) : c = Bmp!Written(colours)
           /\ DrawnSoFar(file, k + 1, c, w, h, ops, x, y, picture)
  <2>1. n \in Nat /\ x[k + 1] = x[k] + n
    BY <1>2, <1>3d, <1>3a, Zenon
  <2>. QED BY <1>3, <1>7, <2>1, Draws
<1>9. Bmp!Raw
  <2>1. Bmp!CanDrawRaw
    BY <1>1, <1>3a, <1>4, <1>8 DEF Bmp!CanDrawRaw, Bmp!InRle
  <2>2. ~ (Bmp!Byte(1) > 0) /\ ~ (Bmp!Byte(2) = 0) /\ ~ (Bmp!Byte(2) = 1) /\ ~ (Bmp!Byte(2) = 2)
    BY <1>3a
  <2>. QED BY <1>1, <2>1, <2>2, Zenon DEF Bmp!Next, Bmp!LoadHeader, Bmp!RejectHeader, Bmp!ReadRow,
              Bmp!ShortRow, Bmp!RowsRead, Bmp!InRows, Bmp!Run, Bmp!CanRun, Bmp!EndOfLine,
              Bmp!CanEndLine, Bmp!EndOfBitmap, Bmp!Move, Bmp!CanMove, Bmp!Escape, Bmp!BadOpcode
<1>10. /\ at' = at + Bmp!RawBytes
       /\ acc' = [acc EXCEPT !.x = @ + Len(colours), !.bitmap = Bmp!Written(colours)]
       /\ UNCHANGED <<file, result>>
  BY <1>9, Zenon DEF Bmp!Raw, Bmp!Draw, Bmp!GoesOn, colours
<1>11. PICK c \in Seq(Colours) :
         c = Bmp!Written(colours) /\ DrawnSoFar(file, k + 1, c, w, h, ops, x, y, picture)
  BY <1>8
<1>12. acc' = [kind |-> "rle8", x |-> NextX(op, x[k]), y |-> NextY(op, y[k]),
               dy |-> -1, bitmap |-> c]
  <2>1. acc = [kind |-> "rle8", x |-> x[k], y |-> y[k], dy |-> -1, bitmap |-> b]
    BY DEF AtOp
  <2>2. acc' = [acc EXCEPT !.x = x[k] + n, !.bitmap = c]
    BY <1>1, <1>7, <1>10, <1>11, Zenon
  <2>3. acc' = [kind |-> "rle8", x |-> x[k] + n, y |-> y[k], dy |-> -1, bitmap |-> c]
    BY <2>1, <2>2, Drawing
  <2>. QED BY <1>3d, <2>3, Zenon
<1>13. at' = at + SizeOf(op)
  BY <1>3c, <1>10
<1>. QED BY <1>10, <1>11, <1>12, <1>13, OpAfter

\* Nothing is drawn by an operation without colours.
LEMMA DrawsNothing ==
  ASSUME NEW w, NEW h, NEW ops, NEW x, NEW y, NEW picture, NEW input,
         NEW k \in Nat \ {0}, NEW b, Len(ops[k].colours) = 0, y[k] * w + x[k] \in Int,
         DrawnSoFar(input, k, b, w, h, ops, x, y, picture)
  PROVE  DrawnSoFar(input, k + 1, b, w, h, ops, x, y, picture)
<1>1. \A i \in 1 .. w * h : ~ Drawn(ops[k], x[k], y[k], w, i)
  <2>. DEFINE p == y[k] * w + x[k]
  <2>1. p + 1 .. p + 0 = {}
    <3>1. p \in Int
      OBVIOUS
    <3>. HIDE DEF p
    <3>. QED BY <3>1
  <2>. QED BY <2>1 DEF Drawn
<1>2. Len(b) = w * h
  BY DEF DrawnSoFar
<1>. QED BY <1>1, <1>2, DrawsOn, Zenon

\* The end of a line, and a move.
LEMMA MovingStep ==
  ASSUME NEW w, NEW h, NEW ops, NEW place, NEW x, NEW y, NEW picture,
         IsRle(file, w, h, ops, place, x, y, picture),
         NEW k \in 1 .. Len(ops), NEW b \in Seq(Colours),
         AtOp(k, b, w, h, ops, place, x, y, picture), Bmp!Next, ops[k].kind \in {"line", "move"}
  PROVE  OpsSoFar(w, h, ops, place, x, y, picture)' /\ UNCHANGED result
<1>0. k \in 1 .. Len(ops) + 1 /\ k + 1 \in 1 .. Len(ops) + 1 /\ k \in Nat \ {0}
  BY LenProperties DEF IsRle
<1>1. /\ acc.kind = "rle8" /\ acc.x = x[k] /\ acc.y = y[k] /\ acc.bitmap = b
      /\ at \in Nat /\ at = place[k] /\ file.data \in Seq(Byte) /\ Len(file.data) \in Nat
      /\ ops \in Seq(Op) /\ x[k] \in Nat /\ y[k] \in Nat /\ y[k] * w \in Nat /\ h \in Nat
  <2>1. BeginsOp(k, b, w, h, ops, place, x, y)
    BY <1>0, OpsFacts, Zenon
  <2>. QED BY <2>1 DEF BeginsOp
<1>. DEFINE op == ops[k]
<1>2. /\ StoredAt(file.data, op, at) /\ at + SizeOf(op) <= Len(file.data)
      /\ y[k + 1] = NextY(op, y[k])
  BY <1>1 DEF IsRle
<1>2a. y[k + 1] \in Int /\ y[k + 1] >= 0
  <2>1. y \in [1 .. Len(ops) + 1 -> 0 .. h - 1] /\ h \in Int
    BY <1>1 DEF IsRle
  <2>2. y[k + 1] \in 0 .. h - 1
    BY <1>0, <2>1, Zenon
  <2>. QED BY <2>1, <2>2
<1>3. Len(op.colours) = 0 /\ Bmp!Byte(1) = 0 /\ Bmp!Byte(2) = IF op.kind = "line" THEN 0 ELSE 2
  BY <1>2 DEF StoredAt, Bmp!Byte
<1>4. DrawnSoFar(file, k + 1, b, w, h, ops, x, y, picture)
  <2>1. y[k] * w + x[k] \in Int
    BY <1>1
  <2>2. DrawnSoFar(file, k, b, w, h, ops, x, y, picture)
    BY DEF AtOp
  <2>. QED BY <1>0, <1>3, <2>1, <2>2, DrawsNothing, Zenon
<1>5. acc = [kind |-> "rle8", x |-> x[k], y |-> y[k], dy |-> -1, bitmap |-> b]
  BY DEF AtOp
<1>6. CASE op.kind = "line"
  <2>1. SizeOf(op) = 2 /\ NextX(op, x[k]) = 0 /\ NextY(op, y[k]) = y[k] - 1
    BY <1>6 DEF SizeOf, NextX, NextY
  <2>2. Bmp!Left >= 2 /\ acc.y > 0
    <3>1. y[k] - 1 >= 0
      BY <1>2, <1>2a, <2>1
    <3>. QED BY <1>1, <1>2, <2>1, <3>1 DEF Bmp!Left
  <2>3. Bmp!Byte(1) = 0 /\ Bmp!Byte(2) = 0
    BY <1>3, <1>6
  <2>4. ~ (Bmp!Byte(1) > 0) /\ ~ (Bmp!Byte(2) >= 3) /\ ~ (Bmp!Byte(2) = 1) /\ ~ (Bmp!Byte(2) = 2)
    BY <2>3
  <2>5. Bmp!EndOfLine
    <3>1. Bmp!CanEndLine
      BY <1>1, <2>2, <2>3 DEF Bmp!CanEndLine, Bmp!Escape, Bmp!InRle
    <3>. QED BY <1>1, <2>4, <3>1, Zenon DEF Bmp!Next, Bmp!LoadHeader, Bmp!RejectHeader, Bmp!ReadRow,
                Bmp!ShortRow, Bmp!RowsRead, Bmp!InRows, Bmp!Run, Bmp!CanRun, Bmp!Raw,
                Bmp!CanDrawRaw, Bmp!EndOfBitmap, Bmp!Move, Bmp!CanMove, Bmp!Escape, Bmp!BadOpcode
  <2>6. /\ at' = at + 2 /\ acc' = [acc EXCEPT !.x = 0, !.y = @ - 1] /\ UNCHANGED <<file, result>>
    BY <2>5, Zenon DEF Bmp!EndOfLine, Bmp!GoesOn
  <2>7. acc' = [acc EXCEPT !.x = 0, !.y = y[k] - 1]
    BY <1>1, <2>6, Zenon
  <2>8. acc' = [kind |-> "rle8", x |-> 0, y |-> y[k] - 1, dy |-> -1, bitmap |-> b]
    BY <1>5, <2>7, Moving
  <2>9. acc' = [kind |-> "rle8", x |-> NextX(op, x[k]), y |-> NextY(op, y[k]),
                dy |-> -1, bitmap |-> b]
    BY <2>1, <2>8, Zenon
  <2>10. at' = at + SizeOf(op)
    BY <2>1, <2>6
  <2>. QED BY <1>4, <2>6, <2>9, <2>10, OpAfter
<1>7. CASE op.kind = "move"
  <2>1. /\ SizeOf(op) = 4 /\ NextX(op, x[k]) = x[k] + op.dx /\ NextY(op, y[k]) = y[k] - op.dy
        /\ Bmp!Byte(3) = op.dx /\ Bmp!Byte(4) = op.dy
    BY <1>2, <1>7 DEF SizeOf, NextX, NextY, StoredAt, Bmp!Byte
  <2>2. op.dy \in Nat
    <3>1. op \in Op
      BY <1>1
    <3>2. op.dy \in Byte
      BY <3>1 DEF Op
    <3>3. \A i \in Byte : i \in Nat
      BY DEF Byte
    <3>. QED BY <3>2, <3>3, Zenon
  <2>3. Bmp!Left >= 4 /\ Bmp!Left >= 2 /\ Bmp!Byte(4) <= acc.y
    <3>1. SizeOf(op) = 4 /\ y[k] - op.dy >= 0
      BY <1>2, <1>2a, <2>1
    <3>2. Bmp!Left >= 4 /\ Bmp!Left >= 2
      BY <1>1, <1>2, <3>1 DEF Bmp!Left
    <3>3. op.dy <= y[k]
      BY <1>1, <2>2, <3>1
    <3>. QED BY <1>1, <2>1, <3>2, <3>3
  <2>4. Bmp!Byte(1) = 0 /\ Bmp!Byte(2) = 2
    BY <1>3, <1>7
  <2>5. ~ (Bmp!Byte(1) > 0) /\ ~ (Bmp!Byte(2) >= 3) /\ ~ (Bmp!Byte(2) = 0) /\ ~ (Bmp!Byte(2) = 1)
    BY <2>4
  <2>6. Bmp!Move
    <3>1. Bmp!CanMove
      BY <1>1, <2>3, <2>4 DEF Bmp!CanMove, Bmp!Escape, Bmp!InRle
    <3>. QED BY <1>1, <2>5, <3>1, Zenon DEF Bmp!Next, Bmp!LoadHeader, Bmp!RejectHeader, Bmp!ReadRow,
                Bmp!ShortRow, Bmp!RowsRead, Bmp!InRows, Bmp!Run, Bmp!CanRun, Bmp!Raw, Bmp!CanDrawRaw,
                Bmp!EndOfLine, Bmp!CanEndLine, Bmp!EndOfBitmap, Bmp!Escape, Bmp!BadOpcode
  <2>7. /\ at' = at + 4 /\ acc' = [acc EXCEPT !.x = @ + Bmp!Byte(3), !.y = @ - Bmp!Byte(4)]
        /\ UNCHANGED <<file, result>>
    BY <2>6, Zenon DEF Bmp!Move, Bmp!GoesOn
  <2>8. acc' = [acc EXCEPT !.x = x[k] + op.dx, !.y = y[k] - op.dy]
    BY <1>1, <2>1, <2>7, Zenon
  <2>9. acc' = [kind |-> "rle8", x |-> x[k] + op.dx, y |-> y[k] - op.dy, dy |-> -1, bitmap |-> b]
    BY <1>5, <2>8, Moving
  <2>10. acc' = [kind |-> "rle8", x |-> NextX(op, x[k]), y |-> NextY(op, y[k]),
                 dy |-> -1, bitmap |-> b]
    BY <2>1, <2>9, Zenon
  <2>11. at' = at + SizeOf(op)
    BY <2>1, <2>7
  <2>. QED BY <1>4, <2>7, <2>10, <2>11, OpAfter
<1>. QED BY <1>6, <1>7

\* The end of the bitmap: what was read is the picture.
LEMMA EndStep ==
  ASSUME NEW w, NEW h, NEW ops, NEW place, NEW x, NEW y, NEW picture,
         IsRle(file, w, h, ops, place, x, y, picture),
         NEW k, k = Len(ops) + 1, NEW b \in Seq(Colours),
         AtOp(k, b, w, h, ops, place, x, y, picture), Bmp!Next
  PROVE  UNCHANGED <<file, at, acc>> /\ result' = Ok(picture)
<1>0. k \in 1 .. Len(ops) + 1 /\ Len(ops) \in Nat
  BY LenProperties DEF IsRle
<1>1. /\ acc.kind = "rle8" /\ acc.bitmap = b /\ at \in Nat /\ at = place[k] /\ Len(b) = w * h
      /\ Len(file.data) \in Nat
  <2>1. BeginsOp(k, b, w, h, ops, place, x, y)
    BY <1>0, OpsFacts, Zenon
  <2>. QED BY <2>1 DEF BeginsOp
<1>2. /\ at + 2 <= Len(file.data) /\ Bmp!Byte(1) = 0 /\ Bmp!Byte(2) = 1
  BY <1>1 DEF IsRle, Bmp!Byte
<1>3. Bmp!EndOfBitmap
  <2>1. Bmp!Left >= 2
    BY <1>1, <1>2 DEF Bmp!Left
  <2>2. Bmp!Escape(1)
    BY <1>1, <1>2, <2>1 DEF Bmp!Escape, Bmp!InRle
  <2>3. ~ (Bmp!Byte(1) > 0) /\ ~ (Bmp!Byte(2) >= 3) /\ ~ (Bmp!Byte(2) = 0) /\ ~ (Bmp!Byte(2) = 2)
    BY <1>2
  <2>4. Bmp!EndOfBitmap \/ Bmp!BadOpcode
    BY <1>1, <2>3, Zenon DEF Bmp!Next, Bmp!LoadHeader, Bmp!RejectHeader, Bmp!ReadRow,
       Bmp!ShortRow, Bmp!RowsRead, Bmp!InRows, Bmp!Run, Bmp!CanRun, Bmp!Raw, Bmp!CanDrawRaw,
       Bmp!EndOfLine, Bmp!CanEndLine, Bmp!Move, Bmp!CanMove, Bmp!Escape
  <2>. QED BY <2>2, <2>4, Zenon DEF Bmp!BadOpcode
<1>4. UNCHANGED <<file, at, acc>> /\ result' = Ok(b)
  BY <1>1, <1>3 DEF Bmp!EndOfBitmap, Bmp!Ends, Bmp!Ok, Ok
<1>5. ASSUME NEW i \in 1 .. w * h PROVE b[i] = picture[i]
  <2>1. b[i] = IF \E m \in 1 .. k - 1 : Drawn(ops[m], x[m], y[m], w, i) THEN picture[i]
               ELSE file.palette[1]
    BY DEF AtOp, DrawnSoFar
  <2>2. k - 1 = Len(ops)
    BY <1>0
  <2>3. (\E m \in 1 .. Len(ops) : Drawn(ops[m], x[m], y[m], w, i)) \/ picture[i] = file.palette[1]
    BY DEF IsRle
  <2>. QED BY <2>1, <2>2, <2>3
<1>6. picture \in Seq(Colours) /\ Len(picture) = w * h
  BY DEF IsRle, FillsBitmap
<1>7. b = picture
  BY <1>1, <1>5, <1>6, SeqEqual
<1>. QED BY <1>4, <1>7

\* A step among the operations: the next one whole, or the end.
LEMMA OpStep ==
  ASSUME NEW w, NEW h, NEW ops, NEW place, NEW x, NEW y, NEW picture,
         OpsSoFar(w, h, ops, place, x, y, picture), result = Pending, Bmp!Next
  PROVE  OpsSoFar(w, h, ops, place, x, y, picture)' /\ result' \in {Pending, Ok(picture)}
<1>1. PICK k \in 1 .. Len(ops) + 1, b \in Seq(Colours) : AtOp(k, b, w, h, ops, place, x, y, picture)
  BY DEF OpsSoFar
<1>2. IsRle(file, w, h, ops, place, x, y, picture) /\ Len(ops) \in Nat /\ ops \in Seq(Op)
  BY LenProperties DEF OpsSoFar, IsRle
<1>3. CASE k = Len(ops) + 1
  <2>1. UNCHANGED <<file, at, acc>> /\ result' = Ok(picture)
    BY <1>1, <1>2, <1>3, EndStep
  <2>2. OpsSoFar(w, h, ops, place, x, y, picture)'
    BY <2>1 DEF OpsSoFar, AtOp
  <2>. QED BY <2>1, <2>2
<1>4. CASE k # Len(ops) + 1
  <2>1. k \in 1 .. Len(ops)
    BY <1>2, <1>4
  <2>2. ops[k].kind \in {"run", "raw", "line", "move"}
    <3>1. ops[k] \in Op
      BY <1>2, <2>1
    <3>. QED BY <3>1 DEF Op
  <2>3. CASE ops[k].kind = "run"
    BY <1>1, <1>2, <2>1, <2>3, RunStep
  <2>4. CASE ops[k].kind = "raw"
    BY <1>1, <1>2, <2>1, <2>4, RawStep
  <2>5. CASE ops[k].kind \in {"line", "move"}
    BY <1>1, <1>2, <2>1, <2>5, MovingStep
  <2>. QED BY <2>2, <2>3, <2>4, <2>5
<1>. QED BY <1>3, <1>4

-----------------------------------------------------------------------------
\* Not begun, among the rows or the operations, or ended.
HeaderNext(picture) ==
  /\ HoldsBitmap(file, picture) /\ at = 0 /\ result = Pending
  /\ acc = [kind |-> "header", x |-> 0, y |-> 0, dy |-> -1, bitmap |-> <<>>]
BitmapSoFar(picture) ==
  \/ HeaderNext(picture)
  \/ /\ result \in {Pending, Ok(picture)}
     /\ \/ \E w, h, start : RowsSoFar(w, h, start, picture)
        \/ \E w, h, ops, place, x, y : OpsSoFar(w, h, ops, place, x, y, picture)

\* A header that is accepted can only be loaded.
LEMMA OnlyHeader ==
  ASSUME acc.kind = "header", Bmp!Accepted, Bmp!Next PROVE Bmp!LoadHeader
  BY Zenon DEF Bmp!Next, Bmp!RejectHeader, Bmp!ReadRow, Bmp!ShortRow, Bmp!RowsRead, Bmp!InRows,
     Bmp!Run, Bmp!CanRun, Bmp!Raw, Bmp!CanDrawRaw, Bmp!EndOfLine, Bmp!CanEndLine, Bmp!EndOfBitmap,
     Bmp!Move, Bmp!CanMove, Bmp!Escape, Bmp!BadOpcode, Bmp!InRle

\* An index between two bounds.
LEMMA InRange == ASSUME NEW i \in Nat, i >= 1, NEW m, i <= m, m \in Nat PROVE i \in 1 .. m
  OBVIOUS

\* The reader takes the headers, and begins with the first row.
LEMMA RowsBegin ==
  ASSUME NEW w, NEW h, NEW start, NEW picture, IsRgb(file, w, h, start, picture),
         acc.kind = "header", Bmp!Next
  PROVE  RowsSoFar(w, h, start, picture)' /\ UNCHANGED result
<1>. DEFINE down == file.biHeight < 0
<1>1. /\ HeaderFits(file, w, h) /\ file.biBitCount = 24 /\ file.biCompression = 0 /\ start[0] = 0
  BY DEF IsRgb
<1>2. /\ Bmp!Height = h /\ (Bmp!TopDown <=> down) /\ file.biWidth = w /\ w \in Nat /\ h \in Nat
      /\ h >= 1 /\ w >= 1
  BY <1>1, HeightSays
<1>3. Bmp!IsRgb24 /\ ~ Bmp!IsRle8
  BY <1>1 DEF Bmp!IsRgb24, Bmp!IsRle8
<1>4. Bmp!Accepted
  <2>1. CASE file.reader = "c++"
    <3>1. w <= MaxSide /\ h <= MaxSide
      BY <1>1, <2>1 DEF HeaderFits
    <3>3. file.magic
      BY <1>1 DEF HeaderFits
    <3>2. /\ file.biWidth \in Nat /\ file.biWidth >= 1 /\ file.biWidth <= MaxSide
          /\ Bmp!Height \in Nat /\ Bmp!Height >= 1 /\ Bmp!Height <= MaxSide
      BY <1>2, <3>1
    <3>. DEFINE wide == file.biWidth \in 1 .. MaxSide
                high == Bmp!Height \in 1 .. MaxSide
                other == /\ file.biSize = 40 /\ (Bmp!IsRgb24 \/ Bmp!IsRle8)
                         /\ file.biWidth >= 0 /\ file.biHeight >= IF Bmp!IsRle8 THEN 1 ELSE 0
    <3>4. Bmp!Accepted =
            /\ file.magic
            /\ IF Bmp!Cpp THEN Bmp!IsRgb24 /\ wide /\ high ELSE other
      BY DEF Bmp!Accepted, MaxSide
    <3>5. Bmp!Cpp
      BY <2>1 DEF Bmp!Cpp
    <3>. HIDE DEF wide, high, other
    <3>6. wide /\ high
      <4>1. MaxSide \in Nat
        BY DEF MaxSide
      <4>2. wide
        BY <3>2, <4>1, InRange DEF wide
      <4>3. high
        BY <3>2, <4>1, InRange DEF high
      <4>. QED BY <4>2, <4>3
    <3>. QED BY <1>3, <3>3, <3>4, <3>5, <3>6, Zenon
  <2>2. CASE file.reader # "c++"
    <3>1. file.biHeight = h /\ file.biSize = 40 /\ file.magic
      BY <1>1, <2>2 DEF HeaderFits
    <3>2. file.biWidth >= 0 /\ file.biHeight >= 0
      BY <1>2, <3>1
    <3>. QED BY <1>3, <2>2, <3>1, <3>2 DEF Bmp!Accepted, Bmp!Cpp
  <2>. QED BY <2>1, <2>2
<1>5. Bmp!LoadHeader
  BY <1>4, OnlyHeader
<1>6. PICK b : b = [i \in 1 .. w * h |-> <<0, 0, 0>>]
  OBVIOUS
<1>7. /\ at' = 0 /\ UNCHANGED <<file, result>>
      /\ acc' = [kind |-> "rgb24", x |-> 0, y |-> IF down THEN 0 ELSE h - 1,
                 dy |-> IF down THEN 1 ELSE -1, bitmap |-> b]
  BY <1>2, <1>3, <1>5, <1>6, Zenon DEF Bmp!LoadHeader, Bmp!GoesOn, Bmp!Black
<1>8. b \in Seq(Colours) /\ Len(b) = w * h
  <2>1. w * h \in Nat
    BY <1>2
  <2>2. 0 \in Byte
    BY DEF Byte
  <2>3. <<0, 0, 0>> \in Colours
    BY <2>2 DEF Colours
  <2>. QED BY <1>6, <2>1, <2>3, OneColour
<1>9. AtRow(0, b, w, h, start, picture)'
  <2>1. /\ 0 * w = 0 /\ (h - 0) * w = w * h /\ w * h \in Nat /\ h - 1 = h - 1 - 0
    BY <1>2
  <2>2. \A i \in 1 .. w * h :
          (IF down THEN i <= 0 * w ELSE i > (h - 0) * w) => b[i] = picture[i]
    BY <2>1
  <2>3. (file.biHeight < 0)' = down
    BY <1>7
  <2>4. acc' = [kind |-> "rgb24", x |-> 0, y |-> IF down THEN 0 ELSE h - 1 - 0,
                dy |-> IF down THEN 1 ELSE -1, bitmap |-> b]
    BY <1>7, <2>1
  <2>. HIDE DEF down
  <2>. QED BY <1>1, <1>7, <1>8, <2>2, <2>3, <2>4 DEF AtRow
<1>10. IsRgb(file, w, h, start, picture)'
  BY <1>7
<1>11. 0 \in 0 .. h
  BY <1>2
<1>. QED BY <1>7, <1>8, <1>9, <1>10, <1>11 DEF RowsSoFar

\* Or with the first operation.
LEMMA OpsBegin ==
  ASSUME NEW w, NEW h, NEW ops, NEW place, NEW x, NEW y, NEW picture,
         IsRle(file, w, h, ops, place, x, y, picture), acc.kind = "header", Bmp!Next
  PROVE  OpsSoFar(w, h, ops, place, x, y, picture)' /\ UNCHANGED result
<1>1. /\ HeaderFits(file, w, h) /\ file.biBitCount = 8 /\ file.biCompression = 1
      /\ file.reader # "c++" /\ file.palette \in Seq(Colours) /\ file.palette # <<>>
      /\ place[1] = 0 /\ x[1] = 0 /\ y[1] = h - 1
  BY DEF IsRle
<1>2. /\ Bmp!Height = h /\ (Bmp!TopDown <=> file.biHeight < 0) /\ file.biWidth = w
      /\ w \in Nat /\ h \in Nat /\ h >= 1 /\ w >= 1
  BY <1>1, HeightSays
<1>3. Bmp!IsRle8 /\ ~ Bmp!IsRgb24
  BY <1>1 DEF Bmp!IsRgb24, Bmp!IsRle8
<1>4. file.biHeight = h /\ file.biSize = 40 /\ file.magic
  BY <1>1 DEF HeaderFits
<1>5. ~ Bmp!TopDown /\ file.biWidth >= 0 /\ file.biHeight >= 1
  BY <1>2, <1>4
<1>6. Bmp!Accepted
  BY <1>1, <1>3, <1>4, <1>5 DEF Bmp!Accepted, Bmp!Cpp
<1>7. Bmp!LoadHeader
  BY <1>6, OnlyHeader
<1>8. PICK b : b = [i \in 1 .. w * h |-> file.palette[1]]
  OBVIOUS
<1>9. /\ at' = 0 /\ UNCHANGED <<file, result>>
      /\ acc' = [kind |-> "rle8", x |-> 0, y |-> h - 1, dy |-> -1, bitmap |-> b]
  BY <1>1, <1>2, <1>3, <1>5, <1>7, <1>8, Zenon DEF Bmp!LoadHeader, Bmp!GoesOn
<1>10. b \in Seq(Colours) /\ Len(b) = w * h /\ \A i \in 1 .. w * h : b[i] = file.palette[1]
  <2>1. w * h \in Nat
    BY <1>2
  <2>2. file.palette[1] \in Colours
    <3>1. Len(file.palette) \in Nat /\ Len(file.palette) # 0
      BY <1>1, LenProperties, EmptySeq
    <3>2. 1 \in 1 .. Len(file.palette)
      BY <3>1
    <3>. QED BY <1>1, <3>2
  <2>. QED BY <1>8, <2>1, <2>2, OneColour
<1>11. AtOp(1, b, w, h, ops, place, x, y, picture)'
  <2>1. DrawnSoFar(file, 1, b, w, h, ops, x, y, picture)
    <3>1. 1 .. 1 - 1 = {}
      OBVIOUS
    <3>. QED BY <1>10, <3>1 DEF DrawnSoFar
  <2>. QED BY <1>1, <1>9, <2>1 DEF AtOp
<1>12. IsRle(file, w, h, ops, place, x, y, picture)' /\ 1 \in 1 .. Len(ops) + 1
  <2>1. Len(ops) \in Nat
    BY LenProperties DEF IsRle
  <2>. QED BY <1>9, <2>1
<1>. QED BY <1>9, <1>10, <1>11, <1>12 DEF OpsSoFar

\* A reader that has ended takes no step.
LEMMA BmpRuns == ASSUME Bmp!Next PROVE result = Pending
  BY DEF Bmp!Next, Bmp!LoadHeader, Bmp!RejectHeader, Bmp!ReadRow, Bmp!ShortRow, Bmp!RowsRead,
     Bmp!Run, Bmp!Raw, Bmp!EndOfLine, Bmp!EndOfBitmap, Bmp!Move, Bmp!BadOpcode, Bmp!Draw,
     Bmp!GoesOn, Bmp!Ends, Bmp!Running, Bmp!Pending, Pending

\* Every step keeps what has been read.
LEMMA BitmapStep ==
  ASSUME NEW picture, BitmapSoFar(picture), [Bmp!Next]_decodingVars PROVE BitmapSoFar(picture)'
<1>1. CASE UNCHANGED decodingVars
  BY <1>1 DEF decodingVars, BitmapSoFar, HeaderNext, RowsSoFar, AtRow, OpsSoFar, AtOp
<1>2. CASE Bmp!Next
  <2>0. result = Pending
    BY <1>2, BmpRuns
  <2>1. CASE HeaderNext(picture)
    <3>1. acc.kind = "header"
      BY <2>1 DEF HeaderNext
    <3>2. PICK w, h : \/ \E start : IsRgb(file, w, h, start, picture)
                      \/ \E ops, place, x, y : IsRle(file, w, h, ops, place, x, y, picture)
      BY <2>1 DEF HeaderNext, HoldsBitmap
    <3>3. CASE \E start : IsRgb(file, w, h, start, picture)
      <4>1. PICK start : IsRgb(file, w, h, start, picture)
        BY <3>3
      <4>2. RowsSoFar(w, h, start, picture)' /\ result' = Pending
        BY <1>2, <2>0, <3>1, <4>1, RowsBegin
      <4>. QED BY <4>2 DEF BitmapSoFar
    <3>4. CASE \E ops, place, x, y : IsRle(file, w, h, ops, place, x, y, picture)
      <4>1. PICK ops, place, x, y : IsRle(file, w, h, ops, place, x, y, picture)
        BY <3>4
      <4>2. OpsSoFar(w, h, ops, place, x, y, picture)' /\ result' = Pending
        BY <1>2, <2>0, <3>1, <4>1, OpsBegin
      <4>. QED BY <4>2 DEF BitmapSoFar
    <3>. QED BY <3>2, <3>3, <3>4
  <2>2. CASE \E w, h, start : RowsSoFar(w, h, start, picture)
    <3>1. PICK w, h, start : RowsSoFar(w, h, start, picture)
      BY <2>2
    <3>2. RowsSoFar(w, h, start, picture)' /\ result' \in {Pending, Ok(picture)}
      BY <1>2, <2>0, <3>1, RowStep24
    <3>. QED BY <3>2 DEF BitmapSoFar
  <2>3. CASE \E w, h, ops, place, x, y : OpsSoFar(w, h, ops, place, x, y, picture)
    <3>1. PICK w, h, ops, place, x, y : OpsSoFar(w, h, ops, place, x, y, picture)
      BY <2>3
    <3>2. OpsSoFar(w, h, ops, place, x, y, picture)' /\ result' \in {Pending, Ok(picture)}
      BY <1>2, <2>0, <3>1, OpStep
    <3>. QED BY <3>2 DEF BitmapSoFar
  <2>. QED BY <2>1, <2>2, <2>3 DEF BitmapSoFar
<1>. QED BY <1>1, <1>2

\* The readers of bitmaps (MyLoadBMP of show_bmp24.py, show_bmp24_v2.cpp and
\* show_bmp8rle_v2.py) end with the picture that the file holds, or go on: for
\* any size, rows up or down with their padding, and any mixture of runs, raw
\* data, ends of lines and moves.
THEOREM BitmapsComeBack ==
  ASSUME NEW picture
  PROVE  (\E input : HoldsBitmap(input, picture) /\ Bmp!Init(input)) /\ [][Bmp!Next]_decodingVars
           => [](result \in {Pending, Ok(picture)})
<1>1. (\E input : HoldsBitmap(input, picture) /\ Bmp!Init(input)) => BitmapSoFar(picture)
  BY DEF Bmp!Init, Bmp!Begins, Bmp!Pending, Pending, BitmapSoFar, HeaderNext
<1>2. BitmapSoFar(picture) /\ [Bmp!Next]_decodingVars => BitmapSoFar(picture)'
  BY BitmapStep
<1>3. BitmapSoFar(picture) => result \in {Pending, Ok(picture)}
  BY DEF BitmapSoFar, HeaderNext
<1>. QED BY <1>1, <1>2, <1>3, PTL
=============================================================================
