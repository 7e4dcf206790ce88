------------------------------ MODULE BmpReader ------------------------------
(***************************************************************************)
(* MyLoadBMP: uncompressed bitmaps of 24 bits (show_bmp24.py,              *)
(* show_bmp8rle_v2.py and, in C++, show_bmp24_v2.cpp) and run-length       *)
(* encoded ones of 8 bits (show_bmp8rle_v2.py).  The input is the fields   *)
(* of the headers, with their signs, the palette and the bytes from        *)
(* bfOffBits on; None, NULL and exceptions are one Error.                  *)
(***************************************************************************)
EXTENDS Decoding
LOCAL INSTANCE SequencesExt

\* acc: kind is "header", "rgb24" or "rle8"; x and y are the locals, dy is the
\* order of the rows; bitmap has a triple for each pixel, from the top.
\* at: the bytes of the data that have been read.
Init(input) ==
  Begins(input, [kind |-> "header", x |-> 0, y |-> 0, dy |-> -1, bitmap |-> <<>>])

Byte(i) == file.data[at + i]
Left == Len(file.data) - at
Black == <<0, 0, 0>>

Cpp == file.reader = "c++"
IsRgb24 == file.biBitCount = 24 /\ file.biCompression = 0
IsRle8 == file.biBitCount = 8 /\ file.biCompression = 1
Height == IF file.biHeight < 0 THEN -file.biHeight ELSE file.biHeight

\* Python unpacks the sizes without their signs: a negative height becomes one
\* for which there is no memory, and the test h < 0 that follows never holds.
\* The C++ reader checks both sizes, but not biSize.
Accepted ==
  /\ file.magic
  /\ IF Cpp THEN IsRgb24 /\ file.biWidth \in 1 .. 20000 /\ Height \in 1 .. 20000
            ELSE /\ file.biSize = 40 /\ (IsRgb24 \/ IsRle8)
                 /\ file.biWidth >= 0 /\ file.biHeight >= IF IsRle8 THEN 1 ELSE 0

\* Mutant: a negative height is taken for its absolute value only.
TopDownIgnored == FALSE

TopDown == file.biHeight < 0

\* A run-length encoded bitmap begins in the first colour of the palette.
LoadHeader ==
  /\ acc.kind = "header" /\ Accepted
  /\ GoesOn(0, [kind |-> IF IsRgb24 THEN "rgb24" ELSE "rle8",
                x |-> 0, y |-> IF TopDown THEN 0 ELSE Height - 1, dy |-> IF TopDown THEN 1 ELSE -1,
                bitmap |-> IF IsRle8 /\ file.palette = <<>> THEN <<>>
                           ELSE [i \in 1 .. file.biWidth * Height |->
                                   IF IsRle8 THEN file.palette[1] ELSE Black]])

RejectHeader == acc.kind = "header" /\ ~Accepted /\ Ends(Error)

\* The bitmap with colours from the position of x and y on.
Fits(n) == acc.x + acc.y * file.biWidth + n <= Len(acc.bitmap)
Written(colours) ==
  LET p == acc.x + acc.y * file.biWidth
  IN  [i \in DOMAIN acc.bitmap |->
         IF i \in p + 1 .. p + Len(colours) THEN colours[i - p] ELSE acc.bitmap[i]]

-----------------------------------------------------------------------------
\* Mutant: rows are not padded.
PitchUnpadded == 3 * file.biWidth

Pitch == ((3 * file.biWidth + 3) \div 4) * 4

InRows == acc.kind = "rgb24" /\ acc.y \in 0 .. Height - 1

ReadRow ==
  /\ InRows /\ Left >= 3 * file.biWidth
  /\ LET row == [i \in 1 .. file.biWidth |-> <<Byte(3 * i - 2), Byte(3 * i - 1), Byte(3 * i)>>]
     IN  GoesOn(at + Pitch, [acc EXCEPT !.y = @ + acc.dy, !.bitmap = Written(row)])

ShortRow == InRows /\ Left < 3 * file.biWidth /\ Ends(Error)

RowsRead == acc.kind = "rgb24" /\ ~InRows /\ Ends(Ok(acc.bitmap))

-----------------------------------------------------------------------------
InRle == acc.kind = "rle8"
Escape(n) == InRle /\ Left >= 2 /\ Byte(1) = 0 /\ Byte(2) = n
Colour(index) == IF index < Len(file.palette) THEN file.palette[index + 1] ELSE Black
Draw(n, colours) ==
  GoesOn(at + n, [acc EXCEPT !.x = @ + Len(colours), !.bitmap = Written(colours)])

CanRun == InRle /\ Left >= 2 /\ Byte(1) > 0 /\ Fits(Byte(1))
Run == CanRun /\ Draw(2, [i \in 1 .. Byte(1) |-> Colour(Byte(2))])

\* Mutant: the padding is not skipped.
RawBytesUnpadded == 2 + Byte(2)

\* Raw data is padded to an even number of bytes.
RawBytes == 2 + 2 * ((Byte(2) + 1) \div 2)

CanDrawRaw ==
  /\ InRle /\ Left >= 2 /\ Byte(1) = 0 /\ Byte(2) >= 3
  /\ Left >= RawBytes /\ Fits(Byte(2))
Raw == CanDrawRaw /\ Draw(RawBytes, [i \in 1 .. Byte(2) |-> Colour(Byte(2 + i))])

CanEndLine == Escape(0) /\ acc.y > 0
EndOfLine == CanEndLine /\ GoesOn(at + 2, [acc EXCEPT !.x = 0, !.y = @ - 1])

EndOfBitmap == Escape(1) /\ Ends(Ok(acc.bitmap))

\* Mutant: a move begins a line.
MoveToLineStart ==
  Escape(2) /\ Left >= 4 /\ Byte(4) <= acc.y
  /\ GoesOn(at + 4, [acc EXCEPT !.x = Byte(3), !.y = @ - Byte(4)])

CanMove == Escape(2) /\ Left >= 4 /\ Byte(4) <= acc.y
Move == CanMove /\ GoesOn(at + 4, [acc EXCEPT !.x = @ + Byte(3), !.y = @ - Byte(4)])

\* The data ends, a pixel is outside the bitmap, or there is no further row:
\* that is also how an end of line after the last row ends.
BadOpcode ==
  InRle /\ ~(CanRun \/ CanDrawRaw \/ CanEndLine \/ CanMove \/ Escape(1)) /\ Ends(Error)

Next ==
  \/ LoadHeader \/ RejectHeader
  \/ ReadRow \/ ShortRow \/ RowsRead
  \/ Run \/ Raw \/ EndOfLine \/ EndOfBitmap \/ Move \/ BadOpcode
=============================================================================
