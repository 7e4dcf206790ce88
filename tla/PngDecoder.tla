----------------------------- MODULE PngDecoder -----------------------------
(***************************************************************************)
(* PNGReader of decodepng.py: the chunks are read up to IEND, the data of  *)
(* the IDAT chunks is joined and inflated, and the filter of each row is   *)
(* undone.  A chunk is its type, its data and the checksum it came with;   *)
(* the data of IHDR is the sequence of its fields.                         *)
(***************************************************************************)
EXTENDS Decoding
LOCAL INSTANCE SequencesExt

\* crc32 tells any two chunks apart; a zlib stream has a header and the
\* checksum of what it holds, and is of no use when it is cut or put together
\* in another order.
Crc32(type, data) == <<type, data>>
Adler32(bytes) == FoldLeft(LAMBDA sum, b : (2 * sum + b) % 65521, 1, bytes)
Deflated(bytes) == <<120>> \o bytes \o <<Adler32(bytes)>>
Inflates(z) == Len(z) >= 2 /\ z = Deflated(SubSeq(z, 2, Len(z) - 1))

\* acc: the fields of PNGReader, and the inflated data once it is there.
\* at: the chunks that have been read.
Init(input) == Begins(input, [header |-> <<>>, bitmap_data |-> <<>>, rows |-> <<>>, data |-> <<>>])

InChunks == acc.rows = <<>>
AtChunk(type) == at < Len(file.chunks) /\ InChunks /\ file.chunks[at + 1].type = type
Data == file.chunks[at + 1].data

\* Mutant: the checksum is not looked at.
IntactUnchecked == TRUE

Intact == file.chunks[at + 1].crc32 = Crc32(file.chunks[at + 1].type, Data)

\* The end of the file comes before IEND, or something is wrong at once.
NotAPng ==
  /\ InChunks
  /\ (file.magic /\ at < Len(file.chunks)) => ~Intact
  /\ Ends(Error)

Fields ==
  [width |-> Data[1], height |-> Data[2], bpp |-> Data[3], color |-> Data[4],
   compression |-> Data[5], filter |-> Data[6], interlace |-> Data[7]]
Supported(header) ==
  /\ header.bpp = 8 /\ header.color = 2
  /\ header.compression = 0 /\ header.filter = 0 /\ header.interlace = 0

ProcessIHDR ==
  /\ file.magic /\ AtChunk("IHDR") /\ Intact
  /\ IF Supported(Fields) THEN GoesOn(at + 1, [acc EXCEPT !.header = Fields]) ELSE Ends(Error)

\* Mutant: a chunk is put before the ones that came earlier.
ProcessIDATBefore ==
  /\ file.magic /\ AtChunk("IDAT") /\ Intact
  /\ GoesOn(at + 1, [acc EXCEPT !.bitmap_data = Data \o @])

ProcessIDAT ==
  /\ file.magic /\ AtChunk("IDAT") /\ Intact
  /\ GoesOn(at + 1, [acc EXCEPT !.bitmap_data = @ \o Data])

IgnoreChunk ==
  /\ file.magic /\ at < Len(file.chunks) /\ InChunks /\ Intact
  /\ file.chunks[at + 1].type \notin {"IHDR", "IDAT", "IEND"}
  /\ GoesOn(at + 1, acc)

\* A row of zeros goes before the first; a file without IHDR has no width.
ProcessIEND ==
  /\ file.magic /\ AtChunk("IEND") /\ Intact
  /\ IF Inflates(acc.bitmap_data) /\ acc.header # <<>>
     THEN GoesOn(at + 1,
            [acc EXCEPT !.rows = <<[x \in 1 .. 3 * (acc.header.width + 1) |-> 0]>>,
                        !.data = SubSeq(acc.bitmap_data, 2, Len(acc.bitmap_data) - 1)])
     ELSE Ends(Error)

-----------------------------------------------------------------------------
Distance(p, v) == IF p >= v THEN p - v ELSE v - p

\* Mutant: among equally near values the one above the left is preferred.
PaethUpLeftFirst(a, b, c) ==
  LET p == a + b - c
  IN  IF Distance(p, a) <= Distance(p, b) /\ Distance(p, a) < Distance(p, c) THEN a
      ELSE IF Distance(p, b) < Distance(p, c) THEN b
      ELSE c

Paeth(a, b, c) ==
  LET p == a + b - c
  IN  IF Distance(p, a) <= Distance(p, b) /\ Distance(p, a) <= Distance(p, c) THEN a
      ELSE IF Distance(p, b) <= Distance(p, c) THEN b
      ELSE c

\* What is added to a byte, by the number of the filter: none, sub, up,
\* average, paeth.
Predictor(type, left, up, upleft) ==
  <<0, left, up, (left + up) \div 2, Paeth(left, up, upleft)>>[type + 1]

\* Mutant: the byte before is taken for the one of the pixel before.
UnfilterNextByte(type, prior, data) ==
  LET row[x \in 1 .. Len(data) + 3] ==
        IF x <= 3 THEN 0
        ELSE (data[x - 3] + Predictor(type, row[x - 1], prior[x], prior[x - 1])) % 256
  IN  row

\* Three zeros go before a row: the pixel before the first.
Unfilter(type, prior, data) ==
  LET row[x \in 1 .. Len(data) + 3] ==
        IF x <= 3 THEN 0
        ELSE (data[x - 3] + Predictor(type, row[x - 3], prior[x], prior[x - 3])) % 256
  IN  row

Height == acc.header.height
RowBytes == 3 * acc.header.width
MoreRows == ~InChunks /\ Len(acc.rows) - 1 < Height

\* get_block gives less at the end of the data, get_uint8 fails there.
DecodeRow ==
  /\ MoreRows /\ acc.data # <<>> /\ acc.data[1] <= 4
  /\ LET n == IF Len(acc.data) < 1 + RowBytes THEN Len(acc.data) ELSE 1 + RowBytes
         row == Unfilter(acc.data[1], acc.rows[Len(acc.rows)], SubSeq(acc.data, 2, n))
     IN  GoesOn(at, [acc EXCEPT !.rows = Append(@, row), !.data = SubSeq(@, n + 1, Len(@))])

BadRow == MoreRows /\ (acc.data # <<>> => acc.data[1] > 4) /\ Ends(Error)

\* The zeros that were put in are taken out again.
Finish ==
  /\ ~InChunks /\ ~MoreRows
  /\ Ends(Ok([y \in 1 .. Height |-> SubSeq(acc.rows[y + 1], 4, Len(acc.rows[y + 1]))]))

Next ==
  \/ NotAPng \/ ProcessIHDR \/ ProcessIDAT \/ IgnoreChunk \/ ProcessIEND
  \/ DecodeRow \/ BadRow \/ Finish
=============================================================================
