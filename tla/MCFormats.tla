------------------------------ MODULE MCFormats ------------------------------
(***************************************************************************)
(* Files and packets for the readers of formats, written by encoders that  *)
(* follow the formats and not the readers.  An input says in expected what *)
(* its reader must end with.                                               *)
(***************************************************************************)
EXTENDS Decoding, FiniteSets, FiniteSetsExt
LOCAL INSTANCE SequencesExt

Png == INSTANCE PngDecoder
Bmp == INSTANCE BmpReader
Dns == INSTANCE DnsClient
Ini == INSTANCE IniParser

-----------------------------------------------------------------------------
\* PNG.  The filters as the format defines them: what is taken from each byte
\* is its neighbour, their mean, or the first of the nearest to left+up-upleft.
Absolute(v) == IF v < 0 THEN -v ELSE v
Nearest(left, up, upleft) ==
  LET candidates == <<left, up, upleft>>
      far(k) == Absolute(left + up - upleft - candidates[k])
      nearest == {k \in 1 .. 3 : \A l \in 1 .. 3 : far(k) <= far(l)}
  IN  candidates[CHOOSE k \in nearest : \A l \in nearest : k <= l]
Filtered(type, row, prior) ==
  LET byte(s, x) == IF x < 1 THEN 0 ELSE s[x]
      taken(x) ==
        CASE type = 0 -> 0
          [] type = 1 -> byte(row, x - 3)
          [] type = 2 -> prior[x]
          [] type = 3 -> (byte(row, x - 3) + prior[x]) \div 2
          [] type = 4 -> Nearest(byte(row, x - 3), prior[x], byte(prior, x - 3))
          [] OTHER -> 0
  IN  <<type>> \o [x \in DOMAIN row |-> (row[x] - taken(x)) % 256]

\* Two rows of two pixels; the channels of a pixel differ, and 0, 255 and 170
\* are a tie of the last filter.
Pixel(v) == <<v, (v + 100) % 256, (2 * v) % 256>>
Pictures == {<<Pixel(a) \o Pixel(b), Pixel(c) \o Pixel(d)>> : a, b, c, d \in {0, 170, 255}}
PngData(picture, types) ==
  Filtered(types[1], picture[1], [x \in DOMAIN picture[1] |-> 0])
  \o Filtered(types[2], picture[2], picture[1])

PngChunk(type, data) == [type |-> type, data |-> data, crc32 |-> Png!Crc32(type, data)]
IHDR == <<2, 2, 8, 2, 0, 0, 0>>
Header == PngChunk("IHDR", IHDR)
Text == PngChunk("tEXt", <<1>>)
End == PngChunk("IEND", <<>>)
PngFile(chunks, expected) == [magic |-> TRUE, chunks |-> chunks, expected |-> expected]

\* Every filter in each row; then one picture in every division into chunks,
\* with everything that may come in between, and with all that can be wrong.
FilteredFiles ==
  {PngFile(<<Header, PngChunk("IDAT", Png!Deflated(PngData(picture, types))), End>>, Ok(picture))
     : picture \in Pictures, types \in [1 .. 2 -> 0 .. 4]}

ThePicture == <<Pixel(7) \o Pixel(255), Pixel(30) \o Pixel(7)>>
ThePngData == PngData(ThePicture, <<4, 3>>)
Cut(z, k) == <<PngChunk("IDAT", SubSeq(z, 1, k)), PngChunk("IDAT", SubSeq(z, k + 1, Len(z)))>>
Spoilt(chunk) == [chunk EXCEPT !.crc32 = Png!Crc32("none", <<>>)]
ChunkedFiles ==
  LET z == Png!Deflated(ThePngData)
      whole(data) == <<Header, PngChunk("IDAT", Png!Deflated(data)), End>>
      short == SubSeq(ThePngData, 1, Len(ThePngData) - 2)
  IN  UNION {LET d == Cut(z, k)
                 good == {<<Header>> \o d \o <<End>>, <<Header, Text, d[1], Text, d[2], End>>,
                          d \o <<Header, End>>, <<Header, d[1], Header, d[2], End, Spoilt(Text)>>}
                 all == <<Header, Text>> \o d \o <<End>>
                 bad == {<<Header, d[2], d[1], End>>, <<Header, d[1], End>>, d \o <<End>>,
                         <<Header, End>>, <<Header>> \o d, <<>>}
                        \cup {[all EXCEPT ![i] = Spoilt(@)] : i \in 1 .. 5}
             IN  {PngFile(f, Ok(ThePicture)) : f \in good} \cup {PngFile(f, Error) : f \in bad}
             : k \in {1, 9, Len(z) - 1}}
      \cup {PngFile(<<PngChunk("IHDR", h)>> \o Cut(z, 9) \o <<End>>, Error)
              : h \in {[IHDR EXCEPT ![3] = 16], [IHDR EXCEPT ![4] = 6], [IHDR EXCEPT ![5] = 1],
                       [IHDR EXCEPT ![6] = 1], [IHDR EXCEPT ![7] = 1]}}
      \cup {[PngFile(whole(ThePngData), Error) EXCEPT !.magic = FALSE],
            PngFile(whole(PngData(ThePicture, <<0, 5>>)), Error),
            PngFile(whole(SubSeq(ThePngData, 1, 7)), Error),
            \* A row that is cut short is passed on as it is.
            PngFile(whole(short), Ok([ThePicture EXCEPT ![2] = SubSeq(@, 1, 4)]))}

PngFiles == FilteredFiles \cup ChunkedFiles

-----------------------------------------------------------------------------
\* BMP.  Two rows of three pixels; a colour that the palette lacks is black.
Palette == << <<9, 9, 9>>, <<1, 2, 3>> >>
Shown(index) == IF index < 2 THEN Palette[index + 1] ELSE <<0, 0, 0>>
BmpHeader(reader, height) ==
  [reader |-> reader, magic |-> TRUE, biSize |-> 40, biWidth |-> 3, biHeight |-> height,
   biBitCount |-> 24, biCompression |-> 0, palette |-> <<>>, data |-> <<>>, expected |-> Error]

\* A row of indices as runs, as raw data, or with a move over its background.
Runs(row) ==
  IF row[1] = row[2] /\ row[2] = row[3] THEN <<3, row[1]>>
  ELSE IF row[1] = row[2] THEN <<2, row[1], 1, row[3]>>
  ELSE <<1, row[1], 1, row[2], 1, row[3]>>
RawRow(row) == <<0, 3>> \o row \o <<0>>
Moved(row) ==
  IF row[1] = 0 THEN <<0, 2, 1, 0, 1, row[2], 1, row[3]>> ELSE <<1, row[1], 0, 2, 0, 0, 1, row[2], 1, row[3]>>
Encodings(row) == {Runs(row), RawRow(row), Moved(row)}
EndLine == <<0, 0>>
EndBitmap == <<0, 1>>

RleFile(data, expected) ==
  [BmpHeader("python", 2) EXCEPT !.biBitCount = 8, !.biCompression = 1, !.palette = Palette,
                                 !.data = data, !.expected = expected]
PictureOf(top, bottom) == [i \in 1 .. 6 |-> Shown((top \o bottom)[i])]

\* The bottom row comes first.  What may follow an end of line after the top
\* row is not reached.
TopRows == {<<a, b, c>> : a, b, c \in {0, 1, 9}}
BottomRows == {<<0, 0, 0>>, <<0, 1, 1>>, <<1, 0, 9>>}
RleFiles ==
  UNION {{RleFile(low \o EndLine \o high \o EndBitmap, Ok(PictureOf(top, bottom)))
            : low \in Encodings(bottom), high \in Encodings(top)}
         : top \in TopRows, bottom \in BottomRows}
  \cup UNION {{RleFile(<<0, 2, 1, 1>> \o SubSeq(Runs(top), 3, Len(Runs(top))) \o EndBitmap,
                       Ok(PictureOf(top, <<0, 0, 0>>)))} : top \in {<<0, 1, 0>>, <<0, 1, 9>>, <<0, 9, 1>>}}
  \cup {LET data == Runs(<<0, 1, 0>>) \o EndLine \o RawRow(<<1, 0, 1>>) \o EndBitmap
        IN  RleFile(SubSeq(data, 1, n), IF n = Len(data) THEN Ok(PictureOf(<<1, 0, 1>>, <<0, 1, 0>>)) ELSE Error)
        : n \in 0 .. 16}
  \cup {RleFile(data, Error) : data \in {Runs(<<1, 1, 1>>) \o EndLine \o Runs(<<1, 1, 1>>) \o EndLine \o EndBitmap,
                                         <<7, 1>> \o EndBitmap, <<0, 2, 0, 2>> \o EndBitmap}}
  \cup {[RleFile(<<1, 1>> \o EndBitmap, Error) EXCEPT !.palette = <<>>]}

\* Uncompressed rows of nine bytes, padded to twelve.
Joined(pixels) == FoldLeft(LAMBDA s, p : s \o p, <<>>, pixels)
RgbRow(row) == Joined([x \in 1 .. 3 |-> Shown(row[x])])
RgbRows(first, second) == RgbRow(first) \o <<0, 0, 0>> \o RgbRow(second)
RgbFiles ==
  UNION {LET upwards(reader, expected) ==
               [BmpHeader(reader, 2) EXCEPT !.data = RgbRows(bottom, top), !.expected = expected]
             downwards(reader, expected) ==
               [BmpHeader(reader, -2) EXCEPT !.data = RgbRows(top, bottom), !.expected = expected]
             picture == PictureOf(top, bottom)
         IN  {upwards("c++", Ok(picture)), downwards("c++", Ok(picture)),
              upwards("python", Ok(picture)), downwards("python", Error),
              [upwards("c++", Error) EXCEPT !.data = SubSeq(@, 1, 20)],
              [upwards("python", Error) EXCEPT !.data = SubSeq(@, 1, 8)],
              [upwards("c++", Error) EXCEPT !.magic = FALSE],
              [upwards("c++", Ok(picture)) EXCEPT !.biSize = 108],
              [upwards("python", Error) EXCEPT !.biSize = 108],
              [upwards("c++", Error) EXCEPT !.biHeight = 20001],
              [upwards("c++", Error) EXCEPT !.biBitCount = 8, !.biCompression = 1]}
         : top \in TopRows, bottom \in BottomRows}

BmpFiles == RleFiles \cup RgbFiles

-----------------------------------------------------------------------------
\* DNS.  Answers about ab.c whose names are written in full, as a pointer to
\* the question, as a label and a pointer into it, and as a pointer to a
\* pointer.  The question is at 12 and has six bytes, the first answer is at 22.
Domain == << <<97, 98>>, <<99>> >>
Mail == << <<109>> >> \o Domain
Names(here) == {<<2, 97, 98, 1, 99, 0>>, <<192, 12>>, <<2, 97, 98, 192, 15>>}
               \cup (IF here > 22 THEN {<<192, 22>>} ELSE {})
MailNames == {<<1, 109, 2, 97, 98, 1, 99, 0>>, <<1, 109, 192, 12>>}
Rest(type, data) == Dns!Word(type) \o Dns!Word(1) \o <<0, 1, 0, 2>> \o Dns!Word(Len(data)) \o data
Reply(type, data) == [type |-> type, class |-> "IN", ttl |-> <<1, 2>>, data |-> data]
Records(here) ==
  UNION {{[bytes |-> name \o Rest(1, <<10, 0, 0, 1>>), reply |-> Reply("A", <<10, 0, 0, 1>>)],
          [bytes |-> name \o Rest(99, <<192, 0>>), reply |-> Reply("??", <<192, 0>>)]}
         \cup {[bytes |-> name \o Rest(15, <<0, 10>> \o mail), reply |-> Reply("MX", <<10, Mail>>)]
                 : mail \in MailNames}
         : name \in Names(here)}

\* The server sends the question back, with the number of answers.
Packet(type, domain, answers, bytes) ==
  LET p == [Dns!MakePacket(type, domain) EXCEPT ![8] = answers] \o bytes
  IN  Dns!Word(Len(p)) \o p
DnsInput(domain, stream, expected) == [domain |-> domain, stream |-> stream, expected |-> expected]
Answered(records) ==
  DnsInput(Domain,
           Packet("MX", Domain, Len(records), FoldLeft(LAMBDA s, r : s \o r.bytes, <<>>, records)),
           Ok([i \in DOMAIN records |-> records[i].reply]))

OneRecord == {<<a>> : a \in Records(22)}
TwoRecords ==
  UNION {{<<a, b>> : b \in Records(22 + Len(a.bytes))} : a \in {r \in Records(22) : r.reply.type = "MX"}}
Whole == {Answered(records) : records \in {<<>>} \cup OneRecord \cup TwoRecords}
AskedOnly ==
  {DnsInput(domain, Packet("TXT", domain, 0, <<>>), Ok(<<>>))
     : domain \in {<< <<97>> >>, << <<99>>, <<97, 98, 99>>, <<100>> >>}}

\* The connection ends early, a pointer to itself, two to each other, a
\* pointer and a label past the end, addresses of five bytes and of none.
Broken ==
  LET some == CHOOSE input \in Whole : Len(input.expected.value) = 1
      answer(bytes) == DnsInput(Domain, Packet("A", Domain, 1, bytes), Error)
  IN  {[some EXCEPT !.stream = SubSeq(@, 1, n), !.expected = Error] : n \in 0 .. Len(some.stream) - 1}
      \cup {answer(bytes) : bytes \in {<<192, 22>>, <<1, 97, 192, 26, 192, 22>>, <<255, 255>>, <<9, 97>>,
                                       <<0>> \o Rest(1, <<1, 2, 3, 4, 5>>), <<0>> \o Rest(1, <<>>)}}
\* The last address announces a byte more than the packet holds.
CutData ==
  {DnsInput(Domain, Packet("A", Domain, 1, <<0>> \o SubSeq(Rest(1, <<10, 0, 0, 1, 9>>), 1, 14)),
            Ok(<<Reply("A", <<10, 0, 0, 1>>)>>))}
DnsInputs == Whole \cup AskedOnly \cup Broken \cup CutData

-----------------------------------------------------------------------------
\* INI.  Lines, and what each says.
Says(text, kind, name, value) == [text |-> text, kind |-> kind, name |-> name, value |-> value]
Lines ==
  {Says(<<"a", "=", "1">>, "key", <<"a">>, <<"1">>),
   Says(<<" ", "a", " ", "=", " ", "2", " ">>, "key", <<"a">>, <<"2">>),
   Says(<<"b", "=", "a", "=", "1">>, "key", <<"b">>, <<"a", "=", "1">>),
   Says(<<" ", ";", "a", "=", "3">>, "key", <<";", "a">>, <<"3">>),
   Says(<<";", "a", "=", "3">>, "nothing", <<>>, <<>>),
   Says(<<"[", "s">>, "nothing", <<>>, <<>>),
   Says(<<" ">>, "nothing", <<>>, <<>>),
   Says(<<"[", "s", "]">>, "header", <<"s">>, <<>>),
   Says(<<" ", "[", " ", "s", " ", "]", " ">>, "header", <<"s">>, <<>>),
   Says(<<"[", "a", "=", "b", "]">>, "header", <<"a", "=", "b">>, <<>>),
   Says(<<"[", "__global__", "]">>, "header", Ini!Global, <<>>)}

\* Section s is what follows the last header that names it, up to the next
\* header, and the last value of each key counts.
Meaning(said) ==
  LET headers == {k \in DOMAIN said : said[k].kind = "header"}
      opened(s) == Max({k \in headers : said[k].name = s} \cup {0})
      keys(s) == {k \in DOMAIN said :
                    /\ said[k].kind = "key" /\ k > opened(s)
                    /\ \A h \in headers : h <= opened(s) \/ h > k}
  IN  [s \in {Ini!Global} \cup {said[k].name : k \in headers} |->
         [n \in {said[k].name : k \in keys(s)} |->
            said[Max({k \in keys(s) : said[k].name = n})].value]]
IniFiles ==
  {[lines |-> [k \in 1 .. n |-> said[k].text], expected |-> Ok(Meaning(SubSeq(said, 1, n)))]
     : said \in [1 .. 3 -> Lines], n \in 0 .. 3}

-----------------------------------------------------------------------------
Formats == {"png", "bmp", "dns", "ini"}
FormatInit(program) ==
  \/ program = "png" /\ \E f \in PngFiles : Png!Init(f)
  \/ program = "bmp" /\ \E f \in BmpFiles : Bmp!Init(f)
  \/ program = "dns" /\ \E f \in DnsInputs : Dns!Init(f)
  \/ program = "ini" /\ \E f \in IniFiles : Ini!Init(f)
  \/ program \notin Formats /\ Begins(<<>>, <<>>)
FormatNext(program) ==
  \/ program = "png" /\ Png!Next
  \/ program = "bmp" /\ Bmp!Next
  \/ program = "dns" /\ Dns!Next
  \/ program = "ini" /\ Ini!Next

\* What a reader ends with, and that none is stuck before it ends.
AsExpected(program) == IF Running THEN ENABLED FormatNext(program) ELSE result = file.expected

\* decodepng.py, show_bmp24.py, show_bmp8rle_v2.py and show_bmp24_v2.cpp: a file
\* that follows its format becomes the picture that was encoded, in whichever
\* way it was, and any other is an error, but for what the readers let pass.
BitmapsAreDecoded(program) == program \in {"png", "bmp"} => AsExpected(program)

\* tcpdns.py and parseini.py: the records of a packet with compressed names,
\* in whatever pieces it arrives, and the sections and keys of a file.  A packet
\* that is cut short, or whose names have no end, gives no records.
RecordsAreRead(program) == program \in {"dns", "ini"} => AsExpected(program)
=============================================================================
