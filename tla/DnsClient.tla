------------------------------ MODULE DnsClient ------------------------------
(***************************************************************************)
(* tcpdns.py: a question about a domain is put into a packet, and the      *)
(* answer is received over TCP and taken apart.  A packet is a sequence of *)
(* bytes, a domain a sequence of labels.                                   *)
(***************************************************************************)
EXTENDS Decoding
LOCAL INSTANCE SequencesExt

Types == [A |-> 1, NS |-> 2, CNAME |-> 5, SOA |-> 6, WKS |-> 11, PTR |-> 12,
          HINFO |-> 13, MINFO |-> 14, MX |-> 15, TXT |-> 16]
TypeName(type) ==
  LET names == {t \in DOMAIN Types : Types[t] = type}
  IN  IF names = {} THEN "??" ELSE CHOOSE t \in names : TRUE
ClassName(class) == IF class \in 1 .. 4 THEN <<"IN", "CS", "CH", "HS">>[class] ELSE "??"

Word(v) == <<v \div 256, v % 256>>

\* The question: a header with the bit for recursion and one question, the
\* labels of the domain with their lengths, and type and class.
MakePacket(type, domain) ==
  Word(1234) \o Word(256) \o Word(1) \o Word(0) \o Word(0) \o Word(0)
  \o FoldLeft(LAMBDA s, label : s \o <<Len(label)>> \o label, <<>>, domain) \o <<0>>
  \o Word(Types[type]) \o Word(1)

-----------------------------------------------------------------------------
\* acc: want is what recv_all is to receive; packet the part of the stream
\* that has been received for it; idx, left and reply are the locals of
\* dns_response_parse_packet.  at: what has been received of the stream.
Init(input) ==
  Begins(input, [reading |-> "length", want |-> 2, packet |-> <<>>,
                 idx |-> 0, questions |-> 0, answers |-> 0, reply |-> <<>>])

Receiving == acc.reading \in {"length", "packet"} /\ Len(acc.packet) < acc.want
Arrived == Len(file.stream) - at

\* recv gives what has arrived, at least a byte and at most what is asked for.
Receive ==
  /\ Receiving /\ Arrived > 0
  /\ \E n \in 1 .. acc.want - Len(acc.packet) :
       /\ n <= Arrived
       /\ GoesOn(at + n, [acc EXCEPT !.packet = @ \o SubSeq(file.stream, at + 1, at + n)])

\* The server ends the connection: recv_all and dns_tcp_recv_packet return
\* None, which cannot be unpacked.
ConnectionEnds == Receiving /\ Arrived = 0 /\ Ends(Error)

P(i) == acc.packet[i + 1]
WordAt(i) == 256 * P(i) + P(i + 1)
Has(i, n) == i + n <= Len(acc.packet)

\* The first two bytes are the length of the packet.
LengthReceived ==
  /\ acc.reading = "length" /\ ~Receiving
  /\ GoesOn(at, [acc EXCEPT !.reading = "packet", !.want = WordAt(0), !.packet = <<>>])

\* dns_response_parse_header.
PacketReceived ==
  /\ acc.reading = "packet" /\ ~Receiving
  /\ IF Has(0, 12)
     THEN GoesOn(at, [acc EXCEPT !.reading = "parse", !.idx = 12,
                                 !.questions = WordAt(4), !.answers = WordAt(6)])
     ELSE Ends(Error)

\* Mutant: the index goes on where the pointer leads.
IndexAfterPointerFollowed(idx, offset) == offset

\* A pointer is the last of a domain: the index goes on after it.
IndexAfterPointer(idx, offset) == idx + 2

\* dns_decode_domain at a position: the labels and the index after them, or
\* no labels at all (failed) when the packet ends or pointers go round for
\* ever, which ends in the limit of the recursion.  The empty name at a
\* pointer is joined as an empty label.
Failed == [failed |-> TRUE, labels |-> <<>>, idx |-> 0]
Slice(i, n) == SubSeq(acc.packet, i + 1, IF Has(i, n) THEN i + n ELSE Len(acc.packet))
DecodeDomain(position) ==
  LET d[depth \in 0 .. Len(acc.packet), idx \in Nat] ==
        IF ~Has(idx, 1) THEN Failed
        ELSE IF P(idx) = 0 THEN [failed |-> FALSE, labels |-> <<>>, idx |-> idx + 1]
        ELSE IF P(idx) < 64
        THEN LET rest == d[depth, idx + 1 + P(idx)]
             IN  [rest EXCEPT !.labels = <<Slice(idx + 1, P(idx))>> \o @]
        ELSE IF depth = 0 \/ ~Has(idx, 2) THEN Failed
        ELSE LET offset == 256 * (P(idx) % 64) + P(idx + 1)
             IN  [d[depth - 1, offset] EXCEPT !.labels = IF @ = <<>> THEN << <<>> >> ELSE @,
                                              !.idx = IndexAfterPointer(idx, offset)]
  IN  d[Len(acc.packet), position]

SkipQuestion ==
  /\ acc.reading = "parse" /\ acc.questions > 0
  /\ LET name == DecodeDomain(acc.idx)
     IN  IF name.failed THEN Ends(Error)
         ELSE GoesOn(at, [acc EXCEPT !.questions = @ - 1, !.idx = name.idx + 4])

\* dns_data_to_str: an address, a preference with a domain that may point into
\* the packet, or the bytes.  The data may be cut short by the end of the packet.
DataFits(type, start, n) ==
  /\ type = 1 => Len(Slice(start, n)) = 4
  /\ type = 15 => n >= 2 /\ Has(start, 2) /\ ~DecodeDomain(start + 2).failed
DataOf(type, start, n) ==
  IF type = 15 THEN <<WordAt(start), DecodeDomain(start + 2).labels>> ELSE Slice(start, n)

\* A name, then type, class, TTL and length in 10 bytes, then the data.
ParseAnswer ==
  /\ acc.reading = "parse" /\ acc.questions = 0 /\ acc.answers > 0
  /\ LET name == DecodeDomain(acc.idx)
         i == name.idx
     IN  IF name.failed \/ ~Has(i, 10) \/ ~DataFits(WordAt(i), i + 10, WordAt(i + 8))
         THEN Ends(Error)
         ELSE GoesOn(at, [acc EXCEPT !.answers = @ - 1, !.idx = i + 10 + WordAt(i + 8),
                            !.reply = Append(@, [type |-> TypeName(WordAt(i)),
                                                 class |-> ClassName(WordAt(i + 2)),
                                                 ttl |-> <<WordAt(i + 4), WordAt(i + 6)>>,
                                                 data |-> DataOf(WordAt(i), i + 10, WordAt(i + 8))])])

Finish ==
  acc.reading = "parse" /\ acc.questions = 0 /\ acc.answers = 0 /\ Ends(Ok(acc.reply))

Next ==
  \/ Receive \/ ConnectionEnds \/ LengthReceived \/ PacketReceived
  \/ SkipQuestion \/ ParseAnswer \/ Finish
=============================================================================
