------------------------- MODULE ClientThread_proofs -------------------------
(***************************************************************************)
(* Proofs about the threads of the HTTP server, for any connections, any   *)
(* requests and any number of pieces.  The inductive invariant says, for   *)
(* each place of a thread, what it has received and what that says about   *)
(* the client: what it announced, what it has sent, and whether it is      *)
(* through.                                                                *)
(***************************************************************************)
EXTENDS ClientThread, TLAPS

Early == {"none", "head", "body", "rest", "handle"}
Types ==
  /\ asked \in [Conn -> Request]
  /\ sender \in [Conn -> {"away", "open", "finished", "gone"}]
  /\ sent \in [Conn -> Nat] /\ have \in [Conn -> Nat] /\ data \in [Conn -> Int]
  /\ thread \in [Conn -> Early \cup {"send", "close", "ended", "died"}]
  /\ status \in [Conn -> Int] /\ replied \in [Conn -> Int] /\ posted \in [Conn -> Nat]

Through(c) == sender[c] \in {"finished", "gone"}
Received(c) == data[c] >= 0 /\ have[c] = HeadPieces + data[c]
Counted(c) ==
  asked[c].head # "tokens" /\ asked[c].method = "POST" /\ asked[c].has = "number"
Uncounted(c) ==
  asked[c].head # "tokens" /\ asked[c].method = "POST" /\ asked[c].has = "none"

\* The end came before what was announced.
CutShort(c) ==
  Counted(c) /\ Through(c) /\ (sender[c] = "finished" => sent[c] < HeadPieces + asked[c].length)

\* What a thread is given to handle.
Ready(c) ==
  \/ asked[c].method = "GET" /\ data[c] = None
  \/ Counted(c) /\ Received(c) /\ data[c] = asked[c].length
  \/ Counted(c) /\ data[c] = None /\ CutShort(c)
  \/ Uncounted(c) /\ Received(c) /\ Through(c) /\ (sender[c] = "finished" => sent[c] = have[c])

\* When there is an answer.
Answerable(c) == BodySent(c) \/ (~HasHandler(asked[c]) /\ Through(c))
Posted(c) ==
  /\ sent[c] = Total(c) /\ BodySent(c)
  /\ asked[c].method = "POST" /\ asked[c].query = "chat"

Place(c) ==
  /\ have[c] <= sent[c] /\ sent[c] <= Total(c)
  /\ thread[c] = "none" => have[c] = 0
  /\ thread[c] \in {"none", "head"} => have[c] <= HeadPieces /\ data[c] = None
  /\ thread[c] = "body" => Counted(c) /\ Received(c) /\ data[c] <= asked[c].length
  /\ thread[c] = "rest" => Uncounted(c) /\ Received(c)
  /\ thread[c] = "handle" => Ready(c)
  /\ thread[c] = "send" => Answerable(c)
  /\ thread[c] = "send" /\ status[c] = 200 /\ asked[c].query = "chat" => posted[c] = 1
  /\ thread[c] = "died" => MayKill(c)
Outcome(c) ==
  /\ thread[c] \in Early => posted[c] = 0
  /\ thread[c] \in Early \cup {"send"} => replied[c] = NoStatus
  /\ posted[c] <= 1 /\ (posted[c] = 1 => Posted(c))
  /\ replied[c] # NoStatus => Answerable(c)
  /\ replied[c] = 200 /\ asked[c].query = "chat" => posted[c] = 1

ServerInv == Types /\ \A c \in Conn : Place(c) /\ Outcome(c)

-----------------------------------------------------------------------------
\* The fields of a request.
LEMMA RequestFields ==
  ASSUME NEW r \in Request
  PROVE  /\ r.head \in {"fine", "tokens", "binary", "never"} /\ r.method \in {"GET", "POST"}
         /\ r.query \in {"index", "chat", "messages", "else"}
         /\ r.has \in {"number", "nothing", "none"} /\ r.length \in Int /\ r.bytes \in Nat
         /\ r.body \in {"chat", "messages", "nontext", "unwritable", "deep", "binary", "other"}
         /\ r.part \in {"deep", "binary", "other"}
         /\ r.body # "other" => r.bytes > 0
BY DEF Request

LEMMA ServerInvInit ==
  ASSUME HeadPieces \in Nat, NEW requests \in [Conn -> Request], Init(requests)
  PROVE  ServerInv
<1>1. Types
  BY DEF Init, Types, Early, None, NoStatus
<1>2. ASSUME NEW c \in Conn PROVE Place(c) /\ Outcome(c)
  <2>1. asked[c].bytes \in Nat
    BY RequestFields DEF Init
  <2> QED BY <2>1 DEF Init, Place, Outcome, Early, None, NoStatus, Total
<1> QED BY <1>1, <1>2 DEF ServerInv

\* A step keeps the types.
LEMMA TypesStep ==
  ASSUME HeadPieces \in Nat, Types, [Next]_vars
  PROVE  Types'
<1> USE DEF Types, Early, clientVars, None, NoStatus, Goes, Dies
<1>1. ASSUME NEW c \in Conn, ClientStep(c) PROVE Types'
  BY <1>1 DEF ClientStep, Connect, SendPiece, FinishSending, BreakOff
<1>2. ASSUME NEW c \in Conn, Accept(c) PROVE Types'
  BY <1>2 DEF Accept
<1>3. ASSUME NEW c \in Conn, ReadHead(c) \/ HeadCutShort(c) \/ ParseHead(c) PROVE Types'
  BY <1>3 DEF ReadHead, HeadCutShort, ParseHead, AfterHead
<1>4. ASSUME NEW c \in Conn, ReadBody(c) PROVE Types'
  <2>1. asked[c].length \in Int
    BY RequestFields
  <2> QED BY <1>4, <2>1 DEF ReadBody
<1>5. ASSUME NEW c \in Conn, BodyCutShort(c) \/ BodyRead(c) \/ RestRead(c) PROVE Types'
  BY <1>5 DEF BodyCutShort, BodyRead, RestRead
<1>6. ASSUME NEW c \in Conn, ReadRest(c) PROVE Types'
  BY <1>6 DEF ReadRest, Arrived
<1>7. ASSUME NEW c \in Conn, TimesOut(c) \/ ConnectionReset(c) PROVE Types'
  BY <1>7 DEF TimesOut, ConnectionReset
<1>8. ASSUME NEW c \in Conn, Handles(c) PROVE Types'
  BY <1>8 DEF Handles, Handled, NotFound, SendFile, NoBody, JsonTooDeep,
              TextIsNoString, BadRequest, HandlePostMessages, HandlePostChat
<1>9. ASSUME NEW c \in Conn, Answers(c) PROVE Types'
  BY <1>9 DEF Answers, SendResponse, SendTimesOut, SendFails, Close
<1>10. CASE UNCHANGED vars
  BY <1>10 DEF vars
<1> QED BY <1>1, <1>2, <1>3, <1>4, <1>5, <1>6, <1>7, <1>8, <1>9, <1>10
        DEF Next, ThreadStep, Receives

-----------------------------------------------------------------------------
\* A connection that a step does not concern.
Same(d) ==
  /\ asked'[d] = asked[d] /\ sender'[d] = sender[d] /\ sent'[d] = sent[d]
  /\ thread'[d] = thread[d] /\ have'[d] = have[d] /\ data'[d] = data[d]
  /\ status'[d] = status[d] /\ replied'[d] = replied[d] /\ posted'[d] = posted[d]

LEMMA OthersAreSame ==
  ASSUME Types, NEW c \in Conn, NEW d \in Conn, c # d, ClientStep(c) \/ Accept(c) \/ ThreadStep(c)
  PROVE  Same(d)
<1> USE DEF Types, Same, clientVars, Goes, Dies
<1>1. CASE ClientStep(c)
  BY <1>1 DEF ClientStep, Connect, SendPiece, FinishSending, BreakOff
<1>2. CASE Accept(c)
  BY <1>2 DEF Accept
<1>3. CASE Receives(c)
  BY <1>3 DEF Receives, ReadHead, HeadCutShort, ParseHead, ReadBody, BodyCutShort, BodyRead,
              ReadRest, RestRead, TimesOut, ConnectionReset
<1>4. CASE Handles(c)
  BY <1>4 DEF Handles, Handled, NotFound, SendFile, NoBody, JsonTooDeep,
              TextIsNoString, BadRequest, HandlePostMessages, HandlePostChat
<1>5. CASE Answers(c)
  BY <1>5 DEF Answers, SendResponse, SendTimesOut, SendFails, Close
<1> QED BY <1>1, <1>2, <1>3, <1>4, <1>5 DEF ThreadStep

LEMMA SameKeeps ==
  ASSUME NEW d \in Conn, Same(d), Place(d), Outcome(d)
  PROVE  Place(d)' /\ Outcome(d)'
BY DEF Same, Place, Outcome, Total, Counted, Uncounted, Received, Ready, CutShort, Through,
       Answerable, Posted, BodySent, HasHandler, MayKill, BodyOf, Raises

-----------------------------------------------------------------------------
\* What the connection of a step becomes.
LEMMA ClientKeeps ==
  ASSUME HeadPieces \in Nat, Types, NEW c \in Conn, Place(c), Outcome(c),
         ClientStep(c) \/ Accept(c)
  PROVE  Place(c)' /\ Outcome(c)'
<1> USE DEF Types, Early, clientVars, None, NoStatus
<1>1. asked[c].bytes \in Nat /\ asked[c].length \in Int
  BY RequestFields
<1>2. CASE Connect(c)
  BY <1>1, <1>2 DEF Connect, Place, Outcome, Total, Counted, Uncounted, Received, Ready,
     CutShort, Through, Answerable, Posted, BodySent, HasHandler, MayKill, BodyOf, Raises
<1>3. CASE SendPiece(c)
  BY <1>1, <1>3 DEF SendPiece, Place, Outcome, Total, Counted, Uncounted, Received, Ready,
     CutShort, Through, Answerable, Posted, BodySent, HasHandler, MayKill, BodyOf, Raises
<1>4. CASE FinishSending(c)
  BY <1>1, <1>4 DEF FinishSending, Place, Outcome, Total, Counted, Uncounted, Received, Ready,
     CutShort, Through, Answerable, Posted, BodySent, HasHandler, MayKill, BodyOf, Raises
<1>5. CASE BreakOff(c)
  BY <1>1, <1>5 DEF BreakOff, Place, Outcome, Total, Counted, Uncounted, Received, Ready,
     CutShort, Through, Answerable, Posted, BodySent, HasHandler, MayKill, BodyOf, Raises
<1>6. CASE Accept(c)
  BY <1>1, <1>6 DEF Accept, Place, Outcome, Total, Counted, Uncounted, Received, Ready,
     CutShort, Through, Answerable, Posted, BodySent, HasHandler, MayKill, BodyOf, Raises
<1> QED BY <1>2, <1>3, <1>4, <1>5, <1>6 DEF ClientStep

\* What a thread receives.
LEMMA ReceivesKeeps ==
  ASSUME HeadPieces \in Nat, Types, NEW c \in Conn, Place(c), Outcome(c), Receives(c)
  PROVE  Place(c)' /\ Outcome(c)'
<1> USE DEF Types, Early, clientVars, None, NoStatus, Goes, Dies, Arrived, EndOfStream
<1>1. asked[c].bytes \in Nat /\ asked[c].length \in Int /\ asked[c].method \in {"GET", "POST"}
      /\ asked[c].has \in {"number", "nothing", "none"}
      /\ asked[c].part \in {"deep", "binary", "other"}
      /\ (asked[c].body # "other" => asked[c].bytes > 0)
  BY RequestFields
<1>2. CASE ReadHead(c)
  BY <1>1, <1>2 DEF ReadHead,
     Place, Outcome, Total, Counted, Uncounted, Received,
     Ready, CutShort, Through, Answerable, Posted, BodySent, HasHandler, MayKill, BodyOf, Raises
<1>3. CASE HeadCutShort(c)
  BY <1>1, <1>3 DEF HeadCutShort,
     Place, Outcome, Total, Counted, Uncounted, Received,
     Ready, CutShort, Through, Answerable, Posted, BodySent, HasHandler, MayKill, BodyOf, Raises
<1>4. CASE ParseHead(c)
  BY <1>1, <1>4 DEF ParseHead, AfterHead,
     Place, Outcome, Total, Counted, Uncounted, Received,
     Ready, CutShort, Through, Answerable, Posted, BodySent, HasHandler, MayKill, BodyOf, Raises
<1>5. CASE ReadBody(c)
  BY <1>1, <1>5 DEF ReadBody,
     Place, Outcome, Total, Counted, Uncounted, Received,
     Ready, CutShort, Through, Answerable, Posted, BodySent, HasHandler, MayKill, BodyOf, Raises
<1>6. CASE BodyCutShort(c)
  BY <1>1, <1>6 DEF BodyCutShort,
     Place, Outcome, Total, Counted, Uncounted, Received,
     Ready, CutShort, Through, Answerable, Posted, BodySent, HasHandler, MayKill, BodyOf, Raises
<1>7. CASE BodyRead(c)
  BY <1>1, <1>7 DEF BodyRead, Content,
     Place, Outcome, Total, Counted, Uncounted, Received,
     Ready, CutShort, Through, Answerable, Posted, BodySent, HasHandler, MayKill, BodyOf, Raises
<1>8. CASE ReadRest(c)
  BY <1>1, <1>8 DEF ReadRest,
     Place, Outcome, Total, Counted, Uncounted, Received,
     Ready, CutShort, Through, Answerable, Posted, BodySent, HasHandler, MayKill, BodyOf, Raises
<1>9. CASE RestRead(c)
  BY <1>1, <1>9 DEF RestRead, Content,
     Place, Outcome, Total, Counted, Uncounted, Received,
     Ready, CutShort, Through, Answerable, Posted, BodySent, HasHandler, MayKill, BodyOf, Raises
<1>10. CASE TimesOut(c)
  BY <1>1, <1>10 DEF TimesOut, Wants,
     Place, Outcome, Total, Counted, Uncounted, Received,
     Ready, CutShort, Through, Answerable, Posted, BodySent, HasHandler, MayKill, BodyOf, Raises
<1>11. CASE ConnectionReset(c)
  BY <1>1, <1>11 DEF ConnectionReset, Wants,
     Place, Outcome, Total, Counted, Uncounted, Received,
     Ready, CutShort, Through, Answerable, Posted, BodySent, HasHandler, MayKill, BodyOf, Raises
<1> QED BY <1>2, <1>3, <1>4, <1>5, <1>6, <1>7, <1>8, <1>9, <1>10, <1>11 DEF Receives

\* What it does with it.
LEMMA HandlesKeeps ==
  ASSUME HeadPieces \in Nat, Types, NEW c \in Conn, Place(c), Outcome(c), Handles(c)
  PROVE  Place(c)' /\ Outcome(c)'
<1> USE DEF Types, Early, clientVars, None, NoStatus, Goes, Dies, Arrived, EndOfStream
<1>1. asked[c].bytes \in Nat /\ asked[c].length \in Int /\ asked[c].method \in {"GET", "POST"}
      /\ asked[c].has \in {"number", "nothing", "none"}
      /\ asked[c].part \in {"deep", "binary", "other"}
      /\ (asked[c].body # "other" => asked[c].bytes > 0)
  BY RequestFields
<1>2. CASE NotFound(c)
  <2>1. ~HasHandler(asked[c]) /\ Ready(c) /\ thread[c] = "handle"
    BY <1>2 DEF NotFound, Place
  <2>2. Answerable(c)
    BY <1>1, <2>1 DEF Place, Ready, Counted, Uncounted, Received, CutShort, Through, Answerable,
       BodySent
  <2>3. /\ UNCHANGED <<asked, sender, sent, have, data, replied, posted>>
        /\ thread'[c] = "send" /\ status'[c] = 404
    BY <1>2 DEF NotFound, Handled
  <2>4. Answerable(c)'
    BY <2>2, <2>3 DEF Answerable, BodySent, HasHandler, Through
  <2>5. posted[c] = 0 /\ replied[c] = NoStatus
    BY <2>1 DEF Outcome
  <2> QED BY <2>1, <2>3, <2>4, <2>5 DEF Place, Outcome, Total
<1>3. CASE SendFile(c)
  <2>1. asked[c].method = "GET" /\ asked[c].query = "index" /\ thread[c] = "handle"
    BY <1>3 DEF SendFile, Handling, HasHandler
  <2>2. Answerable(c)
    BY <2>1 DEF Answerable, BodySent
  <2>3. /\ UNCHANGED <<asked, sender, sent, have, data, replied, posted>>
        /\ thread'[c] = "send" /\ status'[c] = 200
    BY <1>3 DEF SendFile, Handled
  <2>4. Answerable(c)'
    BY <2>2, <2>3 DEF Answerable, BodySent, HasHandler, Through
  <2>5. posted[c] = 0 /\ replied[c] = NoStatus
    BY <2>1 DEF Outcome
  <2> QED BY <2>1, <2>3, <2>4, <2>5 DEF Place, Outcome, Total
<1>4. CASE NoBody(c)
  BY <1>1, <1>4 DEF NoBody, Handling, Handled, Content,
     Place, Outcome, Total, Counted, Uncounted, Received,
     Ready, CutShort, Through, Answerable, Posted, BodySent, HasHandler, MayKill, BodyOf, Raises
<1>5. CASE BadRequest(c)
  BY <1>1, <1>5 DEF BadRequest, Handling, Handled, Content,
     Place, Outcome, Total, Counted, Uncounted, Received,
     Ready, CutShort, Through, Answerable, Posted, BodySent, HasHandler, MayKill, BodyOf, Raises
<1>6. CASE HandlePostMessages(c)
  BY <1>1, <1>6 DEF HandlePostMessages, Handling, Handled, Content,
     Place, Outcome, Total, Counted, Uncounted, Received,
     Ready, CutShort, Through, Answerable, Posted, BodySent, HasHandler, MayKill, BodyOf, Raises
<1>7. CASE HandlePostChat(c)
  BY <1>1, <1>7 DEF HandlePostChat, Handling, Handled, Content,
     Place, Outcome, Total, Counted, Uncounted, Received,
     Ready, CutShort, Through, Answerable, Posted, BodySent, HasHandler, MayKill, BodyOf, Raises
<1>8. CASE JsonTooDeep(c)
  BY <1>1, <1>8 DEF JsonTooDeep, Handling, Handled, Content,
     Place, Outcome, Total, Counted, Uncounted, Received,
     Ready, CutShort, Through, Answerable, Posted, BodySent, HasHandler, MayKill, BodyOf, Raises
<1>9. CASE TextIsNoString(c)
  BY <1>1, <1>9 DEF TextIsNoString, Handling, Handled, Content,
     Place, Outcome, Total, Counted, Uncounted, Received,
     Ready, CutShort, Through, Answerable, Posted, BodySent, HasHandler, MayKill, BodyOf, Raises
<1> QED BY <1>2, <1>3, <1>4, <1>5, <1>6, <1>7, <1>8, <1>9 DEF Handles

\* What it answers.
LEMMA AnswersKeeps ==
  ASSUME HeadPieces \in Nat, Types, NEW c \in Conn, Place(c), Outcome(c), Answers(c)
  PROVE  Place(c)' /\ Outcome(c)'
<1> USE DEF Types, Early, clientVars, None, NoStatus, Goes, Dies, Arrived, EndOfStream
<1>1. asked[c].bytes \in Nat /\ asked[c].length \in Int /\ asked[c].method \in {"GET", "POST"}
      /\ asked[c].has \in {"number", "nothing", "none"}
      /\ asked[c].part \in {"deep", "binary", "other"}
      /\ (asked[c].body # "other" => asked[c].bytes > 0)
  BY RequestFields
<1>2. CASE SendResponse(c)
  BY <1>1, <1>2 DEF SendResponse,
     Place, Outcome, Total, Counted, Uncounted, Received,
     Ready, CutShort, Through, Answerable, Posted, BodySent, HasHandler, MayKill, BodyOf, Raises
<1>3. CASE SendTimesOut(c)
  BY <1>1, <1>3 DEF SendTimesOut,
     Place, Outcome, Total, Counted, Uncounted, Received,
     Ready, CutShort, Through, Answerable, Posted, BodySent, HasHandler, MayKill, BodyOf, Raises
<1>4. CASE SendFails(c)
  BY <1>1, <1>4 DEF SendFails,
     Place, Outcome, Total, Counted, Uncounted, Received,
     Ready, CutShort, Through, Answerable, Posted, BodySent, HasHandler, MayKill, BodyOf, Raises
<1>5. CASE Close(c)
  BY <1>1, <1>5 DEF Close,
     Place, Outcome, Total, Counted, Uncounted, Received,
     Ready, CutShort, Through, Answerable, Posted, BodySent, HasHandler, MayKill, BodyOf, Raises
<1> QED BY <1>2, <1>3, <1>4, <1>5 DEF Answers

-----------------------------------------------------------------------------
LEMMA ServerInvStep ==
  ASSUME HeadPieces \in Nat, ServerInv, [Next]_vars
  PROVE  ServerInv'
<1> USE DEF ServerInv
<1>1. Types'
  BY TypesStep
<1>2. ASSUME NEW c \in Conn, ClientStep(c) \/ Accept(c) \/ ThreadStep(c), NEW d \in Conn
      PROVE  Place(d)' /\ Outcome(d)'
  <2>1. CASE c = d
    BY <1>2, <2>1, ClientKeeps, ReceivesKeeps, HandlesKeeps, AnswersKeeps DEF ThreadStep
  <2>2. CASE c # d
    BY <1>2, <2>2, OthersAreSame, SameKeeps
  <2> QED BY <2>1, <2>2
<1>3. ASSUME UNCHANGED vars, NEW d \in Conn PROVE Place(d)' /\ Outcome(d)'
  BY <1>3, SameKeeps DEF vars, clientVars, Same
<1> QED BY <1>1, <1>2, <1>3 DEF Next

LEMMA ServerInvHolds == ASSUME HeadPieces \in Nat PROVE Spec => []ServerInv
<1>1. (\E requests \in [Conn -> Request] : Init(requests)) => ServerInv
  BY ServerInvInit
<1>2. ServerInv /\ [Next]_vars => ServerInv'
  BY ServerInvStep
<1> QED BY <1>1, <1>2, PTL DEF Spec

\* However a request to httpchat.py comes, in pieces, late, cut short or broken
\* off: a message is added at most once for it, and only when all of it was
\* sent; success is told exactly of that; and a thread dies with an exception
\* only of what MayKill names.
THEOREM ServerRequestsAreWhole ==
  ASSUME HeadPieces \in Nat PROVE Spec => []RequestsAreWhole
<1>1. ServerInv => RequestsAreWhole
  BY DEF ServerInv, Place, Outcome, Posted, Answerable, Through, RequestsAreWhole
<1> QED BY <1>1, ServerInvHolds, PTL
=============================================================================
