---------------------------- MODULE ClientThread ----------------------------
(***************************************************************************)
(* The server of httpchat.py under its chat: main accepts connections, and *)
(* a ClientThread for each receives one request, has it handled, answers   *)
(* it and closes the connection.  Clients send as slowly as they like,     *)
(* stop half way, or break the connection off.  The head of a request is   *)
(* HeadPieces pieces long, its end is in the last one; the body follows.   *)
(***************************************************************************)
EXTENDS Integers

CONSTANTS
  Conn,
  HeadPieces,
  RecvLimit,   \* the longest piece that recv can ask for and make room for
  NoThread     \* ct before there is a thread

\* What a client means to send.  head: its first line has other than three
\* tokens, or it is no UTF-8, or the client "never" comes.  has, length: the
\* Content-Length, when it is there and a number.  bytes: the pieces of the
\* body.  body: what they are together: a "chat" or "messages" request, one whose
\* text is no string ("nontext"), or is one that stdout cannot encode
\* ("unwritable"), JSON nested too "deep" for json.loads, no UTF-8 ("binary"),
\* or "other".  part: what the first of them are, when there are more: no JSON
\* object ends before its last piece, but characters may be cut.
Request ==
  {r \in [head : {"fine", "tokens", "binary", "never"}, method : {"GET", "POST"},
          query : {"index", "chat", "messages", "else"},
          has : {"number", "nothing", "none"}, length : Int, bytes : Nat,
          body : {"chat", "messages", "nontext", "unwritable", "deep", "binary", "other"},
          part : {"deep", "binary", "other"}] :
     /\ r.body # "other" => r.bytes > 0
     /\ r.part = "deep" => r.body \in {"deep", "binary"}}

VARIABLES
  asked,    \* the request of each client
  sender,   \* each client: "away", "open", "finished" (it sends no more), "gone"
  sent,     \* the pieces it has sent
  thread,   \* where its ClientThread is: "none" is before accept
  have,     \* the pieces the thread has received
  data,     \* the pieces of the body among them, or None
  status,   \* the status of the response
  replied,  \* the status the client has been sent
  posted,   \* the messages added for it
  closed,   \* the server's side of the connection is closed
  ct        \* the thread that main has started last

clientVars == <<asked, sender, sent>>
vars == <<clientVars, thread, have, data, status, replied, posted, closed, ct>>

None == -1
NoStatus == 0
Total(c) == HeadPieces + asked[c].bytes

Init(requests) ==
  /\ asked = requests
  /\ sender = [c \in Conn |-> "away"] /\ sent = [c \in Conn |-> 0]
  /\ thread = [c \in Conn |-> "none"] /\ have = [c \in Conn |-> 0]
  /\ data = [c \in Conn |-> None]
  /\ status = [c \in Conn |-> NoStatus] /\ replied = [c \in Conn |-> NoStatus]
  /\ posted = [c \in Conn |-> 0] /\ closed = [c \in Conn |-> FALSE]
  /\ ct = NoThread

-----------------------------------------------------------------------------
\* The clients.
Connect(c) ==
  /\ sender[c] = "away" /\ asked[c].head # "never"
  /\ sender' = [sender EXCEPT ![c] = "open"]
  /\ UNCHANGED <<asked, sent, thread, have, data, status, replied, posted, closed, ct>>

SendPiece(c) ==
  /\ sender[c] = "open" /\ sent[c] < Total(c) /\ ~closed[c]
  /\ sent' = [sent EXCEPT ![c] = @ + 1]
  /\ UNCHANGED <<asked, sender, thread, have, data, status, replied, posted, closed, ct>>

FinishSending(c) ==
  /\ sender[c] = "open" /\ ~closed[c]
  /\ sender' = [sender EXCEPT ![c] = "finished"]
  /\ UNCHANGED <<asked, sent, thread, have, data, status, replied, posted, closed, ct>>

BreakOff(c) ==
  /\ sender[c] \in {"open", "finished"} /\ ~closed[c]
  /\ sender' = [sender EXCEPT ![c] = "gone"]
  /\ UNCHANGED <<asked, sent, thread, have, data, status, replied, posted, closed, ct>>

-----------------------------------------------------------------------------
\* main: the thread object before is dropped, and the socket of a thread that
\* died with it.
Accept(c) ==
  /\ sender[c] # "away" /\ thread[c] = "none"
  /\ thread' = [thread EXCEPT ![c] = "head"]
  /\ closed' = [d \in Conn |-> closed[d] \/ (d = ct /\ thread[d] = "died")]
  /\ ct' = c
  /\ UNCHANGED <<clientVars, have, data, status, replied, posted>>

Goes(c, place) ==
  /\ thread' = [thread EXCEPT ![c] = place]
  /\ UNCHANGED <<closed, ct>>

\* An exception that nothing catches: neither shutdown nor close is called,
\* but main alone refers to a thread that has ended.
Dies(c) ==
  /\ thread' = [thread EXCEPT ![c] = "died"]
  /\ closed' = [closed EXCEPT ![c] = ct # c]
  /\ UNCHANGED ct

-----------------------------------------------------------------------------
\* recv: what has arrived is received, also from a client that is gone.
Arrived(c) == sent[c] - have[c]
EndOfStream(c) == sender[c] = "finished" /\ Arrived(c) = 0
Wants(c) ==
  \/ thread[c] = "head" /\ have[c] < HeadPieces
  \/ thread[c] = "body" /\ data[c] < asked[c].length
  \/ thread[c] = "rest"

\* Mutants: a thread waits for ever; the exception of a timeout is not caught.
TimesOutNever(c) == FALSE /\ UNCHANGED vars
TimesOutUncaught(c) ==
  /\ Wants(c) /\ sender[c] = "open" /\ Arrived(c) = 0
  /\ Dies(c)
  /\ UNCHANGED <<clientVars, have, data, status, replied, posted>>

\* Nothing came for five seconds.
TimesOut(c) ==
  /\ Wants(c) /\ sender[c] = "open" /\ Arrived(c) = 0
  /\ Goes(c, "close")
  /\ UNCHANGED <<clientVars, have, data, status, replied, posted>>

ConnectionReset(c) ==
  /\ Wants(c) /\ sender[c] = "gone"
  /\ Dies(c)
  /\ UNCHANGED <<clientVars, have, data, status, replied, posted>>

\* recvuntil.
ReadHead(c) ==
  /\ thread[c] = "head" /\ have[c] < HeadPieces /\ Arrived(c) > 0
  /\ have' = [have EXCEPT ![c] = @ + 1]
  /\ UNCHANGED <<clientVars, thread, data, status, replied, posted, closed, ct>>

HeadCutShort(c) ==
  /\ thread[c] = "head" /\ have[c] < HeadPieces /\ EndOfStream(c)
  /\ Goes(c, "close")
  /\ UNCHANGED <<clientVars, have, data, status, replied, posted>>

\* __recv_http_request after the head.  To ask for more than recv can take is an
\* OverflowError or a MemoryError, for less than nothing a ValueError.
AfterHead(r) ==
  IF r.head = "binary" THEN "died"
  ELSE IF r.head = "tokens" THEN "close"
  ELSE IF r.method = "GET" THEN "handle"
  ELSE IF r.has = "none" THEN "rest"
  ELSE IF r.has = "nothing" \/ r.length < 0 THEN "close"
  ELSE IF r.length > RecvLimit THEN "died"
  ELSE "body"

ParseHead(c) ==
  /\ thread[c] = "head" /\ have[c] = HeadPieces
  /\ IF AfterHead(asked[c]) = "died" THEN Dies(c) ELSE Goes(c, AfterHead(asked[c]))
  /\ data' = [data EXCEPT ![c] = IF AfterHead(asked[c]) \in {"body", "rest"} THEN 0 ELSE None]
  /\ UNCHANGED <<clientVars, have, status, replied, posted>>

\* recv_all.  Mutant: one call of recv is taken to be enough.
ReadBodyOnce(c) ==
  /\ thread[c] = "body" /\ data[c] < asked[c].length
  /\ \E n \in 1 .. asked[c].length - data[c] :
       /\ n <= Arrived(c)
       /\ have' = [have EXCEPT ![c] = @ + n]
       /\ data' = [data EXCEPT ![c] = @ + n]
  /\ Goes(c, "handle")
  /\ UNCHANGED <<clientVars, status, replied, posted>>

ReadBody(c) ==
  /\ thread[c] = "body" /\ data[c] < asked[c].length
  /\ \E n \in 1 .. asked[c].length - data[c] :
       /\ n <= Arrived(c)
       /\ have' = [have EXCEPT ![c] = @ + n]
       /\ data' = [data EXCEPT ![c] = @ + n]
  /\ UNCHANGED <<clientVars, thread, status, replied, posted, closed, ct>>

\* Mutant: what came is used.
BodyCutShortUsed(c) ==
  /\ thread[c] = "body" /\ data[c] < asked[c].length /\ EndOfStream(c)
  /\ Goes(c, "handle")
  /\ UNCHANGED <<clientVars, have, data, status, replied, posted>>

BodyCutShort(c) ==
  /\ thread[c] = "body" /\ data[c] < asked[c].length /\ EndOfStream(c)
  /\ data' = [data EXCEPT ![c] = None]
  /\ Goes(c, "handle")
  /\ UNCHANGED <<clientVars, have, status, replied, posted>>

\* What the first n pieces of a body are together; nothing is no JSON.
BodyOf(r, n) == IF n = r.bytes THEN r.body ELSE IF n = 0 THEN "other" ELSE r.part
Content(c) == BodyOf(asked[c], data[c])

\* A body that is no UTF-8 is a ValueError: the request is None.
BodyRead(c) ==
  /\ thread[c] = "body" /\ data[c] = asked[c].length
  /\ Goes(c, IF Content(c) = "binary" THEN "close" ELSE "handle")
  /\ UNCHANGED <<clientVars, have, data, status, replied, posted>>

\* recv_remaining.
ReadRest(c) ==
  /\ thread[c] = "rest"
  /\ \E n \in 1 .. Arrived(c) :
       /\ have' = [have EXCEPT ![c] = @ + n]
       /\ data' = [data EXCEPT ![c] = @ + n]
  /\ UNCHANGED <<clientVars, thread, status, replied, posted, closed, ct>>

\* It is called where a KeyError is handled: its ValueError is not caught.
RestRead(c) ==
  /\ thread[c] = "rest" /\ EndOfStream(c)
  /\ IF Content(c) = "binary" THEN Dies(c) ELSE Goes(c, "handle")
  /\ UNCHANGED <<clientVars, have, data, status, replied, posted>>

-----------------------------------------------------------------------------
Handled(c, code) ==
  /\ Goes(c, "send")
  /\ status' = [status EXCEPT ![c] = code]
  /\ UNCHANGED <<clientVars, have, data, replied>>

\* The handlers of files are in HttpFileCache; they are taken to find theirs.
HasHandler(r) == r.query \in IF r.method = "GET" THEN {"index"} ELSE {"chat", "messages"}
Handling(c, method) == thread[c] = "handle" /\ HasHandler(asked[c]) /\ asked[c].method = method

NotFound(c) ==
  thread[c] = "handle" /\ ~HasHandler(asked[c]) /\ Handled(c, 404) /\ UNCHANGED posted
SendFile(c) == Handling(c, "GET") /\ Handled(c, 200) /\ UNCHANGED posted

\* json.loads(None) is a TypeError.
NoBody(c) ==
  /\ Handling(c, "POST") /\ data[c] = None
  /\ Dies(c)
  /\ UNCHANGED <<clientVars, have, data, status, replied, posted>>

\* json.loads of what is nested too deep is a RecursionError.
JsonTooDeep(c) ==
  /\ Handling(c, "POST") /\ data[c] # None /\ Content(c) = "deep"
  /\ Dies(c)
  /\ UNCHANGED <<clientVars, have, data, status, replied, posted>>

\* The type of a text that is no str is compared with unicode, which Python 3
\* does not know: a NameError.
TextIsNoString(c) ==
  /\ Handling(c, "POST") /\ asked[c].query = "chat" /\ data[c] # None /\ Content(c) = "nontext"
  /\ Dies(c)
  /\ UNCHANGED <<clientVars, have, data, status, replied, posted>>

\* Any other bad body is answered before anything is done.
BadRequest(c) ==
  /\ Handling(c, "POST") /\ data[c] # None /\ Content(c) # "deep"
  /\ Content(c) \notin IF asked[c].query = "chat" THEN {"chat", "unwritable", "nontext"}
                       ELSE {"messages"}
  /\ Handled(c, 400) /\ UNCHANGED posted

HandlePostMessages(c) ==
  /\ Handling(c, "POST") /\ asked[c].query = "messages" /\ Content(c) = "messages"
  /\ Handled(c, 200) /\ UNCHANGED posted

\* The message is added first and written to stdout then.
HandlePostChat(c) ==
  /\ Handling(c, "POST") /\ asked[c].query = "chat" /\ Content(c) \in {"chat", "unwritable"}
  /\ posted' = [posted EXCEPT ![c] = @ + 1]
  /\ IF Content(c) = "chat" THEN Handled(c, 200)
     ELSE Dies(c) /\ UNCHANGED <<clientVars, have, data, status, replied>>

-----------------------------------------------------------------------------
SendResponse(c) ==
  /\ thread[c] = "send" /\ sender[c] # "gone"
  /\ replied' = [replied EXCEPT ![c] = status[c]]
  /\ Goes(c, "close")
  /\ UNCHANGED <<clientVars, have, data, status, posted>>

\* A long response does not fit into the buffers when the client reads nothing.
SendTimesOut(c) ==
  /\ thread[c] = "send" /\ status[c] = 200 /\ asked[c].query \in {"index", "messages"}
  /\ Goes(c, "close")
  /\ UNCHANGED <<clientVars, have, data, status, replied, posted>>

SendFails(c) ==
  /\ thread[c] = "send" /\ sender[c] = "gone"
  /\ Dies(c)
  /\ UNCHANGED <<clientVars, have, data, status, replied, posted>>

\* The end of run: shutdown of a connection that was broken off fails.
Close(c) ==
  /\ thread[c] = "close"
  /\ IF sender[c] = "gone" THEN Dies(c)
     ELSE /\ thread' = [thread EXCEPT ![c] = "ended"]
          /\ closed' = [closed EXCEPT ![c] = TRUE]
          /\ UNCHANGED ct
  /\ UNCHANGED <<clientVars, have, data, status, replied, posted>>

ClientStep(c) == Connect(c) \/ SendPiece(c) \/ FinishSending(c) \/ BreakOff(c)
Receives(c) ==
  \/ ReadHead(c) \/ HeadCutShort(c) \/ ParseHead(c)
  \/ ReadBody(c) \/ BodyCutShort(c) \/ BodyRead(c) \/ ReadRest(c) \/ RestRead(c)
  \/ TimesOut(c) \/ ConnectionReset(c)
Handles(c) ==
  \/ NotFound(c) \/ SendFile(c) \/ NoBody(c) \/ JsonTooDeep(c) \/ TextIsNoString(c)
  \/ BadRequest(c) \/ HandlePostMessages(c) \/ HandlePostChat(c)
Answers(c) == SendResponse(c) \/ SendTimesOut(c) \/ SendFails(c) \/ Close(c)
ThreadStep(c) == Receives(c) \/ Handles(c) \/ Answers(c)
Next == \E c \in Conn : ClientStep(c) \/ Accept(c) \/ ThreadStep(c)

Spec == (\E requests \in [Conn -> Request] : Init(requests)) /\ [][Next]_vars

-----------------------------------------------------------------------------
\* The body that a request announces has been sent whole.
BodySent(c) ==
  LET r == asked[c]
  IN  \/ r.method = "GET"
      \/ r.has = "none" /\ sender[c] \in {"finished", "gone"}
      \/ r.has = "number" /\ sent[c] >= HeadPieces + r.length

\* A handler does not survive this body.
Raises(r, content) ==
  /\ r.method = "POST" /\ HasHandler(r)
  /\ content = "deep" \/ (r.query = "chat" /\ content \in {"nontext", "unwritable"})

\* What ends a thread with an exception: a connection that is broken off, a head
\* that is no UTF-8, a length that is too much for recv, a body that ends before
\* the announced length, one that is no UTF-8 when none was announced, and one
\* that its handler does not survive.
MayKill(c) ==
  LET r == asked[c]
      content == BodyOf(r, IF r.has = "number" THEN r.length ELSE sent[c] - HeadPieces)
  IN  \/ sender[c] = "gone" \/ r.head = "binary"
      \/ /\ r.head # "tokens" /\ r.method = "POST"
         /\ \/ r.has = "number" /\ r.length > RecvLimit
            \/ /\ r.has = "number" /\ HasHandler(r)
               /\ sender[c] = "finished" /\ sent[c] < HeadPieces + r.length
            \/ r.has = "none" /\ sender[c] = "finished" /\ content = "binary"
            \/ BodySent(c) /\ Raises(r, content)

\* A message is added at most once for a connection, and only after the whole
\* of it was sent: neither a head nor a body that comes in pieces, or is cut
\* short, is taken for a whole one.  Success means that the message is there,
\* and no answer is sent to part of a request.
RequestsAreWhole ==
  \A c \in Conn :
    /\ posted[c] <= 1
    /\ posted[c] = 1 => /\ sent[c] = Total(c) /\ BodySent(c)
                        /\ asked[c].method = "POST" /\ asked[c].query = "chat"
    /\ replied[c] = 200 /\ asked[c].query = "chat" => posted[c] = 1
    /\ replied[c] # NoStatus =>
         BodySent(c) \/ (~HasHandler(asked[c]) /\ sender[c] \in {"finished", "gone"})
    /\ thread[c] = "died" => MayKill(c)

\* A thread ends, whatever its client does; the connection of one that died
\* stays open only as long as no other is accepted.
ConnectionsEnd ==
  \A c \in Conn : thread[c] # "none" ~> closed[c] \/ (thread[c] = "died" /\ ct = c)

\* A whole request is answered when the client stays for the answer, with the
\* exception of a long one that nobody reads, and of a body that its handler
\* does not survive.
GoodRequest(c) ==
  LET r == asked[c]
      n == IF r.has = "number" THEN r.length ELSE r.bytes
  IN  /\ r.head = "fine"
      /\ r.method = "POST" =>
           /\ r.has # "nothing" /\ n \in 0 .. r.bytes /\ n <= RecvLimit
           /\ BodyOf(r, n) # "binary" /\ ~Raises(r, BodyOf(r, n))
AllSent(c) == sent[c] = Total(c) /\ BodySent(c)
GoodRequestsAreAnswered ==
  \A c \in Conn :
    (GoodRequest(c) /\ AllSent(c) /\ thread[c] \in {"none", "head", "body", "rest"})
      ~> replied[c] # NoStatus \/ sender[c] = "gone"
         \/ (thread[c] = "ended" /\ status[c] = 200 /\ asked[c].query \in {"index", "messages"})
=============================================================================
