------------------------------- MODULE MCIpc -------------------------------
(* The programs about communication and formats for TLC: a behaviour is one *)
(* of them.                                                                 *)
EXTENDS MCFormats

CONSTANTS
  Programs, Capacity, Chunk, MaxOutput, Workers, Need, Bytes, Client, Calls, Modulus, Nobody,
  Conn, First, HeadPieces, RecvLimit
ASSUME IpcAssumption ==
  /\ Capacity \in Nat \ {0} /\ Chunk \in Nat \ {0} /\ MaxOutput \in Nat
  /\ Workers \in Nat /\ Need \in Nat \ {0} /\ Bytes \in Nat \ {0}
  /\ Calls \in Nat /\ Modulus \in Nat \ {0, 1} /\ Nobody \notin Client
  /\ First \in Conn /\ Nobody \notin Conn /\ HeadPieces \in Nat \ {0} /\ RecvLimit \in Nat

\* Sums and products that overflow, divisions that do and do not, and an
\* operation that the server does not know.
Requests ==
  {[op |-> "SUM", data |-> <<Modulus - 1, 3>>], [op |-> "MUL", data |-> <<5, 7, 3>>],
   [op |-> "DIV", data |-> <<13, 2, 3>>], [op |-> "DIV", data |-> <<7, 0>>],
   [op |-> "DIV", data |-> <<>>], [op |-> "POW", data |-> <<2>>]}

VARIABLES
  program,
  total, written, shown, writers, child, parent,                   \* both pipes
  child_exited, no_more, read_fds,                                 \* PipeSelect
  main, i, results, open, data_received, to_main, to_worker, worker, to_send,
  server, pipe, peer, response, client, request, answer, calls,
  asked, sender, sent, thread, have, data, status, replied, posted, closed, ct

pipeVars == <<total, written, shown, writers, child, parent>>
selectVars == <<child_exited, no_more, read_fds>>
poolVars == <<main, i, results, open, data_received, to_main, to_worker, worker, to_send>>
calcVars == <<server, pipe, peer, response, client, request, answer, calls>>
serverVars == <<asked, sender, sent, thread, have, data, status, replied, posted, closed, ct>>
vars == <<program, pipeVars, selectVars, poolVars, calcVars, serverVars, decodingVars>>

W == INSTANCE PipeWait
S == INSTANCE PipeSelect
P == INSTANCE WorkerPool
C == INSTANCE CalcPipe
H == INSTANCE ClientThread WITH NoThread <- Nobody

\* What the first browser may ask of httpchat.py; another one asks for the
\* page then, where the two have to do with each other.
HttpRequest(head, method, query, has, length, bytes, body, part) ==
  [head |-> head, method |-> method, query |-> query, has |-> has, length |-> length,
   bytes |-> bytes, body |-> body, part |-> part]
ThePage == HttpRequest("fine", "GET", "index", "none", 0, 0, "other", "other")
Nothing == [ThePage EXCEPT !.head = "never"]
Post(query, has, length, body, part) ==
  HttpRequest("fine", "POST", query, has, length, 2, body, part)
Line == Post("chat", "number", 2, "chat", "other")
Together ==
  {Line, [Line EXCEPT !.length = 3], [Line EXCEPT !.body = "unwritable"],
   [Line EXCEPT !.length = RecvLimit + 1]}
Alone ==
  {[Line EXCEPT !.query = "else"], [Line EXCEPT !.has = "none"],
   [Line EXCEPT !.length = 1], [Line EXCEPT !.length = -1],
   [Line EXCEPT !.body = "binary"], [Line EXCEPT !.body = "nontext"],
   [Line EXCEPT !.body = "deep"],
   Post("chat", "number", 1, "chat", "binary"), Post("chat", "none", 2, "chat", "binary"),
   Post("chat", "none", 2, "binary", "other"), Post("else", "number", 2, "deep", "other"),
   Post("messages", "number", 2, "messages", "other"),
   Post("messages", "number", 2, "nontext", "other"),
   Post("messages", "none", 2, "deep", "deep"),
   [ThePage EXCEPT !.head = "tokens"], [ThePage EXCEPT !.head = "binary"]}

Init ==
  /\ program \in Programs
  /\ S!Init /\ P!Init /\ C!Init /\ FormatInit(program)
  /\ \E asks \in IF program = "httpserver" THEN Together \cup Alone ELSE {Nothing} :
       H!Init([c \in Conn |-> IF c = First THEN asks
                              ELSE IF asks \in Together THEN ThePage ELSE Nothing])
  /\ program \in {"pipe", "pipe_select"} \/ total = [f \in S!Fd |-> 0]

\* The steps of one program leave the variables of the others alone.
OnlyIn(name, A) == program = name /\ A /\ UNCHANGED program
WaitSteps(A) ==
  OnlyIn("pipe", A) /\ UNCHANGED <<selectVars, poolVars, calcVars, serverVars, decodingVars>>
SelectSteps(A) ==
  OnlyIn("pipe_select", A) /\ UNCHANGED <<poolVars, calcVars, serverVars, decodingVars>>
PoolSteps(A) ==
  OnlyIn("socketpair", A) /\ UNCHANGED <<pipeVars, selectVars, calcVars, serverVars, decodingVars>>
CalcSteps(A) ==
  OnlyIn("calc", A) /\ UNCHANGED <<pipeVars, selectVars, poolVars, serverVars, decodingVars>>
ServerSteps(A) ==
  OnlyIn("httpserver", A) /\ UNCHANGED <<pipeVars, selectVars, poolVars, calcVars, decodingVars>>
FormatSteps(A) ==
  A /\ UNCHANGED <<program, pipeVars, selectVars, poolVars, calcVars, serverVars>>

Next ==
  \/ WaitSteps(W!Next) \/ SelectSteps(S!Next) \/ PoolSteps(P!Next) \/ CalcSteps(C!Next)
  \/ ServerSteps(H!Next) \/ FormatSteps(FormatNext(program))

\* A server thread and main go on; clients owe nothing.
FairSpec ==
  /\ Init /\ [][Next]_vars
  /\ WF_vars(WaitSteps(W!ChildStep)) /\ WF_vars(WaitSteps(W!ParentStep))
  /\ WF_vars(SelectSteps(S!ChildStep /\ UNCHANGED selectVars))
  /\ WF_vars(SelectSteps(S!ParentStep))
  /\ WF_vars(PoolSteps(P!MainStep))
  /\ \A w \in P!Worker : WF_vars(PoolSteps(P!Check(w))) /\ WF_vars(PoolSteps(P!Send(w)))
  /\ WF_vars(CalcSteps(C!ServerStep)) /\ \A c \in Client : WF_vars(CalcSteps(C!ClientStep(c)))
  /\ \A c \in Conn : WF_vars(ServerSteps(H!Accept(c))) /\ WF_vars(ServerSteps(H!ThreadStep(c)))

-----------------------------------------------------------------------------
\* pipe.c shows the first chunk of each pipe, pipe_select.c shows everything.
OutputIsShown ==
  /\ program = "pipe" => W!ShowsOneChunk
  /\ program = "pipe_select" => S!ShowsAll

\* pipe.c ends if the child's output fits into the pipes, pipe_select.c in any
\* case, socketpair.c if there are enough results; each call of DoMath returns.
\* A thread of httpchat.py ends and answers a good request; see there.
ProgramsEnd ==
  /\ (program = "pipe" /\ \A f \in W!Fd : total[f] <= Capacity) ~> parent = "ended"
  /\ program = "pipe_select" ~> parent = "ended"
  /\ (program = "socketpair" /\ Cardinality(P!Sent) >= Need) ~> P!Over
  /\ program = "calc" ~> \A c \in Client : client[c] = "ended"
  /\ H!ConnectionsEnd /\ H!GoodRequestsAreAnswered

\* socketpair.c and calc_server.c; see there.
WorkersEnd == P!WorkersEnd
AnswersAreRight ==
  /\ program = "calc" => C!AnswersAreRight
  /\ program = "socketpair" => P!EnoughResults
RequestsAreWhole == H!RequestsAreWhole
PicturesAreRight == BitmapsAreDecoded(program)
RecordsAreRight == RecordsAreRead(program)
NotKilled == P!NotKilled
=============================================================================
