------------------------------ MODULE CalcPipe ------------------------------
(***************************************************************************)
(* calc_server.c and calc_client.c: a server that makes a named pipe for   *)
(* one client at a time, and clients that make calls one after another.    *)
(* The pipe is Windows': a client that finds none fails at once, one that  *)
(* finds it taken waits for 50 ms, and DisconnectNamedPipe throws away     *)
(* what the client has not read.                                           *)
(***************************************************************************)
EXTENDS Integers, SequencesExt

CONSTANTS
  Client, Calls,   \* each client makes so many calls
  Requests,        \* what they may ask: [op |-> ..., data |-> ...]
  Modulus,         \* of an unsigned int: 2^32
  Nobody           \* no client

Failed == -1        \* what DoMath returns, and RES_ERROR
Nothing == -2       \* no response in the pipe, or no answer yet

VARIABLES
  server,     \* "create"; "connect"; "calc"; "disconnect"
  pipe,       \* "none"; "listening"; "connected"
  peer,       \* whose it is
  response,   \* the value in the pipe that the client has not read
  client,     \* "idle"; "calling"; "waiting"; "ended"
  request,    \* what DoMath was called with last
  answer,     \* ... and what came of it
  calls       \* how many calls a client has made

vars == <<server, pipe, peer, response, client, request, answer, calls>>

Init ==
  /\ server = "create" /\ pipe = "none" /\ peer = Nobody /\ response = Nothing
  /\ client = [c \in Client |-> "idle"] /\ request \in [Client -> {CHOOSE r \in Requests : TRUE}]
  /\ answer = [c \in Client |-> Nothing] /\ calls = [c \in Client |-> 0]

-----------------------------------------------------------------------------
\* *result += cr->data[i] and the like, with unsigned integers.
Unsigned(op, result, d) ==
  CASE op = "SUM" -> (result + d) % Modulus
    [] op = "MUL" -> (result * d) % Modulus
    [] op = "DIV" -> result \div d

\* The loops of Calc, a number at a time.
Loop(op, first, data) == FoldLeft(LAMBDA result, d : Unsigned(op, result, d), first, data)

\* Mutant: the division starts at the first number once more.
CalcFromFirst(op, data) ==
  CASE op = "SUM" -> Loop(op, 0, data)
    [] op = "MUL" -> Loop(op, 1, data)
    [] op = "DIV" /\ data # <<>> /\ (\A k \in 1 .. Len(data) : data[k] # 0) ->
         Loop(op, Head(data), data)
    [] OTHER -> Failed

Calc(op, data) ==
  CASE op = "SUM" -> Loop(op, 0, data)
    [] op = "MUL" -> Loop(op, 1, data)
    [] op = "DIV" /\ data # <<>> /\ (\A k \in 2 .. Len(data) : data[k] # 0) ->
         Loop(op, Head(data), Tail(data))
    [] OTHER -> Failed

\* WaitForNewClient.
CreatePipe ==
  /\ server = "create"
  /\ server' = "connect" /\ pipe' = "listening" /\ peer' = Nobody /\ response' = Nothing
  /\ UNCHANGED <<client, request, answer, calls>>

ConnectPipe ==
  /\ server = "connect" /\ pipe = "connected"
  /\ server' = "calc"
  /\ UNCHANGED <<pipe, peer, response, client, request, answer, calls>>

\* main: GetCalcRequest, Calc and SendCalcResponse; an invalid operation closes
\* the pipe.
Serve ==
  /\ server = "calc"
  /\ LET r == request[peer]
     IN  IF r.op \in {"SUM", "MUL", "DIV"}
         THEN response' = Calc(r.op, r.data) /\ server' = "disconnect" /\ UNCHANGED <<pipe, peer>>
         ELSE server' = "create" /\ pipe' = "none" /\ peer' = Nobody /\ UNCHANGED response
  /\ UNCHANGED <<client, request, answer, calls>>

\* DisconnectNamedPipe and CloseHandle.
Disconnect ==
  /\ server = "disconnect"
  /\ server' = "create" /\ pipe' = "none" /\ peer' = Nobody /\ response' = Nothing
  /\ UNCHANGED <<client, request, answer, calls>>

-----------------------------------------------------------------------------
\* DoMath is called ...
CallDoMath(c) ==
  /\ client[c] = "idle" /\ calls[c] < Calls
  /\ client' = [client EXCEPT ![c] = "calling"]
  /\ \E r \in Requests : request' = [request EXCEPT ![c] = r]
  /\ answer' = [answer EXCEPT ![c] = Nothing] /\ calls' = [calls EXCEPT ![c] = @ + 1]
  /\ UNCHANGED <<server, pipe, peer, response>>

\* ... its CallNamedPipe connects and writes the request ...
Connect(c) ==
  /\ client[c] = "calling" /\ pipe = "listening"
  /\ client' = [client EXCEPT ![c] = "waiting"]
  /\ pipe' = "connected" /\ peer' = c
  /\ UNCHANGED <<server, response, request, answer, calls>>

Returns(c, value) ==
  /\ client' = [client EXCEPT ![c] = IF calls[c] = Calls THEN "ended" ELSE "idle"]
  /\ answer' = [answer EXCEPT ![c] = value]
  /\ UNCHANGED <<server, pipe, peer, request, calls>>

\* ... or finds no pipe, or one that is taken for too long ...
CannotConnect(c) ==
  /\ client[c] = "calling" /\ pipe # "listening"
  /\ Returns(c, Failed) /\ UNCHANGED response

\* ... reads the response ...
ReadResponse(c) ==
  /\ client[c] = "waiting" /\ peer = c /\ response # Nothing
  /\ Returns(c, response) /\ response' = Nothing

\* ... or finds itself disconnected.
Disconnected(c) ==
  /\ client[c] = "waiting" /\ peer # c
  /\ Returns(c, Failed) /\ UNCHANGED response

ServerStep == CreatePipe \/ ConnectPipe \/ Serve \/ Disconnect
ClientStep(c) ==
  CallDoMath(c) \/ Connect(c) \/ CannotConnect(c) \/ ReadResponse(c) \/ Disconnected(c)
Next == ServerStep \/ \E c \in Client : ClientStep(c)
Spec == Init /\ [][Next]_vars
FairSpec == Spec /\ WF_vars(ServerStep) /\ \A c \in Client : WF_vars(ClientStep(c))

-----------------------------------------------------------------------------
\* What a request asks for, in whole numbers.
Whole(op, first, data) ==
  FoldLeft(LAMBDA x, d : IF op = "SUM" THEN x + d ELSE x * d, first, data)
Asked(r) ==
  CASE r.op = "SUM" -> Whole(r.op, 0, r.data) % Modulus
    [] r.op = "MUL" -> Whole(r.op, 1, r.data) % Modulus
    [] r.op = "DIV" /\ r.data # <<>> ->
         LET divisor == Whole("MUL", 1, Tail(r.data))
         IN  IF divisor = 0 THEN Failed ELSE Head(r.data) \div divisor
    [] OTHER -> Failed

\* DoMath gives what it was asked for or fails; it never gives the answer to
\* another call, of this client or of another.
AnswersAreRight ==
  \A c \in Client : client[c] # "calling" => answer[c] \in {Nothing, Failed, Asked(request[c])}
=============================================================================
