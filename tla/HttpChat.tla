------------------------------ MODULE HttpChat ------------------------------
(***************************************************************************)
(* The messages of the web chat: the two POST handlers of httpchat.py,     *)
(* each in a server thread of its own and with its body under              *)
(* messages_lock, and the polling loop of httpchat_main.js in every        *)
(* browser.  Requests are handled in any order, requests and answers get   *)
(* lost, and the server, which stores nothing on disk, may be restarted.   *)
(* A message is the number of POST /chat requests accepted up to it.       *)
(***************************************************************************)
EXTENDS Integers, Sequences

CONSTANTS
  Client,
  Limit,        \* messages_limit
  MaxPosts,     \* bound on the lines that are sent
  MaxRestarts   \* bound on the restarts of the server
ASSUME LimitAssumption == Limit \in Nat
ASSUME MaxPostsAssumption == MaxPosts \in Nat /\ MaxRestarts \in Nat

VARIABLES
  messages, messages_offset,  \* the fields of SimpleChatWWW
  posting,          \* the number of POST /chat requests under way
  last_message_id,  \* main.js, in each browser
  poll,             \* "timer": the next poll waits; "sent"; "answered"
  reply,            \* the answer to a poll
  shown,            \* the messages in the chat window
  posted,           \* history: messages accepted, by all servers
  started,          \* history: messages accepted by the servers before this
  restarts,         \* history: the number of restarts
  upto,             \* history: the messages accepted when the poll was answered
  run_of_id,        \* history: the server that last_message_id comes from
  misled            \* history: a server has answered another server's id

serverVars == <<messages, messages_offset>>
clientVars == <<last_message_id, poll, reply, shown>>
pollHist == <<upto, run_of_id, misled>>
runHist == <<started, restarts>>
vars == <<serverVars, posting, clientVars, posted, runHist, pollHist>>

NoReply == [last_message_id |-> -1, messages |-> <<>>, upto |-> 0, run |-> 0]

Init ==
  /\ messages = <<>> /\ messages_offset = 0
  /\ posting = 0
  /\ last_message_id = [c \in Client |-> -1]
  /\ poll = [c \in Client |-> "timer"]
  /\ reply = [c \in Client |-> NoReply]
  /\ shown = [c \in Client |-> <<>>]
  /\ posted = 0 /\ started = 0 /\ restarts = 0
  /\ upto = [c \in Client |-> 0]
  /\ run_of_id = [c \in Client |-> 0]
  /\ misled = [c \in Client |-> FALSE]

-----------------------------------------------------------------------------
\* A browser sends a line.  It does not look at what becomes of the request.
SendLine ==
  /\ posted + posting < MaxPosts
  /\ posting' = posting + 1
  /\ UNCHANGED <<serverVars, clientVars, posted, runHist, pollHist>>

\* The request or its connection is lost, or it is a Bad Request.
LoseLine ==
  /\ posting > 0
  /\ posting' = posting - 1
  /\ UNCHANGED <<serverVars, clientVars, posted, runHist, pollHist>>

\* Mutants: the oldest message goes, and the offset stays; it goes too late.
HandlePostChatNoOffset ==
  /\ posting > 0 /\ posting' = posting - 1
  /\ messages' = Append(IF Len(messages) > Limit THEN Tail(messages) ELSE messages, posted + 1)
  /\ posted' = posted + 1
  /\ UNCHANGED <<messages_offset, clientVars, runHist, pollHist>>

HandlePostChatLate ==
  /\ posting > 0 /\ posting' = posting - 1
  /\ LET full == Len(messages) > Limit + 1
     IN  /\ messages' = Append(IF full THEN Tail(messages) ELSE messages, posted + 1)
         /\ messages_offset' = IF full THEN messages_offset + 1 ELSE messages_offset
  /\ posted' = posted + 1
  /\ UNCHANGED <<clientVars, runHist, pollHist>>

\* __handle_POST_chat: the length is looked at before the message is added.
HandlePostChat ==
  /\ posting > 0 /\ posting' = posting - 1
  /\ LET full == Len(messages) > Limit
     IN  /\ messages' = Append(IF full THEN Tail(messages) ELSE messages, posted + 1)
         /\ messages_offset' = IF full THEN messages_offset + 1 ELSE messages_offset
  /\ posted' = posted + 1
  /\ UNCHANGED <<clientVars, runHist, pollHist>>

-----------------------------------------------------------------------------
\* checkForNewMessages, by the timer.
Poll(c) ==
  /\ poll[c] = "timer"
  /\ poll' = [poll EXCEPT ![c] = "sent"]
  /\ UNCHANGED <<serverVars, posting, last_message_id, reply, shown, posted, runHist, pollHist>>

\* The slice messages[last_message_id - messages_offset:]; a negative start is 0.
From(c) == LET k == last_message_id[c] - messages_offset IN IF k < 0 THEN 0 ELSE k

Answer(id, from) ==
  [last_message_id |-> id, messages |-> SubSeq(messages, from + 1, Len(messages)),
   upto |-> posted, run |-> restarts]

Answered(c, id, from) ==
  /\ poll[c] = "sent"
  /\ poll' = [poll EXCEPT ![c] = "answered"]
  /\ reply' = [reply EXCEPT ![c] = Answer(id, from)]
  /\ misled' = [misled EXCEPT ![c] =
                  @ \/ (last_message_id[c] # -1 /\ run_of_id[c] # restarts)]
  /\ UNCHANGED <<serverVars, posting, last_message_id, shown, posted, runHist, upto, run_of_id>>

\* Mutants: the id of the answer forgets the offset; the start of the slice
\* is one off.
HandlePostMessagesShortId(c) == Answered(c, Len(messages), From(c))
HandlePostMessagesSkipOne(c) == Answered(c, messages_offset + Len(messages), From(c) + 1)

\* __handle_POST_messages.
HandlePostMessages(c) == Answered(c, messages_offset + Len(messages), From(c))

\* The error callback: the answer is lost, or the request is.
PollFails(c) ==
  /\ poll[c] # "timer"
  /\ poll' = [poll EXCEPT ![c] = "timer"]
  /\ reply' = [reply EXCEPT ![c] = NoReply]
  /\ UNCHANGED <<serverVars, posting, last_message_id, shown, posted, runHist, pollHist>>

\* Mutants: the id is not stored; the loop ends after an answer without news.
PollSucceedsOldId(c) ==
  /\ poll[c] = "answered"
  /\ poll' = [poll EXCEPT ![c] = "timer"]
  /\ reply' = [reply EXCEPT ![c] = NoReply]
  /\ shown' = [shown EXCEPT ![c] = @ \o reply[c].messages]
  /\ upto' = [upto EXCEPT ![c] = reply[c].upto]
  /\ run_of_id' = [run_of_id EXCEPT ![c] = reply[c].run]
  /\ UNCHANGED <<serverVars, posting, last_message_id, posted, runHist, misled>>
PollSucceedsOnce(c) ==
  /\ poll[c] = "answered"
  /\ poll' = [poll EXCEPT ![c] = IF reply[c].messages = <<>> THEN "stopped" ELSE "timer"]
  /\ last_message_id' = [last_message_id EXCEPT ![c] = reply[c].last_message_id]
  /\ reply' = [reply EXCEPT ![c] = NoReply]
  /\ shown' = [shown EXCEPT ![c] = @ \o reply[c].messages]
  /\ upto' = [upto EXCEPT ![c] = reply[c].upto]
  /\ run_of_id' = [run_of_id EXCEPT ![c] = reply[c].run]
  /\ UNCHANGED <<serverVars, posting, posted, runHist, misled>>

\* The success callback.
PollSucceeds(c) ==
  /\ poll[c] = "answered"
  /\ poll' = [poll EXCEPT ![c] = "timer"]
  /\ last_message_id' = [last_message_id EXCEPT ![c] = reply[c].last_message_id]
  /\ shown' = [shown EXCEPT ![c] = @ \o reply[c].messages]
  /\ reply' = [reply EXCEPT ![c] = NoReply]
  /\ upto' = [upto EXCEPT ![c] = reply[c].upto]
  /\ run_of_id' = [run_of_id EXCEPT ![c] = reply[c].run]
  /\ UNCHANGED <<serverVars, posting, posted, runHist, misled>>

\* The server is stopped and started again; what is on the wire may survive.
Restart ==
  /\ restarts < MaxRestarts
  /\ messages' = <<>> /\ messages_offset' = 0
  /\ restarts' = restarts + 1 /\ started' = posted
  /\ UNCHANGED <<posting, clientVars, posted, pollHist>>

Next ==
  \/ SendLine \/ LoseLine \/ HandlePostChat \/ Restart
  \/ \E c \in Client :
       Poll(c) \/ HandlePostMessages(c) \/ PollFails(c) \/ PollSucceeds(c)

Spec == Init /\ [][Next]_vars

\* The browser's timer fires, and a poll that is repeated for ever is answered,
\* and its answer delivered, again and again.  Nothing is owed to SendLine.
FairSpec ==
  /\ Spec
  /\ \A c \in Client :
       WF_vars(Poll(c)) /\ SF_vars(HandlePostMessages(c)) /\ SF_vars(PollSucceeds(c))

-----------------------------------------------------------------------------
TypeOK ==
  /\ messages \in Seq(Nat) /\ messages_offset \in Nat
  /\ posting \in Nat /\ posted \in Nat /\ started \in Nat /\ restarts \in Nat
  /\ last_message_id \in [Client -> Nat \cup {-1}]
  /\ poll \in [Client -> {"timer", "sent", "answered"}]
  /\ reply \in [Client -> [last_message_id : Nat \cup {-1}, messages : Seq(Nat),
                           upto : Nat, run : Nat]]
  /\ shown \in [Client -> Seq(Nat)]
  /\ upto \in [Client -> Nat] /\ run_of_id \in [Client -> Nat]
  /\ misled \in [Client -> BOOLEAN]

\* The server's list is the latest messages it accepted, without a gap, and
\* the offset counts those it has dropped.  One message over the limit is kept:
\* the length is looked at before the new one is added.
HistoryIsTheTail ==
  /\ posted = started + messages_offset + Len(messages)
  /\ \A k \in 1 .. Len(messages) : messages[k] = started + messages_offset + k
  /\ Len(messages) <= Limit + 1

\* A window shows no message twice and none out of order, whatever is lost,
\* repeated or restarted.
ShownOnceInOrder ==
  \A c \in Client : \A i, j \in 1 .. Len(shown[c]) : i < j => shown[c][i] < shown[c][j]

\* A message is missing in a window that is past it only when the server has
\* dropped it, or when the window came with the id of an earlier server.
NoGap ==
  \A c \in Client : ~misled[c] =>
    \A n \in started + messages_offset + 1 .. upto[c] :
      \E i \in 1 .. Len(shown[c]) : shown[c][i] = n

\* Every message comes to every window in the end, with the same exceptions.
EventuallyShown ==
  \A c \in Client : \A n \in 1 .. MaxPosts :
    posted >= n ~> \/ n <= started + messages_offset \/ misled[c]
                   \/ \E i \in 1 .. Len(shown[c]) : shown[c][i] = n

\* The chat implements the log of numbered messages.
Log == INSTANCE ChatLog
ImplementsLog == Log!Spec
=============================================================================
