--------------------------- MODULE HttpChat_proofs ---------------------------
(***************************************************************************)
(* Proofs about the web chat, for any number of browsers, any limit, any   *)
(* number of lines and of restarts.  The inductive invariant says what the *)
(* id of a browser and an answer on its way mean in terms of the messages  *)
(* accepted so far, apart from the part that depends on whether a server   *)
(* has answered another server's id.                                       *)
(***************************************************************************)
EXTENDS HttpChat, SequenceTheorems, TLAPS

\* s is a + 1, a + 2, ...
Follows(s, a) == \A k \in 1 .. Len(s) : s[k] = a + k
Increasing(s) == \A i, j \in 1 .. Len(s) : i < j => s[i] < s[j]
UpTo(s, n) == \A i \in 1 .. Len(s) : s[i] <= n
Holds(s, n) == \E i \in 1 .. Len(s) : s[i] = n

\* The message before the first one of an answer.
Before(c) == reply[c].upto - Len(reply[c].messages)

Types ==
  /\ messages \in Seq(Nat) /\ messages_offset \in Nat
  /\ posting \in Nat /\ posted \in Nat /\ started \in Nat /\ restarts \in Nat
  /\ last_message_id \in [Client -> Nat \cup {-1}]
  /\ poll \in [Client -> {"timer", "sent", "answered"}]
  /\ reply \in [Client -> [last_message_id : Nat \cup {-1}, messages : Seq(Nat),
                           upto : Nat, run : Nat]]
  /\ shown \in [Client -> Seq(Nat)]
  /\ upto \in [Client -> Nat] /\ run_of_id \in [Client -> Nat]
BoolType == misled \in [Client -> BOOLEAN]

\* A browser's id, and what it shows.
Window(c) ==
  /\ upto[c] <= posted /\ run_of_id[c] <= restarts
  /\ last_message_id[c] = -1 => upto[c] = 0
  /\ last_message_id[c] # -1 /\ run_of_id[c] = restarts => upto[c] = started + last_message_id[c]
  /\ run_of_id[c] # restarts => upto[c] <= started
  /\ UpTo(shown[c], upto[c]) /\ Increasing(shown[c])

\* An answer on its way.
Fits(c) ==
  /\ reply[c].last_message_id # -1 /\ reply[c].upto <= posted /\ reply[c].run <= restarts
  /\ reply[c].run = restarts => reply[c].upto = started + reply[c].last_message_id
  /\ reply[c].run # restarts => reply[c].upto <= started
  /\ Follows(reply[c].messages, Before(c))
  /\ Before(c) >= upto[c]

\* Nothing that the server has is missing, nor will it be after the answer.
Gapless(c) ==
  \A n \in started + messages_offset + 1 .. upto[c] : Holds(shown[c], n)
Near(c) == Before(c) <= upto[c] \/ Before(c) <= started + messages_offset

Server == HistoryIsTheTail
Windows == \A c \in Client : Window(c)
Answers == \A c \in Client : poll[c] = "answered" => Fits(c)
Gaps == \A c \in Client : ~misled[c] => Gapless(c) /\ (poll[c] = "answered" => Near(c))

ChatInv == Types /\ BoolType /\ Server /\ Windows /\ Answers /\ Gaps

-----------------------------------------------------------------------------
\* What HandlePostChat does to a list of consecutive numbers.
LEMMA AppendFollows ==
  ASSUME NEW s \in Seq(Nat), NEW a \in Nat, Follows(s, a)
  PROVE  /\ Append(s, a + Len(s) + 1) \in Seq(Nat)
         /\ Len(Append(s, a + Len(s) + 1)) = Len(s) + 1
         /\ Follows(Append(s, a + Len(s) + 1), a)
<1>. DEFINE e == a + Len(s) + 1
            t == Append(s, e)
<1>1. Len(s) \in Nat /\ e \in Nat
  BY LenProperties
<1>2. /\ t \in Seq(Nat) /\ Len(t) = Len(s) + 1 /\ t[Len(s) + 1] = e
      /\ \A i \in 1 .. Len(s) : t[i] = s[i]
  BY <1>1, AppendProperties
<1>3. Follows(t, a)
  BY <1>1, <1>2 DEF Follows
<1>. QED  BY <1>2, <1>3

LEMMA TailFollows ==
  ASSUME NEW s \in Seq(Nat), NEW a \in Nat, Follows(s, a), Len(s) > 0
  PROVE  /\ Tail(s) \in Seq(Nat) /\ Len(Tail(s)) = Len(s) - 1
         /\ Follows(Tail(s), a + 1)
<1>1. s # <<>> /\ Len(s) \in Nat
  BY EmptySeq, LenProperties
<1>2. /\ Tail(s) \in Seq(Nat) /\ Len(Tail(s)) = Len(s) - 1
      /\ \A i \in 1 .. Len(Tail(s)) : Tail(s)[i] = s[i + 1]
  BY <1>1, HeadTailProperties
<1>3. Follows(Tail(s), a + 1)
  BY <1>1, <1>2 DEF Follows
<1>. QED  BY <1>2, <1>3

\* The slice that answers a poll.
LEMMA SliceFollows ==
  ASSUME NEW s \in Seq(Nat), NEW a \in Nat, NEW k \in Nat, Follows(s, a)
  PROVE  /\ SubSeq(s, k + 1, Len(s)) \in Seq(Nat)
         /\ k <= Len(s) => /\ Len(SubSeq(s, k + 1, Len(s))) = Len(s) - k
                           /\ Follows(SubSeq(s, k + 1, Len(s)), a + k)
         /\ k > Len(s) => Len(SubSeq(s, k + 1, Len(s))) = 0
<1>. DEFINE t == SubSeq(s, k + 1, Len(s))
<1>1. Len(s) \in Nat
  BY LenProperties
<1>2. /\ t \in Seq(Nat)
      /\ Len(t) = IF k + 1 <= Len(s) THEN Len(s) - (k + 1) + 1 ELSE 0
      /\ \A i \in 1 .. Len(s) - (k + 1) + 1 : t[i] = s[k + 1 + i - 1]
  <2>1. \A i \in k + 1 .. Len(s) : s[i] \in Nat
    BY <1>1, ElementOfSeq
  <2>. QED  BY <1>1, <2>1, SubSeqProperties
<1>3. k <= Len(s) => Len(t) = Len(s) - k /\ Follows(t, a + k)
  BY <1>1, <1>2 DEF Follows
<1>4. k > Len(s) => Len(t) = 0
  BY <1>1, <1>2
<1>. QED  BY <1>2, <1>3, <1>4

\* What an answer adds to a window.
LEMMA ShowFollows ==
  ASSUME NEW s \in Seq(Nat), NEW t \in Seq(Nat), NEW u \in Nat, NEW b \in Nat,
         UpTo(s, u), Increasing(s), Follows(t, b), u <= b
  PROVE  /\ s \o t \in Seq(Nat)
         /\ UpTo(s \o t, b + Len(t)) /\ Increasing(s \o t)
         /\ \A n \in Nat : Holds(s, n) => Holds(s \o t, n)
         /\ \A n \in b + 1 .. b + Len(t) : Holds(s \o t, n)
<1>. DEFINE w == s \o t
<1>1. Len(s) \in Nat /\ Len(t) \in Nat
  BY LenProperties
<1>2. /\ w \in Seq(Nat) /\ Len(w) = Len(s) + Len(t)
      /\ \A i \in 1 .. Len(s) + Len(t) : w[i] = IF i <= Len(s) THEN s[i] ELSE t[i - Len(s)]
  BY ConcatProperties
<1>3. \A i \in 1 .. Len(w) : /\ i <= Len(s) => w[i] = s[i] /\ s[i] <= u
                             /\ i > Len(s) => w[i] = b + (i - Len(s))
  BY <1>1, <1>2 DEF UpTo, Follows
<1>4. \A i \in 1 .. Len(s) : s[i] \in Nat
  BY <1>1, ElementOfSeq
<1>. HIDE DEF w
<1>5. UpTo(w, b + Len(t))
  <2>1. ASSUME NEW i \in 1 .. Len(w)
        PROVE  w[i] <= b + Len(t)
    <3>1. CASE i <= Len(s)
      <4>1. i \in 1 .. Len(s) /\ w[i] = s[i]
        BY <1>1, <1>2, <1>3, <3>1
      <4>2. s[i] \in Nat /\ s[i] <= u
        BY <1>4, <4>1 DEF UpTo
      <4>. QED  BY <1>1, <4>1, <4>2
    <3>2. CASE i > Len(s)
      BY <1>1, <1>2, <1>3, <3>2
    <3>. QED  BY <1>1, <1>2, <3>1, <3>2
  <2>. QED  BY <2>1 DEF UpTo
<1>6. Increasing(w)
  <2>1. ASSUME NEW i \in 1 .. Len(w), NEW j \in 1 .. Len(w), i < j
        PROVE  w[i] < w[j]
    <3>1. CASE j <= Len(s)
      <4>1. i \in 1 .. Len(s) /\ j \in 1 .. Len(s) /\ w[i] = s[i] /\ w[j] = s[j]
        BY <1>1, <1>2, <1>3, <2>1, <3>1
      <4>. QED  BY <2>1, <4>1 DEF Increasing
    <3>2. CASE i <= Len(s) /\ j > Len(s)
      <4>1. i \in 1 .. Len(s) /\ w[i] = s[i] /\ w[j] = b + (j - Len(s))
        BY <1>1, <1>2, <1>3, <3>2
      <4>2. s[i] \in Nat /\ s[i] <= u
        BY <1>4, <4>1 DEF UpTo
      <4>. QED  BY <1>1, <3>2, <4>1, <4>2
    <3>3. CASE i > Len(s)
      <4>1. w[i] = b + (i - Len(s)) /\ w[j] = b + (j - Len(s))
        BY <1>1, <1>2, <1>3, <2>1, <3>3
      <4>. QED  BY <1>1, <2>1, <4>1
    <3>. QED  BY <1>1, <1>2, <2>1, <3>1, <3>2, <3>3
  <2>. QED  BY <2>1 DEF Increasing
<1>7. ASSUME NEW n \in Nat, Holds(s, n)
      PROVE  Holds(w, n)
  <2>1. PICK i \in 1 .. Len(s) : s[i] = n
    BY <1>7 DEF Holds
  <2>2. i \in 1 .. Len(w) /\ w[i] = n
    BY <1>1, <1>2, <1>3, <2>1
  <2>. QED  BY <2>2 DEF Holds
<1>8. ASSUME NEW n \in b + 1 .. b + Len(t)
      PROVE  Holds(w, n)
  <2>. DEFINE i == n - b + Len(s)
  <2>1. i \in 1 .. Len(w) /\ i > Len(s) /\ b + (i - Len(s)) = n
    BY <1>1, <1>2
  <2>. HIDE DEF i
  <2>2. w[i] = n
    <3>1. w[i] = b + (i - Len(s))
      BY <1>1, <1>3, <2>1
    <3>. QED  BY <2>1, <3>1
  <2>. QED  BY <2>1, <2>2 DEF Holds
<1>. QED  BY <1>2, <1>5, <1>6, <1>7, <1>8 DEF w

-----------------------------------------------------------------------------
LEMMA InitInv == Init => ChatInv
<1>. SUFFICES ASSUME Init PROVE ChatInv
  OBVIOUS
<1>1. Types
  <2>1. <<>> \in Seq(Nat)
    BY EmptySeq
  <2>. QED  BY <2>1 DEF Init, Types, NoReply
<1>2. BoolType
  BY DEF Init, BoolType
<1>3. Server
  BY LimitAssumption DEF Init, Server, HistoryIsTheTail
<1>4. Windows
  <2>1. ASSUME NEW c \in Client
        PROVE  Window(c)
    <3>1. shown[c] = <<>> /\ Len(<<>>) = 0
      BY DEF Init
    <3>2. UpTo(shown[c], upto[c]) /\ Increasing(shown[c])
      BY <3>1 DEF UpTo, Increasing
    <3>3. /\ upto[c] = 0 /\ last_message_id[c] = -1 /\ run_of_id[c] = 0
          /\ posted = 0 /\ restarts = 0 /\ started = 0
      BY DEF Init
    <3>. QED  BY <3>2, <3>3 DEF Window
  <2>. QED  BY <2>1 DEF Windows
<1>5. Answers
  BY DEF Init, Answers
<1>6. Gaps
  BY DEF Init, Gaps, Gapless
<1>. QED  BY <1>1, <1>2, <1>3, <1>4, <1>5, <1>6 DEF ChatInv
-----------------------------------------------------------------------------
\* Steps that leave the windows, the answers and the numbers alone.
LEMMA KeepWindows ==
  ASSUME Windows, last_message_id' = last_message_id, run_of_id' = run_of_id,
         upto' = upto, shown' = shown, posted' = posted, started' = started,
         restarts' = restarts
  PROVE  Windows'
BY DEF Windows, Window, UpTo, Increasing

LEMMA KeepServer ==
  ASSUME Server, messages' = messages, messages_offset' = messages_offset,
         posted' = posted, started' = started
  PROVE  Server'
BY DEF Server, HistoryIsTheTail

\* SendLine and LoseLine.
LEMMA LinesKeep ==
  ASSUME ChatInv, SendLine \/ LoseLine
  PROVE  ChatInv'
<1>1. /\ UNCHANGED <<serverVars, clientVars, posted, runHist, pollHist>>
      /\ posting' \in Nat
  BY DEF SendLine, LoseLine, ChatInv, Types
<1>2. /\ messages' = messages /\ messages_offset' = messages_offset
      /\ last_message_id' = last_message_id /\ poll' = poll /\ reply' = reply
      /\ shown' = shown /\ posted' = posted /\ started' = started
      /\ restarts' = restarts /\ upto' = upto /\ run_of_id' = run_of_id
      /\ misled' = misled
  BY <1>1 DEF serverVars, clientVars, runHist, pollHist
<1>3. Types'
  BY <1>1, <1>2 DEF ChatInv, Types
<1>4. BoolType'
  BY <1>2 DEF ChatInv, BoolType
<1>5. Server' /\ Windows'
  BY <1>2, KeepWindows, KeepServer DEF ChatInv
<1>6. Answers'
  BY <1>2 DEF ChatInv, Answers, Fits, Before, Follows
<1>7. Gaps'
  BY <1>2 DEF ChatInv, Gaps, Gapless, Near, Before, Holds
<1>. QED  BY <1>3, <1>4, <1>5, <1>6, <1>7 DEF ChatInv

-----------------------------------------------------------------------------
LEMMA PostKeeps ==
  ASSUME ChatInv, HandlePostChat
  PROVE  ChatInv'
<1>. DEFINE full == Len(messages) > Limit
            rest == IF full THEN Tail(messages) ELSE messages
            offset == IF full THEN messages_offset + 1 ELSE messages_offset
            base == started + offset
<1>1. /\ messages' = Append(rest, posted + 1) /\ messages_offset' = offset
      /\ posted' = posted + 1 /\ posting' = posting - 1 /\ posting > 0
      /\ last_message_id' = last_message_id /\ poll' = poll /\ reply' = reply
      /\ shown' = shown /\ started' = started
      /\ restarts' = restarts /\ upto' = upto /\ run_of_id' = run_of_id
      /\ misled' = misled
  BY DEF HandlePostChat, clientVars, runHist, pollHist
<1>2. /\ messages \in Seq(Nat) /\ messages_offset \in Nat /\ posted \in Nat
      /\ started \in Nat /\ restarts \in Nat /\ posting \in Nat /\ Limit \in Nat
      /\ Len(messages) \in Nat
  BY LimitAssumption, LenProperties DEF ChatInv, Types
<1>3. /\ Follows(messages, started + messages_offset)
      /\ posted = started + messages_offset + Len(messages)
      /\ Len(messages) <= Limit + 1
  BY DEF ChatInv, Server, HistoryIsTheTail, Follows
<1>4. /\ rest \in Seq(Nat) /\ Follows(rest, base) /\ base \in Nat /\ offset \in Nat
      /\ posted = base + Len(rest) /\ Len(rest) <= Limit /\ Len(rest) \in Nat
      /\ base >= started + messages_offset
  <2>1. CASE full
    <3>1. Len(messages) > 0
      BY <1>2, <2>1
    <3>2. /\ Tail(messages) \in Seq(Nat) /\ Len(Tail(messages)) = Len(messages) - 1
          /\ Follows(Tail(messages), started + messages_offset + 1)
      BY <1>2, <1>3, <3>1, TailFollows
    <3>3. base = started + messages_offset + 1
      BY <1>2, <2>1
    <3>. QED  BY <1>2, <1>3, <2>1, <3>1, <3>2, <3>3
  <2>2. CASE ~full
    BY <1>2, <1>3, <2>2
  <2>. QED  BY <2>1, <2>2
<1>. HIDE DEF full, rest, offset
<1>5. /\ messages' \in Seq(Nat) /\ Len(messages') = Len(rest) + 1
      /\ Follows(messages', base)
  BY <1>1, <1>4, AppendFollows
<1>6. Server'
  <2>1. posted' = base + Len(messages') /\ base = started' + messages_offset'
    BY <1>1, <1>2, <1>4, <1>5
  <2>2. Len(messages') <= Limit + 1
    BY <1>2, <1>4, <1>5
  <2>. QED  BY <1>5, <2>1, <2>2 DEF Server, HistoryIsTheTail, Follows
<1>7. Types'
  BY <1>1, <1>2, <1>4, <1>5 DEF ChatInv, Types
<1>8. BoolType'
  BY <1>1 DEF ChatInv, BoolType
<1>9. Windows'
  <2>1. ASSUME NEW c \in Client
        PROVE  Window(c)'
    <3>1. Window(c) /\ upto[c] \in Nat
      BY DEF ChatInv, Windows, Types
    <3>2. upto'[c] <= posted'
      BY <1>1, <1>2, <3>1 DEF Window
    <3>. QED  BY <1>1, <3>1, <3>2 DEF Window, UpTo, Increasing
  <2>. QED  BY <2>1 DEF Windows
<1>10. Answers'
  <2>1. ASSUME NEW c \in Client, poll'[c] = "answered"
        PROVE  Fits(c)'
    <3>1. Fits(c) /\ reply[c].upto \in Nat
      BY <1>1, <2>1 DEF ChatInv, Answers, Types
    <3>2. reply'[c].upto <= posted'
      BY <1>1, <1>2, <3>1 DEF Fits
    <3>. QED  BY <1>1, <3>1, <3>2 DEF Fits, Before, Follows
  <2>. QED  BY <2>1 DEF Answers
<1>11. Gaps'
  <2>1. started' + messages_offset' >= started + messages_offset
    BY <1>1, <1>4
  <2>2. started' + messages_offset' \in Nat /\ started + messages_offset \in Nat
    BY <1>1, <1>2, <1>4
  <2>3. ASSUME NEW c \in Client, Gapless(c)
        PROVE  Gapless(c)'
    <3>1. upto[c] \in Nat
      BY DEF ChatInv, Types
    <3>2. ASSUME NEW n \in started' + messages_offset' + 1 .. upto'[c]
          PROVE  Holds(shown[c], n)
      <4>1. n \in started + messages_offset + 1 .. upto[c]
        BY <1>1, <2>1, <2>2, <3>1
      <4>. QED  BY <2>3, <4>1 DEF Gapless
    <3>3. shown'[c] = shown[c]
      BY <1>1
    <3>. QED  BY <3>2, <3>3 DEF Gapless, Holds
  <2>4. ASSUME NEW c \in Client, Near(c)
        PROVE  Near(c)'
    <3>1. Before(c) \in Int /\ Before(c)' = Before(c) /\ upto[c] \in Nat
      <4>1. reply[c].messages \in Seq(Nat) /\ reply[c].upto \in Nat /\ upto[c] \in Nat
        BY DEF ChatInv, Types
      <4>. QED  BY <1>1, <4>1, LenProperties DEF Before
    <3>. QED  BY <1>1, <2>1, <2>2, <2>4, <3>1 DEF Near
  <2>. QED  BY <1>1, <2>3, <2>4 DEF ChatInv, Gaps
<1>. QED  BY <1>6, <1>7, <1>8, <1>9, <1>10, <1>11 DEF ChatInv
-----------------------------------------------------------------------------
LEMMA RestartKeeps ==
  ASSUME ChatInv, Restart
  PROVE  ChatInv'
<1>1. /\ messages' = <<>> /\ messages_offset' = 0 /\ restarts' = restarts + 1
      /\ started' = posted /\ posting' = posting /\ posted' = posted
      /\ last_message_id' = last_message_id /\ poll' = poll /\ reply' = reply
      /\ shown' = shown /\ upto' = upto /\ run_of_id' = run_of_id /\ misled' = misled
  BY DEF Restart, clientVars, pollHist
<1>2. posted \in Nat /\ started \in Nat /\ restarts \in Nat /\ posting \in Nat
  BY DEF ChatInv, Types
<1>3. messages' \in Seq(Nat) /\ Len(messages') = 0
  BY <1>1, EmptySeq
<1>4. Types'
  BY <1>1, <1>2, <1>3 DEF ChatInv, Types
<1>5. BoolType'
  BY <1>1 DEF ChatInv, BoolType
<1>6. Server'
  BY <1>1, <1>2, <1>3, LimitAssumption DEF Server, HistoryIsTheTail
<1>7. Windows'
  <2>1. ASSUME NEW c \in Client
        PROVE  Window(c)'
    <3>1. Window(c) /\ run_of_id[c] \in Nat /\ upto[c] \in Nat
      BY DEF ChatInv, Windows, Types
    <3>2. /\ run_of_id'[c] # restarts' /\ run_of_id'[c] <= restarts'
          /\ upto'[c] <= started' /\ upto'[c] <= posted'
      BY <1>1, <1>2, <3>1 DEF Window
    <3>. QED  BY <1>1, <3>1, <3>2 DEF Window, UpTo, Increasing
  <2>. QED  BY <2>1 DEF Windows
<1>8. Answers'
  <2>1. ASSUME NEW c \in Client, poll'[c] = "answered"
        PROVE  Fits(c)'
    <3>1. Fits(c) /\ reply[c].run \in Nat /\ reply[c].upto \in Nat
      BY <1>1, <2>1 DEF ChatInv, Answers, Types
    <3>2. /\ reply'[c].run # restarts' /\ reply'[c].run <= restarts'
          /\ reply'[c].upto <= started' /\ reply'[c].upto <= posted'
      BY <1>1, <1>2, <3>1 DEF Fits
    <3>. QED  BY <1>1, <3>1, <3>2 DEF Fits, Before, Follows
  <2>. QED  BY <2>1 DEF Answers
<1>9. Gaps'
  <2>1. ASSUME NEW c \in Client
        PROVE  Gapless(c)'
    <3>1. upto[c] \in Nat /\ upto[c] <= posted
      BY DEF ChatInv, Windows, Window, Types
    <3>. QED  BY <1>1, <1>2, <3>1 DEF Gapless
  <2>2. ASSUME NEW c \in Client, poll'[c] = "answered"
        PROVE  Near(c)'
    <3>1. /\ Fits(c) /\ reply[c].upto \in Nat
          /\ reply[c].messages \in Seq(Nat)
      BY <1>1, <2>2 DEF ChatInv, Answers, Types
    <3>2. Len(reply[c].messages) \in Nat
      BY <3>1, LenProperties
    <3>3. Before(c)' <= started' + messages_offset'
      BY <1>1, <1>2, <3>1, <3>2 DEF Fits, Before
    <3>. QED  BY <3>3 DEF Near
  <2>. QED  BY <2>1, <2>2 DEF Gaps
<1>. QED  BY <1>4, <1>5, <1>6, <1>7, <1>8, <1>9 DEF ChatInv

\* Poll and PollFails: a poll is begun or given up.
LEMMA PollsKeep ==
  ASSUME ChatInv, NEW d \in Client, Poll(d) \/ PollFails(d)
  PROVE  ChatInv'
<1>1. /\ messages' = messages /\ messages_offset' = messages_offset
      /\ posting' = posting /\ last_message_id' = last_message_id
      /\ shown' = shown /\ posted' = posted /\ started' = started
      /\ restarts' = restarts /\ upto' = upto /\ run_of_id' = run_of_id
      /\ misled' = misled
  BY DEF Poll, PollFails, serverVars, runHist, pollHist
<1>2. /\ poll' \in [Client -> {"timer", "sent", "answered"}]
      /\ \A c \in Client : poll'[c] = "answered" => poll[c] = "answered" /\ reply'[c] = reply[c]
  BY DEF Poll, PollFails, ChatInv, Types
<1>3. reply' \in [Client -> [last_message_id : Nat \cup {-1}, messages : Seq(Nat),
                             upto : Nat, run : Nat]]
  <2>1. NoReply \in [last_message_id : Nat \cup {-1}, messages : Seq(Nat), upto : Nat, run : Nat]
    BY EmptySeq DEF NoReply
  <2>2. reply' = reply \/ reply' = [reply EXCEPT ![d] = NoReply]
    BY DEF Poll, PollFails
  <2>. QED  BY <2>1, <2>2 DEF ChatInv, Types
<1>4. Types'
  BY <1>1, <1>2, <1>3 DEF ChatInv, Types
<1>5. BoolType'
  BY <1>1 DEF ChatInv, BoolType
<1>6. Server' /\ Windows'
  BY <1>1, KeepWindows, KeepServer DEF ChatInv
<1>7. Answers'
  BY <1>1, <1>2 DEF ChatInv, Answers, Fits, Before, Follows
<1>8. Gaps'
  <2>1. ASSUME NEW c \in Client, Gapless(c)
        PROVE  Gapless(c)'
    BY <1>1, <2>1 DEF Gapless, Holds
  <2>2. ASSUME NEW c \in Client, poll'[c] = "answered", Near(c)
        PROVE  Near(c)'
    BY <1>1, <1>2, <2>2 DEF Near, Before
  <2>. QED  BY <1>1, <1>2, <2>1, <2>2 DEF ChatInv, Gaps
<1>. QED  BY <1>4, <1>5, <1>6, <1>7, <1>8 DEF ChatInv

-----------------------------------------------------------------------------
\* The answer is made of what the server has.
LEMMA AnswerFits ==
  ASSUME ChatInv, NEW d \in Client
  PROVE  LET a == Answer(messages_offset + Len(messages), From(d))
             before == a.upto - Len(a.messages)
         IN  /\ a \in [last_message_id : Nat \cup {-1}, messages : Seq(Nat), upto : Nat, run : Nat]
             /\ a.last_message_id # -1 /\ a.upto = posted /\ a.run = restarts
             /\ a.upto = started + a.last_message_id
             /\ Follows(a.messages, before) /\ before >= upto[d]
             /\ last_message_id[d] = -1 \/ run_of_id[d] = restarts =>
                  before <= upto[d] \/ before <= started + messages_offset
<1>. DEFINE id == messages_offset + Len(messages)
            k == From(d)
            a == Answer(id, k)
            before == a.upto - Len(a.messages)
            base == started + messages_offset
<1>1. /\ messages \in Seq(Nat) /\ messages_offset \in Nat /\ posted \in Nat
      /\ started \in Nat /\ restarts \in Nat /\ upto[d] \in Nat
      /\ last_message_id[d] \in Nat \cup {-1}
      /\ Len(messages) \in Nat /\ base \in Nat /\ id \in Nat
  BY LenProperties DEF ChatInv, Types
<1>2. /\ Follows(messages, base) /\ posted = base + Len(messages)
  BY DEF ChatInv, Server, HistoryIsTheTail, Follows
<1>3. Window(d)
  BY DEF ChatInv, Windows
<1>4. /\ k \in Nat
      /\ k > 0 => last_message_id[d] \in Nat /\ k = last_message_id[d] - messages_offset
      /\ k = 0 => last_message_id[d] <= messages_offset
  BY <1>1 DEF From
<1>5. /\ a.messages = SubSeq(messages, k + 1, Len(messages)) /\ a.last_message_id = id
      /\ a.upto = posted /\ a.run = restarts
  BY DEF Answer
<1>6. /\ a.messages \in Seq(Nat)
      /\ k <= Len(messages) => /\ Len(a.messages) = Len(messages) - k
                               /\ Follows(a.messages, base + k)
      /\ k > Len(messages) => Len(a.messages) = 0
  <2>. HIDE DEF a, k, base
  <2>. QED  BY <1>1, <1>2, <1>4, <1>5, SliceFollows
<1>7. a \in [last_message_id : Nat \cup {-1}, messages : Seq(Nat), upto : Nat, run : Nat]
  BY <1>1, <1>5, <1>6 DEF Answer
<1>. HIDE DEF a, k
<1>8. /\ k <= Len(messages) => before = base + k
      /\ k > Len(messages) => before = posted
  BY <1>1, <1>2, <1>4, <1>5, <1>6
<1>9. Follows(a.messages, before)
  <2>1. CASE k <= Len(messages)
    BY <1>6, <1>8, <2>1
  <2>2. CASE k > Len(messages)
    BY <1>6, <2>2 DEF Follows
  <2>. QED  BY <1>1, <1>4, <2>1, <2>2
<1>w. /\ upto[d] <= posted
      /\ last_message_id[d] = -1 => upto[d] = 0
      /\ last_message_id[d] # -1 /\ run_of_id[d] = restarts => upto[d] = started + last_message_id[d]
      /\ run_of_id[d] # restarts => upto[d] <= started
  BY <1>3 DEF Window
<1>10. before >= upto[d]
  <2>1. CASE k > Len(messages)
    BY <1>8, <1>w, <2>1
  <2>2. CASE k <= Len(messages)
    <3>1. before = base + k /\ base + k >= base /\ base >= started
      BY <1>1, <1>4, <1>8, <2>2
    <3>. HIDE DEF before, base
    <3>2. CASE last_message_id[d] = -1 \/ run_of_id[d] # restarts
      <4>1. upto[d] <= started
        BY <1>1, <1>w, <3>2
      <4>2. base <= before /\ started <= base /\ base \in Nat /\ before \in Nat
        BY <1>1, <1>4, <3>1
      <4>. QED  BY <1>1, <4>1, <4>2
    <3>3. CASE last_message_id[d] # -1 /\ run_of_id[d] = restarts
      <4>1. upto[d] = started + last_message_id[d] /\ last_message_id[d] \in Nat
        BY <1>1, <1>w, <3>3
      <4>2. last_message_id[d] <= messages_offset + k
        BY <1>1, <1>4, <4>1
      <4>3. before = started + messages_offset + k
        BY <1>1, <1>4, <3>1 DEF base
      <4>. QED  BY <1>1, <1>4, <4>1, <4>2, <4>3
    <3>. QED  BY <3>2, <3>3
  <2>. QED  BY <1>1, <1>4, <2>1, <2>2
<1>11. last_message_id[d] = -1 \/ run_of_id[d] = restarts => before <= upto[d] \/ before <= base
  <2>1. CASE k > Len(messages)
    BY <1>1, <1>2, <1>4, <1>8, <1>w, <2>1
  <2>2. CASE k <= Len(messages)
    <3>1. before = base + k
      BY <1>8, <2>2
    <3>. HIDE DEF before
    <3>2. CASE k = 0
      BY <1>1, <3>1, <3>2
    <3>3. CASE k > 0
      <4>1. last_message_id[d] \in Nat /\ before = started + last_message_id[d]
        BY <1>1, <1>4, <3>1, <3>3
      <4>. QED  BY <1>1, <1>w, <4>1
    <3>. QED  BY <1>4, <3>2, <3>3
  <2>. QED  BY <1>1, <1>4, <2>1, <2>2
<1>12. a.last_message_id # -1 /\ a.upto = posted /\ a.run = restarts
       /\ a.upto = started + a.last_message_id
  BY <1>1, <1>2, <1>5
<1>. QED  BY <1>7, <1>9, <1>10, <1>11, <1>12 DEF a, k

LEMMA MessagesKeeps ==
  ASSUME ChatInv, NEW d \in Client, HandlePostMessages(d)
  PROVE  ChatInv'
<1>. DEFINE a == Answer(messages_offset + Len(messages), From(d))
            before == a.upto - Len(a.messages)
<1>1. /\ messages' = messages /\ messages_offset' = messages_offset
      /\ posting' = posting /\ last_message_id' = last_message_id
      /\ shown' = shown /\ posted' = posted /\ started' = started
      /\ restarts' = restarts /\ upto' = upto /\ run_of_id' = run_of_id
      /\ poll' = [poll EXCEPT ![d] = "answered"] /\ reply' = [reply EXCEPT ![d] = a]
  BY DEF HandlePostMessages, Answered, serverVars, runHist
<1>2. misled' = [misled EXCEPT ![d] =
                   @ \/ (last_message_id[d] # -1 /\ run_of_id[d] # restarts)]
  BY DEF HandlePostMessages, Answered
<1>3. /\ a \in [last_message_id : Nat \cup {-1}, messages : Seq(Nat), upto : Nat, run : Nat]
      /\ a.last_message_id # -1 /\ a.upto = posted /\ a.run = restarts
      /\ a.upto = started + a.last_message_id
      /\ Follows(a.messages, before) /\ before >= upto[d]
      /\ last_message_id[d] = -1 \/ run_of_id[d] = restarts =>
           before <= upto[d] \/ before <= started + messages_offset
  BY AnswerFits
<1>. HIDE DEF a
<1>4. Types'
  BY <1>1, <1>3 DEF ChatInv, Types
<1>5. BoolType'
  BY <1>2 DEF ChatInv, BoolType
<1>6. Server' /\ Windows'
  BY <1>1, KeepWindows, KeepServer DEF ChatInv
<1>7. reply \in [Client -> [last_message_id : Nat \cup {-1}, messages : Seq(Nat),
                            upto : Nat, run : Nat]] /\ poll \in [Client -> {"timer", "sent", "answered"}]
  BY DEF ChatInv, Types
<1>8. reply'[d] = a /\ \A c \in Client : c # d => reply'[c] = reply[c] /\ poll'[c] = poll[c]
  BY <1>1, <1>7
<1>9. Answers'
  <2>1. ASSUME NEW c \in Client, poll'[c] = "answered"
        PROVE  Fits(c)'
    <3>1. CASE c = d
      <4>1. Before(d)' = before
        BY <1>8 DEF Before
      <4>2. posted \in Nat /\ restarts \in Nat
        BY DEF ChatInv, Types
      <4>. QED  BY <1>1, <1>3, <1>8, <3>1, <4>1, <4>2 DEF Fits, Follows
    <3>2. CASE c # d
      BY <1>1, <1>8, <2>1, <3>2 DEF ChatInv, Answers, Fits, Before, Follows
    <3>. QED  BY <3>1, <3>2
  <2>. QED  BY <2>1 DEF Answers
<1>10. Gaps'
  <2>1. ASSUME NEW c \in Client, Gapless(c)
        PROVE  Gapless(c)'
    BY <1>1, <2>1 DEF Gapless, Holds
  <2>2. ASSUME NEW c \in Client, ~misled'[c]
        PROVE  ~misled[c] /\ (c = d => last_message_id[d] = -1 \/ run_of_id[d] = restarts)
    BY <1>2, <2>2 DEF ChatInv, BoolType
  <2>3. ASSUME NEW c \in Client, c # d, Near(c)
        PROVE  Near(c)'
    BY <1>1, <1>8, <2>3 DEF Near, Before
  <2>4. ASSUME last_message_id[d] = -1 \/ run_of_id[d] = restarts
        PROVE  Near(d)'
    BY <1>1, <1>3, <1>8, <2>4 DEF Near, Before
  <2>5. ASSUME NEW c \in Client, ~misled'[c]
        PROVE  Gapless(c)' /\ (poll'[c] = "answered" => Near(c)')
    <3>1. ~misled[c]
      BY <2>2, <2>5
    <3>2. Gapless(c)'
      BY <2>1, <3>1 DEF ChatInv, Gaps
    <3>3. CASE c = d
      BY <2>2, <2>4, <2>5, <3>2, <3>3
    <3>4. ASSUME c # d, poll'[c] = "answered"
          PROVE  Near(c)'
      <4>1. poll[c] = "answered"
        BY <1>8, <3>4
      <4>. QED  BY <2>3, <3>1, <3>4, <4>1 DEF ChatInv, Gaps
    <3>. QED  BY <3>2, <3>3, <3>4
  <2>. QED  BY <2>5 DEF Gaps
<1>. QED  BY <1>4, <1>5, <1>6, <1>9, <1>10 DEF ChatInv

LEMMA SuccessKeeps ==
  ASSUME ChatInv, NEW d \in Client, PollSucceeds(d)
  PROVE  ChatInv'
<1>. DEFINE s == shown[d]
            t == reply[d].messages
            b == Before(d)
<1>1. /\ messages' = messages /\ messages_offset' = messages_offset
      /\ posting' = posting /\ posted' = posted /\ started' = started
      /\ restarts' = restarts /\ misled' = misled
      /\ poll[d] = "answered" /\ poll' = [poll EXCEPT ![d] = "timer"]
      /\ last_message_id' = [last_message_id EXCEPT ![d] = reply[d].last_message_id]
      /\ shown' = [shown EXCEPT ![d] = s \o t]
      /\ reply' = [reply EXCEPT ![d] = NoReply]
      /\ upto' = [upto EXCEPT ![d] = reply[d].upto]
      /\ run_of_id' = [run_of_id EXCEPT ![d] = reply[d].run]
  BY DEF PollSucceeds, serverVars, runHist
<1>2. Types
  BY DEF ChatInv
<1>3. /\ s \in Seq(Nat) /\ t \in Seq(Nat) /\ Len(t) \in Nat /\ upto[d] \in Nat
      /\ reply[d].upto \in Nat /\ reply[d].run \in Nat
      /\ reply[d].last_message_id \in Nat \cup {-1}
  BY <1>2, LenProperties DEF Types
<1>4. Window(d) /\ Fits(d)
  BY <1>1 DEF ChatInv, Windows, Answers
<1>5. /\ b \in Nat /\ upto[d] <= b /\ b + Len(t) = reply[d].upto
      /\ UpTo(s, upto[d]) /\ Increasing(s) /\ Follows(t, b)
  BY <1>3, <1>4 DEF Window, Fits, Before
<1>6. /\ s \o t \in Seq(Nat)
      /\ UpTo(s \o t, reply[d].upto) /\ Increasing(s \o t)
      /\ \A n \in Nat : Holds(s, n) => Holds(s \o t, n)
      /\ \A n \in b + 1 .. reply[d].upto : Holds(s \o t, n)
  <2>. HIDE DEF s, t, b
  <2>. QED  BY <1>3, <1>5, ShowFollows
<1>7. /\ poll'[d] = "timer" /\ last_message_id'[d] = reply[d].last_message_id
      /\ shown'[d] = s \o t /\ upto'[d] = reply[d].upto /\ run_of_id'[d] = reply[d].run
      /\ \A c \in Client : c # d => /\ poll'[c] = poll[c] /\ reply'[c] = reply[c]
                                    /\ last_message_id'[c] = last_message_id[c]
                                    /\ shown'[c] = shown[c] /\ upto'[c] = upto[c]
                                    /\ run_of_id'[c] = run_of_id[c]
  BY <1>1, <1>2 DEF Types
<1>8. Types'
  <2>1. NoReply \in [last_message_id : Nat \cup {-1}, messages : Seq(Nat), upto : Nat, run : Nat]
    BY EmptySeq DEF NoReply
  <2>. QED  BY <1>1, <1>2, <1>3, <1>6, <2>1 DEF Types
<1>9. BoolType' /\ Server'
  BY <1>1, KeepServer DEF ChatInv, BoolType
<1>10. Windows'
  <2>1. Window(d)'
    BY <1>1, <1>3, <1>4, <1>6, <1>7 DEF Window, Fits, UpTo, Increasing
  <2>2. ASSUME NEW c \in Client, c # d
        PROVE  Window(c)'
    BY <1>1, <1>7, <2>2 DEF ChatInv, Windows, Window, UpTo, Increasing
  <2>. QED  BY <2>1, <2>2 DEF Windows
<1>11. Answers'
  <2>1. ASSUME NEW c \in Client, poll'[c] = "answered"
        PROVE  Fits(c)'
    <3>1. c # d
      BY <1>7, <2>1
    <3>. QED  BY <1>1, <1>7, <2>1, <3>1 DEF ChatInv, Answers, Fits, Before, Follows
  <2>. QED  BY <2>1 DEF Answers
<1>12. Gaps'
  <2>1. ASSUME Gapless(d), Near(d)
        PROVE  Gapless(d)'
    <3>1. messages_offset \in Nat /\ started \in Nat
      BY <1>2 DEF Types
    <3>2. ASSUME NEW n \in started + messages_offset + 1 .. reply[d].upto
          PROVE  Holds(s \o t, n)
      <4>1. CASE n <= upto[d]
        <5>1. Holds(s, n)
          BY <1>3, <2>1, <3>1, <4>1 DEF Gapless
        <5>. QED  BY <1>6, <3>1, <5>1
      <4>2. CASE n > upto[d]
        <5>1. n \in b + 1 .. reply[d].upto
          BY <1>3, <1>5, <2>1, <3>1, <4>2 DEF Near
        <5>. QED  BY <1>6, <5>1
      <4>. QED  BY <1>3, <3>1, <4>1, <4>2
    <3>3. /\ started' = started /\ messages_offset' = messages_offset
          /\ upto'[d] = reply[d].upto /\ shown'[d] = s \o t
      BY <1>1, <1>7
    <3>. HIDE DEF s, t
    <3>4. ASSUME NEW n \in started' + messages_offset' + 1 .. upto'[d]
          PROVE  \E i \in 1 .. Len(shown'[d]) : shown'[d][i] = n
      <4>1. n \in started + messages_offset + 1 .. reply[d].upto
        BY <3>3
      <4>2. Holds(s \o t, n)
        BY <3>2, <4>1
      <4>. QED  BY <3>3, <4>2 DEF Holds
    <3>. QED  BY <3>4 DEF Gapless, Holds
  <2>2. ASSUME NEW c \in Client, c # d, Gapless(c)
        PROVE  Gapless(c)'
    BY <1>1, <1>7, <2>2 DEF Gapless, Holds
  <2>3. ASSUME NEW c \in Client, c # d, Near(c)
        PROVE  Near(c)'
    BY <1>1, <1>7, <2>3 DEF Near, Before
  <2>4. ASSUME NEW c \in Client, ~misled[c]
        PROVE  Gapless(c)' /\ (poll'[c] = "answered" => Near(c)')
    <3>1. Gapless(c) /\ (poll[c] = "answered" => Near(c))
      BY <2>4 DEF ChatInv, Gaps
    <3>2. CASE c = d
      BY <1>1, <1>7, <2>1, <3>1, <3>2
    <3>3. CASE c # d
      BY <1>7, <2>2, <2>3, <3>1, <3>3
    <3>. QED  BY <3>2, <3>3
  <2>. QED  BY <1>1, <2>4 DEF Gaps
<1>. QED  BY <1>8, <1>9, <1>10, <1>11, <1>12 DEF ChatInv

-----------------------------------------------------------------------------
LEMMA StutterKeeps ==
  ASSUME ChatInv, UNCHANGED vars
  PROVE  ChatInv'
<1>1. /\ messages' = messages /\ messages_offset' = messages_offset /\ posting' = posting
      /\ last_message_id' = last_message_id /\ poll' = poll /\ reply' = reply
      /\ shown' = shown /\ posted' = posted /\ started' = started
      /\ restarts' = restarts /\ upto' = upto /\ run_of_id' = run_of_id
      /\ misled' = misled
  BY DEF vars, serverVars, clientVars, runHist, pollHist
<1>2. Types' /\ BoolType'
  BY <1>1 DEF ChatInv, Types, BoolType
<1>3. Server' /\ Windows'
  BY <1>1, KeepWindows, KeepServer DEF ChatInv
<1>4. Answers'
  BY <1>1 DEF ChatInv, Answers, Fits, Before, Follows
<1>5. Gaps'
  BY <1>1 DEF ChatInv, Gaps, Gapless, Near, Before, Holds
<1>. QED  BY <1>2, <1>3, <1>4, <1>5 DEF ChatInv

LEMMA NextInv == ChatInv /\ [Next]_vars => ChatInv'
BY LinesKeep, PostKeeps, RestartKeeps, PollsKeep, MessagesKeeps, SuccessKeeps,
   StutterKeeps DEF Next

\* The inductive invariant.
THEOREM HttpChatInvariant == Spec => []ChatInv
BY InitInv, NextInv, PTL DEF Spec

\* Every variable keeps its type, for any number of browsers and any limit.
THEOREM HttpChatTypeOK == Spec => []TypeOK
<1>1. ChatInv => TypeOK
  BY DEF ChatInv, Types, BoolType, TypeOK
<1>. QED  BY <1>1, HttpChatInvariant, PTL

\* The server's list is the tail of all messages, and no longer than the limit
\* and one.
THEOREM HttpChatHistory == Spec => []HistoryIsTheTail
<1>1. ChatInv => HistoryIsTheTail
  BY DEF ChatInv, Server
<1>. QED  BY <1>1, HttpChatInvariant, PTL

\* No window shows a message twice or out of order, whatever is lost or restarted.
THEOREM HttpChatShownOnceInOrder == Spec => []ShownOnceInOrder
<1>1. ChatInv => ShownOnceInOrder
  BY DEF ChatInv, Windows, Window, Increasing, ShownOnceInOrder
<1>. QED  BY <1>1, HttpChatInvariant, PTL

\* No window skips a message that the server still has, unless it came with
\* the id of an earlier server.
THEOREM HttpChatNoGap == Spec => []NoGap
<1>1. ChatInv => NoGap
  BY DEF ChatInv, Gaps, Gapless, Holds, NoGap
<1>. QED  BY <1>1, HttpChatInvariant, PTL

-----------------------------------------------------------------------------
\* Consecutive numbers are a block of the log.
LEMMA FollowsIsBlock ==
  ASSUME NEW t \in Seq(Nat), NEW a \in Nat, NEW b \in Nat,
         b = a - 1 + Len(t), Follows(t, a - 1)
  PROVE  Log!Block(a, b) = t
<1>1. Len(t) \in Nat /\ t \in [1 .. Len(t) -> Nat]
  BY LenProperties
<1>2. b - a + 1 = Len(t)
  BY <1>1
<1>3. \A k \in 1 .. Len(t) : a + k - 1 = t[k]
  BY <1>1 DEF Follows
<1>4. Log!Block(a, b) = [k \in 1 .. Len(t) |-> a + k - 1]
  BY <1>2 DEF Log!Block
<1>5. t = [k \in 1 .. Len(t) |-> t[k]]
  BY <1>1, Zenon
<1>6. [k \in 1 .. Len(t) |-> a + k - 1] = [k \in 1 .. Len(t) |-> t[k]]
  BY <1>3, Zenon
<1>. QED  BY <1>4, <1>5, <1>6, Zenon

\* A poll that succeeds is a Read of the log, or no step when it brings nothing.
LEMMA SuccessReads ==
  ASSUME ChatInv, NEW d \in Client, PollSucceeds(d)
  PROVE  Log!Read(d) \/ UNCHANGED <<posted, shown>>
<1>. DEFINE s == shown[d]
            t == reply[d].messages
            a == Before(d) + 1
            b == reply[d].upto
<1>1. /\ posted' = posted /\ poll[d] = "answered" /\ shown' = [shown EXCEPT ![d] = @ \o t]
  BY DEF PollSucceeds
<1>2. /\ s \in Seq(Nat) /\ t \in Seq(Nat) /\ Len(t) \in Nat /\ Len(s) \in Nat
      /\ upto[d] \in Nat /\ b \in Nat /\ posted \in Nat
      /\ shown \in [Client -> Seq(Nat)]
  BY LenProperties DEF ChatInv, Types
<1>3. Window(d) /\ Fits(d)
  BY <1>1 DEF ChatInv, Windows, Answers
<1>4. /\ a \in Nat /\ a > upto[d] /\ b <= posted /\ b = a - 1 + Len(t)
      /\ Follows(t, a - 1) /\ UpTo(s, upto[d])
  <2>1. Before(d) = b - Len(t) /\ Before(d) >= upto[d] /\ b <= posted
    BY <1>3 DEF Fits, Before
  <2>2. Before(d) \in Nat /\ a - 1 = Before(d)
    BY <1>2, <2>1
  <2>3. Follows(t, Before(d)) /\ UpTo(s, upto[d])
    BY <1>3 DEF Fits, Window
  <2>4. Follows(t, a - 1)
    BY <2>2, <2>3
  <2>. QED  BY <1>2, <2>1, <2>2, <2>3, <2>4
<1>5. CASE t = <<>>
  <2>1. s \o t = s
    BY <1>2, <1>5, ConcatEmptySeq
  <2>. QED  BY <1>1, <1>2, <2>1
<1>6. CASE t # <<>>
  <2>1. Len(t) > 0
    BY <1>2, <1>6, EmptySeq
  <2>2. a \in 1 .. posted /\ b \in 1 .. posted /\ a <= b
    BY <1>2, <1>4, <2>1
  <2>3. Log!Newest(s) < a
    <3>1. CASE s = <<>>
      BY <1>2, <1>4, <3>1 DEF Log!Newest
    <3>2. CASE s # <<>>
      <4>1. Len(s) \in 1 .. Len(s)
        BY <1>2, <3>2, EmptySeq
      <4>2. s[Len(s)] <= upto[d] /\ s[Len(s)] \in Nat
        BY <1>2, <1>4, <4>1, ElementOfSeq DEF UpTo
      <4>. QED  BY <1>2, <1>4, <3>2, <4>2 DEF Log!Newest
    <3>. QED  BY <3>1, <3>2
  <2>4. Log!Block(a, b) = t
    <3>. HIDE DEF a, b, t
    <3>. QED  BY <1>2, <1>4, FollowsIsBlock
  <2>. QED  BY <1>1, <2>2, <2>3, <2>4 DEF Log!Read
<1>. QED  BY <1>5, <1>6

LEMMA NextImplements ==
  ChatInv /\ [Next]_vars => [Log!Next]_<<posted, shown>>
<1>. SUFFICES ASSUME ChatInv, [Next]_vars
              PROVE  [Log!Next]_<<posted, shown>>
  OBVIOUS
<1>1. ASSUME HandlePostChat
      PROVE  Log!Accept
  BY <1>1 DEF HandlePostChat, clientVars, Log!Accept
<1>2. ASSUME NEW d \in Client, PollSucceeds(d)
      PROVE  Log!Read(d) \/ UNCHANGED <<posted, shown>>
  BY <1>2, SuccessReads
<1>3. ASSUME \/ SendLine \/ LoseLine \/ Restart \/ UNCHANGED vars
             \/ \E c \in Client : Poll(c) \/ HandlePostMessages(c) \/ PollFails(c)
      PROVE  UNCHANGED <<posted, shown>>
  BY <1>3 DEF SendLine, LoseLine, Restart, Poll, HandlePostMessages, Answered, PollFails,
              vars, clientVars
<1>. QED  BY <1>1, <1>2, <1>3 DEF Next, Log!Next

\* The web chat implements the log of numbered messages.
THEOREM HttpChatImplementsLog == Spec => ImplementsLog
<1>1. Init => Log!Init
  BY DEF Init, Log!Init
<1>. QED  BY <1>1, NextImplements, HttpChatInvariant, PTL DEF Spec, ImplementsLog, Log!Spec
=============================================================================
