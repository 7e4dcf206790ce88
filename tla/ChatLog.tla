------------------------------ MODULE ChatLog ------------------------------
(***************************************************************************)
(* What the web chat promises: messages get numbers in the order in which  *)
(* they are accepted, and each reader is shown ever newer ones, none twice *)
(* and none out of order.  A reader may miss some.                         *)
(***************************************************************************)
EXTENDS Integers, Sequences

CONSTANT Client

VARIABLES
  posted,   \* how many messages have been accepted
  shown     \* [Client -> the numbers of the messages a reader was shown]

Newest(s) == IF s = <<>> THEN 0 ELSE s[Len(s)]
Block(a, b) == [k \in 1 .. b - a + 1 |-> a + k - 1]

Init == posted = 0 /\ shown = [c \in Client |-> <<>>]

Accept == posted' = posted + 1 /\ UNCHANGED shown

\* A reader is shown the messages a .. b, all of them newer than the last.
Read(c) ==
  /\ \E a, b \in 1 .. posted :
       /\ Newest(shown[c]) < a /\ a <= b
       /\ shown' = [shown EXCEPT ![c] = @ \o Block(a, b)]
  /\ UNCHANGED posted

Next == Accept \/ \E c \in Client : Read(c)
Spec == Init /\ [][Next]_<<posted, shown>>
=============================================================================
