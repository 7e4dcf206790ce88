------------------------------ MODULE P2PChat ------------------------------
(***************************************************************************)
(* udpchat.py: a chat without a server.  Every node floods the messages it *)
(* sees for the first time to its nearby users; a HELLO makes the          *)
(* neighbourhood mutual.  A node has two threads: "main" reads the         *)
(* commands, "receiver" handles one packet after the other, and both may   *)
(* add nearby users.  UDP packets get lost, duplicated and reordered.  A   *)
(* node is its address.                                                    *)
(***************************************************************************)
EXTENDS Integers, Sequences, FiniteSets, Relation

CONSTANTS
  Node,
  Within,       \* <<t, a>>: the text of address t is a part of the text of a
  Addable,      \* bound on the /add commands: <<n, t>>: n may add t
  MaxMessages,  \* bound on the lines that users send
  MaxFaults     \* bound on packets lost or duplicated, threads that die, and /quit
ASSUME WithinAssumption ==
  Within \subseteq Node \X Node /\ \A n \in Node : <<n, n>> \in Within
ASSUME BoundsAssumption ==
  Addable \subseteq Node \X Node /\ MaxMessages \in Nat /\ MaxFaults \in Nat
ASSUME NobodyAssumption == "nobody" \notin Node

VARIABLES
  nearby,    \* nearby_users
  known,     \* known_messages
  the_end,   \* the_end, set by /quit
  alive,     \* the threads of a node that no exception has ended
  adding,    \* in each thread: the user found new by add_nearby_user
  handling,  \* the packet in handle_incoming
  packets,   \* the packets on the way
  printed,   \* the messages printed, in order
  greeted,   \* history: [from, to]: the HELLOs sent
  origin,    \* history: the sender of each message, in order
  reach,     \* history: who was to be reached when the message was sent
  faults

nodeVars == <<nearby, known, the_end, alive, adding, handling, printed>>
sentVars == <<origin, reach>>
vars == <<nodeVars, packets, greeted, sentVars, faults>>

Thread == {"main", "receiver"}
Nobody == "nobody"
NoPacket == [type |-> "none"]
Hello(n, t) == [type |-> "HELLO", from |-> n, to |-> t]
Message(n, t, id, peers) ==
  [type |-> "MESSAGE", from |-> n, to |-> t, id |-> id, peers |-> peers]

Init ==
  /\ nearby = [n \in Node |-> {}] /\ known = [n \in Node |-> {}]
  /\ the_end = [n \in Node |-> FALSE]
  /\ alive = [n \in Node |-> Thread]
  /\ adding = [n \in Node |-> [th \in Thread |-> Nobody]]
  /\ handling = [n \in Node |-> NoPacket]
  /\ packets = {}
  /\ printed = [n \in Node |-> <<>>]
  /\ greeted = [p \in Node \X Node |-> 0]
  /\ origin = <<>> /\ reach = <<>>
  /\ faults = 0

Prompt(n) ==
  ~the_end[n] /\ "main" \in alive[n] /\ adding[n]["main"] = Nobody
Fault == faults < MaxFaults /\ faults' = faults + 1

\* Mutant: a message is not sent on.
TargetsOfOwn(n, exclude) == IF exclude = {} THEN nearby[n] ELSE {}

\* The loop of send_packet: "t in exclude", where exclude is an address and
\* not a set, asks for a part of a text.
Targets(n, exclude) == {t \in nearby[n] : \A a \in exclude : <<t, a>> \notin Within}

-----------------------------------------------------------------------------
\* /add with an address that is not known yet.
AddCommand(n, t) ==
  /\ Prompt(n) /\ t \notin nearby[n] /\ <<n, t>> \in Addable
  /\ adding' = [adding EXCEPT ![n]["main"] = t]
  /\ UNCHANGED <<nearby, known, the_end, alive, handling, printed,
                 packets, greeted, sentVars, faults>>

\* The packet in hand is done with, when it was only a HELLO.
DoneIfHello(n, th) ==
  handling' = IF th = "receiver" /\ handling[n].type = "HELLO"
              THEN [handling EXCEPT ![n] = NoPacket] ELSE handling

\* The rest of add_nearby_user, the other thread may have been faster.
AddNearbyUser(n, th) ==
  /\ th \in alive[n] /\ adding[n][th] # Nobody
  /\ LET t == adding[n][th]
     IN  /\ nearby' = [nearby EXCEPT ![n] = @ \cup {t}]
         /\ packets' = packets \cup {Hello(n, t)}
         /\ greeted' = [greeted EXCEPT ![<<n, t>>] = @ + 1]
  /\ adding' = [adding EXCEPT ![n][th] = Nobody]
  /\ DoneIfHello(n, th)
  /\ UNCHANGED <<known, the_end, alive, printed, sentVars, faults>>

\* sendto raises an exception: the thread is gone, and the user stays.
HelloFails(n, th) ==
  /\ th \in alive[n] /\ adding[n][th] # Nobody /\ Fault
  /\ nearby' = [nearby EXCEPT ![n] = @ \cup {adding[n][th]}]
  /\ alive' = [alive EXCEPT ![n] = @ \ {th}]
  /\ adding' = [adding EXCEPT ![n][th] = Nobody]
  /\ UNCHANGED <<known, the_end, handling, printed, packets, greeted, sentVars>>

\* Everybody whom n can reach over nearby users.
Reachable(n) ==
  LET edge == [p \in Node \X Node |-> p[2] \in nearby[p[1]]]
      path == TransitiveClosure(edge, Node)
  IN  {t \in Node : path[<<n, t>>]}

\* send_message, to some or all.  The id is not put among the known ones.
Say(n, targets) ==
  /\ Prompt(n) /\ Len(origin) < MaxMessages
  /\ LET id == Len(origin) + 1
     IN  packets' = packets \cup {Message(n, t, id, <<>>) : t \in targets}
  /\ origin' = Append(origin, n) /\ reach' = Append(reach, Reachable(n) \ {n})
  /\ UNCHANGED <<nearby, known, the_end, adding, handling, printed, greeted>>

SendMessage(n) == Say(n, Targets(n, {})) /\ UNCHANGED <<alive, faults>>

\* sendto raises an exception after some of the targets: main catches only a
\* KeyboardInterrupt, and the receiver goes on without it.
SendMessageFails(n) ==
  /\ \E targets \in (SUBSET Targets(n, {})) \ {Targets(n, {})} : Say(n, targets)
  /\ Fault /\ alive' = [alive EXCEPT ![n] = @ \ {"main"}]

\* /quit: no more commands and, once the packet in hand is done, no packets.
Quit(n) ==
  /\ Prompt(n) /\ Fault
  /\ the_end' = [the_end EXCEPT ![n] = TRUE]
  /\ UNCHANGED <<nearby, known, alive, adding, handling, printed,
                 packets, greeted, sentVars>>

-----------------------------------------------------------------------------
\* Mutants: every HELLO is answered; only a message makes a stranger known.
TakeAndGreet(n, p) ==
  /\ p.to = n /\ handling[n] = NoPacket
  /\ ~the_end[n] /\ "receiver" \in alive[n]
  /\ adding' = [adding EXCEPT ![n]["receiver"] = p.from]
  /\ handling' = [handling EXCEPT ![n] = p]
  /\ UNCHANGED <<nearby, known, the_end, alive, printed, greeted, sentVars>>

TakeHelloIgnored(n, p) ==
  /\ p.to = n /\ handling[n] = NoPacket
  /\ ~the_end[n] /\ "receiver" \in alive[n]
  /\ LET new == p.from \notin nearby[n] /\ p.type = "MESSAGE"
     IN  /\ adding' = [adding EXCEPT ![n]["receiver"] = IF new THEN p.from ELSE Nobody]
         /\ handling' = [handling EXCEPT ![n] = IF p.type = "HELLO" THEN NoPacket ELSE p]
  /\ UNCHANGED <<nearby, known, the_end, alive, printed, greeted, sentVars>>

\* The receiver takes a packet.  An unknown sender is added first; a HELLO of
\* a known one is done at once.
Take(n, p) ==
  /\ p.to = n /\ handling[n] = NoPacket
  /\ ~the_end[n] /\ "receiver" \in alive[n]
  /\ LET new == p.from \notin nearby[n]
     IN  /\ adding' = [adding EXCEPT ![n]["receiver"] = IF new THEN p.from ELSE Nobody]
         /\ handling' = [handling EXCEPT ![n] =
                           IF p.type = "HELLO" /\ ~new THEN NoPacket ELSE p]
  /\ UNCHANGED <<nearby, known, the_end, alive, printed, greeted, sentVars>>

Receive(n) ==
  \E p \in packets : Take(n, p) /\ packets' = packets \ {p} /\ UNCHANGED faults

\* The network keeps a copy of the packet.
ReceiveCopy(n) ==
  \E p \in packets : Take(n, p) /\ Fault /\ UNCHANGED packets

Lose ==
  /\ \E p \in packets : packets' = packets \ {p}
  /\ Fault /\ UNCHANGED <<nodeVars, greeted, sentVars>>

InHand(n) ==
  /\ "receiver" \in alive[n] /\ adding[n]["receiver"] = Nobody
  /\ handling[n].type = "MESSAGE"
Done(n) == handling' = [handling EXCEPT ![n] = NoPacket]

\* Mutant: the receiver does not come back from a message it knows.
KnownMessageStays(n) ==
  InHand(n) /\ handling[n].id \in known[n] /\ UNCHANGED vars

KnownMessage(n) ==
  /\ InHand(n) /\ handling[n].id \in known[n] /\ Done(n)
  /\ UNCHANGED <<nearby, known, the_end, alive, adding, printed,
                 packets, greeted, sentVars, faults>>

\* A new message is remembered, printed and sent on, to some or all.
Forward(n, targets) ==
  /\ InHand(n) /\ handling[n].id \notin known[n]
  /\ LET p == handling[n]
     IN  /\ known' = [known EXCEPT ![n] = @ \cup {p.id}]
         /\ printed' = [printed EXCEPT ![n] = Append(@, p.id)]
         /\ packets' = packets \cup
              {Message(n, t, p.id, Append(p.peers, p.from)) : t \in targets}
  /\ UNCHANGED <<nearby, the_end, adding, greeted, sentVars>>

\* Mutants: the message is not remembered; the node puts its own address on it.
NewMessageForgotten(n) ==
  /\ InHand(n) /\ Done(n) /\ handling[n].id \notin known[n]
  /\ LET p == handling[n]
     IN  /\ printed' = [printed EXCEPT ![n] = Append(@, p.id)]
         /\ packets' = packets \cup
              {Message(n, t, p.id, Append(p.peers, p.from)) : t \in Targets(n, {p.from})}
  /\ UNCHANGED <<nearby, known, the_end, alive, adding, greeted, sentVars, faults>>

NewMessageSigned(n) ==
  /\ InHand(n) /\ Done(n) /\ handling[n].id \notin known[n]
  /\ LET p == handling[n]
     IN  /\ known' = [known EXCEPT ![n] = @ \cup {p.id}]
         /\ printed' = [printed EXCEPT ![n] = Append(@, p.id)]
         /\ packets' = packets \cup
              {Message(n, t, p.id, Append(p.peers, n)) : t \in Targets(n, {p.from})}
  /\ UNCHANGED <<nearby, the_end, alive, adding, greeted, sentVars, faults>>

NewMessage(n) ==
  Forward(n, Targets(n, {handling[n].from})) /\ Done(n) /\ UNCHANGED <<alive, faults>>

\* sendto raises an exception after some of the targets.
ForwardFails(n) ==
  /\ handling[n] # NoPacket
  /\ LET all == Targets(n, {handling[n].from})
     IN  \E targets \in (SUBSET all) \ {all} : Forward(n, targets)
  /\ Fault /\ alive' = [alive EXCEPT ![n] = @ \ {"receiver"}]
  /\ UNCHANGED handling

ReceiverStep(n) ==
  Receive(n) \/ KnownMessage(n) \/ NewMessage(n) \/ AddNearbyUser(n, "receiver")

Next ==
  \/ Lose
  \/ \E n \in Node :
       \/ \E t \in Node : AddCommand(n, t)
       \/ \E th \in Thread : AddNearbyUser(n, th) \/ HelloFails(n, th)
       \/ SendMessage(n) \/ SendMessageFails(n) \/ Quit(n)
       \/ Receive(n) \/ ReceiveCopy(n) \/ KnownMessage(n) \/ NewMessage(n) \/ ForwardFails(n)

Spec == Init /\ [][Next]_vars

\* Threads go on, and a packet that is not lost comes in.  Users owe nothing.
FairSpec ==
  /\ Spec
  /\ \A n \in Node : WF_vars(AddNearbyUser(n, "main")) /\ WF_vars(ReceiverStep(n))

-----------------------------------------------------------------------------
Id == 1 .. MaxMessages
Packet ==
  [type : {"HELLO"}, from : Node, to : Node] \cup
  [type : {"MESSAGE"}, from : Node, to : Node, id : Id, peers : Seq(Node)]

TypeOK ==
  /\ nearby \in [Node -> SUBSET Node] /\ known \in [Node -> SUBSET Id]
  /\ the_end \in [Node -> BOOLEAN] /\ alive \in [Node -> SUBSET Thread]
  /\ adding \in [Node -> [Thread -> Node \cup {Nobody}]]
  /\ handling \in [Node -> Packet \cup {NoPacket}]
  /\ packets \subseteq Packet
  /\ printed \in [Node -> Seq(Id)]
  /\ greeted \in [Node \X Node -> Nat]
  /\ origin \in Seq(Node) /\ reach \in Seq(SUBSET Node)
  /\ faults \in Nat

\* A user reads no message twice, whatever way and however often it comes.
PrintedOnce ==
  \A n \in Node : \A i, j \in 1 .. Len(printed[n]) :
    printed[n][i] = printed[n][j] => i = j

\* No message goes through a node twice, but for its sender: it does not know
\* its own message and takes part in the flood like everybody else.
Times(n, peers) == Cardinality({k \in 1 .. Len(peers) : peers[k] = n})
RoutesHaveNoLoops ==
  \A p \in packets : p.type = "MESSAGE" =>
    /\ \A n \in Node : Times(n, Append(p.peers, p.from)) <= IF n = origin[p.id] THEN 2 ELSE 1
    /\ Append(p.peers, p.from)[1] = origin[p.id]

\* Nobody is greeted more than once by each thread of a node, although every
\* HELLO of a stranger is answered with one.
GreetedOncePerThread == \A p \in Node \X Node : greeted[p] <= 2

Deaf(n) == the_end[n] \/ "receiver" \notin alive[n]

\* The flood and the greetings end: all that is left is for nodes that are gone.
FloodEnds == <>[](\A p \in packets : Deaf(p.to))

\* In the end neighbourhood is mutual, unless a packet is lost or a node gone.
BecomesMutual ==
  <>[](faults = 0 => \A n \in Node : \A t \in nearby[n] : n \in nearby[t])

\* In the end all those print a message whom its sender could reach when it
\* sent it, unless a packet is lost or a node gone.
EverybodyReached ==
  <>[](faults = 0 => \A id \in 1 .. Len(reach) : \A t \in reach[id] :
                       \E i \in 1 .. Len(printed[t]) : printed[t][i] = id)

\* A message goes on "to all nodes but those of the set exclude" (comment at
\* udpchat.py:222-223): to all nearby users but the one it came from.
ForwardsToAllButSender ==
  [][\A n \in Node : printed'[n] # printed[n] /\ faults' = faults =>
       \A t \in nearby[n] \ {handling[n].from} :
         \E p \in packets' : p.type = "MESSAGE" /\ p.from = n /\ p.to = t
                             /\ p.id = handling[n].id]_vars
=============================================================================
