--------------------------- MODULE P2PChat_proofs ---------------------------
(***************************************************************************)
(* Proofs about the P2P chat, for any nodes, any neighbourhood, any number *)
(* of messages and any faults: losses, copies, reordering, threads that    *)
(* die.  What has been printed is known; a pair of nodes that is not yet   *)
(* acquainted has not been greeted; whoever has passed a message on, but   *)
(* for its sender, knows it.                                               *)
(***************************************************************************)
EXTENDS P2PChat, FiniteSetTheorems, TLAPS

-----------------------------------------------------------------------------
\* A node sends to its nearby users only.
LEMMA TargetsAreNearby ==
  ASSUME NEW n, NEW exclude PROVE Targets(n, exclude) \subseteq nearby[n]
BY DEF Targets

LEMMA PacketTypes ==
  /\ \A n, t \in Node : Hello(n, t) \in Packet
  /\ \A n, t \in Node : \A id \in Id : \A peers \in Seq(Node) : Message(n, t, id, peers) \in Packet
  /\ NoPacket \notin Packet
  /\ \A p \in Packet :
       /\ p.from \in Node /\ p.to \in Node /\ p.type \in {"HELLO", "MESSAGE"}
       /\ p.type = "MESSAGE" => p.id \in Id /\ p.peers \in Seq(Node)
<1>1. \A n, t \in Node : Hello(n, t) \in Packet
  BY DEF Hello, Packet
<1>2. \A n, t \in Node : \A id \in Id : \A peers \in Seq(Node) : Message(n, t, id, peers) \in Packet
  BY DEF Message, Packet
<1>3. \A p \in Packet :
       /\ p.from \in Node /\ p.to \in Node /\ p.type \in {"HELLO", "MESSAGE"}
       /\ p.type = "MESSAGE" => p.id \in Id /\ p.peers \in Seq(Node)
  BY DEF Packet
<1>4. NoPacket \notin Packet
  BY <1>3 DEF NoPacket
<1> QED BY <1>1, <1>2, <1>3, <1>4

LEMMA TypeInit == Init => TypeOK
BY DEF Init, TypeOK, Thread, Nobody, NoPacket

LEMMA TypeStep == TypeOK /\ [Next]_vars => TypeOK'
<1> SUFFICES ASSUME TypeOK, [Next]_vars PROVE TypeOK'
  OBVIOUS
<1> USE BoundsAssumption DEF TypeOK, sentVars
<1>1. ASSUME NEW n \in Node, NEW t \in Node, AddCommand(n, t) PROVE TypeOK'
  BY <1>1 DEF AddCommand, Thread
<1>2. ASSUME NEW n \in Node, NEW th \in Thread, AddNearbyUser(n, th) PROVE TypeOK'
  <2>1. adding[n][th] \in Node
    BY <1>2 DEF AddNearbyUser
  <2>2. Hello(n, adding[n][th]) \in Packet
    BY <2>1, PacketTypes
  <2>3. handling' \in [Node -> Packet \cup {NoPacket}]
    BY <1>2 DEF AddNearbyUser, DoneIfHello
  <2>4. greeted' \in [Node \X Node -> Nat]
    BY <1>2, <2>1 DEF AddNearbyUser
  <2>5. nearby' \in [Node -> SUBSET Node] /\ packets' \subseteq Packet
    BY <1>2, <2>1, <2>2 DEF AddNearbyUser
  <2> QED BY <1>2, <2>3, <2>4, <2>5 DEF AddNearbyUser
<1>3. ASSUME NEW n \in Node, NEW th \in Thread, HelloFails(n, th) PROVE TypeOK'
  BY <1>3 DEF HelloFails, Fault
<1>4. ASSUME NEW n \in Node, NEW targets \in SUBSET Targets(n, {}), Say(n, targets),
             alive' \in [Node -> SUBSET Thread], faults' \in Nat
      PROVE TypeOK'
  <2>1. Len(origin) + 1 \in Id
    BY <1>4 DEF Say, Id
  <2>2. \A t \in targets : Message(n, t, Len(origin) + 1, <<>>) \in Packet
    <3>1. Targets(n, {}) \subseteq Node /\ <<>> \in Seq(Node)
      BY TargetsAreNearby
    <3> QED BY <2>1, <3>1, PacketTypes
  <2>3. packets' \subseteq Packet
    BY <1>4, <2>2 DEF Say
  <2>4. origin' \in Seq(Node)
    BY <1>4 DEF Say
  <2>5. Reachable(n) \ {n} \subseteq Node
    BY DEF Reachable
  <2>6. reach' \in Seq(SUBSET Node)
    BY <1>4, <2>5 DEF Say
  <2> QED BY <1>4, <2>3, <2>4, <2>6 DEF Say
<1>5. ASSUME NEW n \in Node, Quit(n) PROVE TypeOK'
  BY <1>5 DEF Quit, Fault
<1>6. ASSUME NEW n \in Node, NEW p \in packets, Take(n, p),
             packets' \subseteq packets, faults' \in Nat
      PROVE TypeOK'
  <2>1. p \in Packet /\ p.from \in Node
    BY PacketTypes
  <2> QED BY <1>6, <2>1 DEF Take, Thread
<1>7. ASSUME NEW n \in Node, Receive(n) PROVE TypeOK'
  <2>1. PICK p \in packets : Take(n, p) /\ packets' = packets \ {p} /\ UNCHANGED faults
    BY <1>7 DEF Receive
  <2> QED BY <1>6, <2>1
<1>8. ASSUME NEW n \in Node, ReceiveCopy(n) PROVE TypeOK'
  <2>1. PICK p \in packets : Take(n, p) /\ Fault /\ UNCHANGED packets
    BY <1>8 DEF ReceiveCopy
  <2>2. packets' \subseteq packets /\ faults' \in Nat
    BY <2>1 DEF Fault
  <2> QED BY <1>6, <2>1, <2>2
<1>9. ASSUME NEW n \in Node, KnownMessage(n) PROVE TypeOK'
  BY <1>9 DEF KnownMessage, Done
<1>10. ASSUME NEW n \in Node, NEW targets \in SUBSET nearby[n], Forward(n, targets),
              handling' \in [Node -> Packet \cup {NoPacket}],
              alive' \in [Node -> SUBSET Thread], faults' \in Nat
       PROVE TypeOK'
  <2>1. handling[n].type = "MESSAGE"
    BY <1>10 DEF Forward, InHand
  <2>2. handling[n] \in Packet
    BY <2>1 DEF NoPacket
  <2>3. /\ handling[n].id \in Id /\ handling[n].from \in Node
        /\ Append(handling[n].peers, handling[n].from) \in Seq(Node)
    BY <2>1, <2>2, PacketTypes
  <2>4. \A t \in targets :
          Message(n, t, handling[n].id, Append(handling[n].peers, handling[n].from)) \in Packet
    BY <2>3, PacketTypes
  <2>5. packets' \subseteq Packet
    BY <1>10, <2>4 DEF Forward
  <2>6. known' \in [Node -> SUBSET Id] /\ printed' \in [Node -> Seq(Id)]
    BY <1>10, <2>3 DEF Forward
  <2> QED BY <1>10, <2>5, <2>6 DEF Forward
<1>11. ASSUME NEW n \in Node, NewMessage(n) PROVE TypeOK'
  <2>1. /\ Targets(n, {handling[n].from}) \in SUBSET nearby[n]
        /\ Forward(n, Targets(n, {handling[n].from}))
    BY <1>11, TargetsAreNearby DEF NewMessage
  <2>2. /\ handling' \in [Node -> Packet \cup {NoPacket}]
        /\ alive' \in [Node -> SUBSET Thread] /\ faults' \in Nat
    BY <1>11 DEF NewMessage, Done
  <2> QED BY <1>10, <2>1, <2>2
<1>12. ASSUME NEW n \in Node, ForwardFails(n) PROVE TypeOK'
  <2>1. PICK targets \in SUBSET Targets(n, {handling[n].from}) : Forward(n, targets)
    BY <1>12 DEF ForwardFails
  <2>2. targets \in SUBSET nearby[n]
    BY <2>1, TargetsAreNearby
  <2>3. /\ handling' \in [Node -> Packet \cup {NoPacket}]
        /\ alive' \in [Node -> SUBSET Thread] /\ faults' \in Nat
    BY <1>12 DEF ForwardFails, Fault
  <2> QED BY <1>10, <2>1, <2>2, <2>3
<1>13. CASE Lose
  BY <1>13 DEF Lose, Fault, nodeVars
<1>14. CASE UNCHANGED vars
  BY <1>14 DEF vars, nodeVars
<1>15. ASSUME NEW n \in Node, SendMessage(n) \/ SendMessageFails(n) PROVE TypeOK'
  <2>1. PICK targets \in SUBSET Targets(n, {}) : Say(n, targets)
    BY <1>15 DEF SendMessage, SendMessageFails
  <2>2. \/ UNCHANGED <<alive, faults>>
        \/ faults' = faults + 1 /\ alive' = [alive EXCEPT ![n] = @ \ {"main"}]
    BY <1>15 DEF SendMessage, SendMessageFails, Fault
  <2>3. faults' \in Nat
    BY <2>2
  <2>4. alive[n] \ {"main"} \in SUBSET Thread
    OBVIOUS
  <2>5. alive' \in [Node -> SUBSET Thread]
    BY <2>2, <2>4
  <2> QED BY <1>4, <2>1, <2>3, <2>5
<1> QED
  BY <1>1, <1>2, <1>3, <1>5, <1>7, <1>8, <1>9, <1>11, <1>12, <1>13, <1>14, <1>15 DEF Next

\* Packets, threads and users have the types that udpchat.py gives them.
THEOREM ChatTypes == Spec => []TypeOK
<1>1. TypeOK /\ [Next]_vars => TypeOK'
  BY TypeStep
<1> QED BY <1>1, TypeInit, PTL DEF Spec

-----------------------------------------------------------------------------
\* What has been printed is known, and no two lines of it are the same.
PrintedIsKnown ==
  \A n \in Node : \A i \in 1 .. Len(printed[n]) : printed[n][i] \in known[n]
PrintInv == TypeOK /\ PrintedIsKnown /\ PrintedOnce

LEMMA PrintStep == PrintInv /\ [Next]_vars => PrintInv'
<1> SUFFICES ASSUME PrintInv, [Next]_vars PROVE PrintInv'
  OBVIOUS
<1>1. TypeOK /\ TypeOK'
  BY TypeStep DEF PrintInv
<1>2. ASSUME NEW n \in Node, NEW targets, Forward(n, targets) PROVE PrintedIsKnown' /\ PrintedOnce'
  <2> DEFINE id == handling[n].id
  <2>1. /\ printed' = [printed EXCEPT ![n] = Append(@, id)]
        /\ known' = [known EXCEPT ![n] = @ \cup {id}] /\ id \notin known[n]
    BY <1>2 DEF Forward
  <2>2. /\ printed[n] \in Seq(Id) /\ printed'[n] \in Seq(Id)
        /\ printed'[n] = Append(printed[n], id) /\ known'[n] = known[n] \cup {id}
    BY <1>1, <2>1 DEF TypeOK
  <2>3. Len(printed'[n]) = Len(printed[n]) + 1 /\ printed'[n][Len(printed[n]) + 1] = id
    BY <2>2
  <2>4. \A i \in 1 .. Len(printed[n]) : printed'[n][i] = printed[n][i] /\ printed[n][i] \in known[n]
    BY <2>2 DEF PrintInv, PrintedIsKnown
  <2>5. \A i \in 1 .. Len(printed'[n]) : printed'[n][i] \in known'[n]
    BY <2>2, <2>3, <2>4
  <2>6. \A i, j \in 1 .. Len(printed'[n]) : printed'[n][i] = printed'[n][j] => i = j
    BY <2>1, <2>2, <2>3, <2>4 DEF PrintInv, PrintedOnce
  <2>7. \A m \in Node \ {n} : printed'[m] = printed[m] /\ known'[m] = known[m]
    BY <1>1, <2>1 DEF TypeOK
  <2> QED BY <2>5, <2>6, <2>7 DEF PrintInv, PrintedIsKnown, PrintedOnce
<1>3. ASSUME UNCHANGED <<printed, known>> PROVE PrintedIsKnown' /\ PrintedOnce'
  BY <1>3 DEF PrintInv, PrintedIsKnown, PrintedOnce
<1>4. \/ UNCHANGED <<printed, known>> \/ \E n \in Node : \E targets : Forward(n, targets)
  <2>1. ASSUME NEW n \in Node, NewMessage(n) \/ ForwardFails(n)
        PROVE \E targets : Forward(n, targets)
    BY <2>1 DEF NewMessage, ForwardFails
  <2>2. ASSUME NEW n \in Node, Receive(n) \/ ReceiveCopy(n) PROVE UNCHANGED <<printed, known>>
    BY <2>2 DEF Receive, ReceiveCopy, Take
  <2>3. ASSUME NEW n \in Node, NEW th \in Thread, AddNearbyUser(n, th) \/ HelloFails(n, th)
        PROVE UNCHANGED <<printed, known>>
    BY <2>3 DEF AddNearbyUser, HelloFails
  <2>4. ASSUME NEW n \in Node,
               \/ SendMessage(n) \/ SendMessageFails(n) \/ Quit(n) \/ KnownMessage(n)
               \/ \E t \in Node : AddCommand(n, t)
        PROVE UNCHANGED <<printed, known>>
    BY <2>4 DEF SendMessage, SendMessageFails, Say, Quit, KnownMessage, AddCommand, nodeVars
  <2>5. Lose \/ UNCHANGED vars => UNCHANGED <<printed, known>>
    BY DEF Lose, vars, nodeVars
  <2> QED BY <2>1, <2>2, <2>3, <2>4, <2>5 DEF Next
<1> QED BY <1>1, <1>2, <1>3, <1>4 DEF PrintInv

\* A user reads no message twice (handle_incoming prints what it did not know
\* and remembers it at once), whatever the network does.
THEOREM NobodyReadsTwice == Spec => []PrintedOnce
<1>1. Init => PrintInv
  BY TypeInit DEF Init, PrintInv, PrintedIsKnown, PrintedOnce
<1>2. PrintInv /\ [Next]_vars => PrintInv'
  BY PrintStep
<1>3. PrintInv => PrintedOnce
  BY DEF PrintInv
<1> QED BY <1>1, <1>2, <1>3, PTL DEF Spec

-----------------------------------------------------------------------------
\* A thread is about to add t and to greet it.
Busy(n, th, t) == IF adding[n][th] = t THEN 1 ELSE 0

GreetedEnough(n, t) ==
  /\ greeted[<<n, t>>] + Busy(n, "main", t) + Busy(n, "receiver", t) <= 2
  /\ t \notin nearby[n] => greeted[<<n, t>>] = 0
GreetInv == TypeOK /\ \A n, t \in Node : GreetedEnough(n, t)

LEMMA GreetStep == GreetInv /\ [Next]_vars => GreetInv'
<1> SUFFICES ASSUME GreetInv, [Next]_vars, NEW m \in Node, NEW u \in Node PROVE GreetedEnough(m, u)'
  BY TypeStep DEF GreetInv
<1>1. TypeOK /\ GreetedEnough(m, u)
  BY DEF GreetInv
<1>2. ASSUME UNCHANGED <<greeted, adding, nearby>> PROVE GreetedEnough(m, u)'
  BY <1>1, <1>2 DEF GreetedEnough, Busy
<1> USE NobodyAssumption DEF TypeOK, Thread, Nobody, GreetedEnough, Busy
<1>3. ASSUME NEW n \in Node, NEW t \in Node, AddCommand(n, t) PROVE GreetedEnough(m, u)'
  BY <1>1, <1>3 DEF AddCommand, Prompt
<1>4. ASSUME NEW n \in Node, NEW th \in Thread, AddNearbyUser(n, th) PROVE GreetedEnough(m, u)'
  <2>1. adding[n][th] \in Node
    BY <1>1, <1>4 DEF AddNearbyUser
  <2>2. CASE m = n /\ u = adding[n][th]
    BY <1>1, <1>4, <2>1, <2>2 DEF AddNearbyUser
  <2>3. CASE ~(m = n /\ u = adding[n][th])
    <3>1. greeted'[<<m, u>>] = greeted[<<m, u>>]
      BY <1>1, <1>4, <2>1, <2>3 DEF AddNearbyUser
    <3> QED BY <1>1, <1>4, <2>1, <2>3, <3>1 DEF AddNearbyUser
  <2> QED BY <2>2, <2>3
<1>5. ASSUME NEW n \in Node, NEW th \in Thread, HelloFails(n, th) PROVE GreetedEnough(m, u)'
  BY <1>1, <1>5 DEF HelloFails
<1>6. ASSUME NEW n \in Node, NEW p \in packets, Take(n, p) PROVE GreetedEnough(m, u)'
  <2>1. p.from \in Node
    BY <1>1, PacketTypes
  <2> QED BY <1>1, <1>6, <2>1 DEF Take
<1>7. ASSUME NEW n \in Node, NewMessage(n) \/ ForwardFails(n) PROVE GreetedEnough(m, u)'
  BY <1>2, <1>7 DEF NewMessage, ForwardFails, Forward
<1>8. ASSUME NEW n \in Node, SendMessage(n) \/ SendMessageFails(n) \/ Quit(n) \/ KnownMessage(n)
      PROVE GreetedEnough(m, u)'
  BY <1>2, <1>8 DEF SendMessage, SendMessageFails, Say, Quit, KnownMessage, nodeVars
<1>9. CASE Lose \/ UNCHANGED vars
  BY <1>2, <1>9 DEF Lose, vars, nodeVars
<1> QED
  BY <1>3, <1>4, <1>5, <1>6, <1>7, <1>8, <1>9 DEF Next, Receive, ReceiveCopy

\* The two threads of a node may both find a user new in add_nearby_user, but
\* no more than the two of them; a greeting is not answered for ever.
THEOREM GreetingsEnd == Spec => []GreetedOncePerThread
<1>1. Init => GreetInv
  BY TypeInit, NobodyAssumption DEF Init, GreetInv, GreetedEnough, Busy, Thread, Nobody
<1>2. GreetInv /\ [Next]_vars => GreetInv'
  BY GreetStep
<1>3. GreetInv => GreetedOncePerThread
  <2> SUFFICES ASSUME GreetInv, NEW n \in Node, NEW t \in Node PROVE greeted[<<n, t>>] <= 2
    BY DEF GreetedOncePerThread
  <2>1. greeted[<<n, t>>] \in Nat
    BY DEF GreetInv, TypeOK
  <2>2. Busy(n, "main", t) \in {0, 1} /\ Busy(n, "receiver", t) \in {0, 1}
    BY DEF Busy
  <2>3. greeted[<<n, t>>] + Busy(n, "main", t) + Busy(n, "receiver", t) <= 2
    BY DEF GreetInv, GreetedEnough
  <2> QED BY <2>1, <2>2, <2>3
<1> QED BY <1>1, <1>2, <1>3, PTL DEF Spec

-----------------------------------------------------------------------------
\* The nodes that a message has gone through.
Route(p) == Append(p.peers, p.from)

RouteFits(p) ==
  /\ p.id \in 1 .. Len(origin) /\ Route(p)[1] = origin[p.id]
  /\ \A k \in 2 .. Len(Route(p)) : p.id \in known[Route(p)[k]]
  /\ \A j, k \in 2 .. Len(Route(p)) : Route(p)[j] = Route(p)[k] => j = k
InTransit == packets \cup {handling[n] : n \in Node}
RouteInv == TypeOK /\ \A p \in InTransit : p.type = "MESSAGE" => RouteFits(p)

\* Only the first may be there a second time.
LEMMA TimesBound ==
  ASSUME NEW s \in Seq(Node), NEW n,
         \A j, k \in 2 .. Len(s) : s[j] = s[k] => j = k
  PROVE  Times(n, s) <= IF n = s[1] THEN 2 ELSE 1
<1> DEFINE T == {k \in 1 .. Len(s) : s[k] = n}
<1>1. Times(n, s) = Cardinality(T)
  BY DEF Times
<1> HIDE DEF T
<1>2. \A k : IsFiniteSet({k}) /\ Cardinality({k}) = 1
  BY FS_Singleton
<1>3. CASE \E k \in 2 .. Len(s) : s[k] = n
  <2>1. PICK k \in 2 .. Len(s) : s[k] = n
    BY <1>3
  <2>2. CASE n = s[1]
    <3>1. T = {1} \cup {k}
      BY <2>1, <2>2 DEF T
    <3>2. k \notin {1}
      BY <2>1
    <3>3. Cardinality({1} \cup {k}) = Cardinality({1}) + 1
      BY <1>2, <3>2, FS_AddElement
    <3>4. Cardinality({1}) = 1
      BY <1>2
    <3>5. Cardinality({1} \cup {k}) = 2
      BY <3>3, <3>4
    <3>6. Times(n, s) = 2
      BY <1>1, <3>1, <3>5
    <3> QED BY <2>2, <3>6
  <2>3. CASE n # s[1]
    <3>1. T = {k}
      BY <2>1, <2>3 DEF T
    <3>2. Cardinality(T) = 1
      BY <1>2, <3>1
    <3> QED BY <1>1, <2>3, <3>2
  <2> QED BY <2>2, <2>3
<1>4. CASE ~\E k \in 2 .. Len(s) : s[k] = n
  <2>1. T \subseteq {1} /\ (1 \in T => n = s[1])
    BY <1>4 DEF T
  <2>2. Cardinality(T) = IF 1 \in T THEN 1 ELSE 0
    <3>1. T = IF 1 \in T THEN {1} ELSE {}
      BY <2>1
    <3>2. Cardinality({}) = 0 /\ Cardinality({1}) = 1
      BY <1>2, FS_EmptySet
    <3> QED BY <3>1, <3>2
  <2> QED BY <1>1, <2>1, <2>2
<1> QED BY <1>3, <1>4

\* Nodes get to know more messages and more messages are sent, and what has been
\* said of a packet stays true.
LEMMA RouteStillFits ==
  ASSUME TypeOK, NEW p \in Packet, p.type = "MESSAGE", RouteFits(p),
         \A n \in Node : known[n] \subseteq known'[n],
         origin' \in Seq(Node), Len(origin) <= Len(origin'),
         \A i \in 1 .. Len(origin) : origin'[i] = origin[i]
  PROVE  RouteFits(p)'
<1>1. Route(p) \in Seq(Node)
  BY PacketTypes DEF Route
<1>2. \A k \in 2 .. Len(Route(p)) : Route(p)[k] \in Node
  BY <1>1
<1>3. Route(p)' = Route(p)
  BY DEF Route
<1>4. p.id \in 1 .. Len(origin') /\ Route(p)[1] = origin'[p.id]
  BY DEF RouteFits, TypeOK
<1>5. \A k \in 2 .. Len(Route(p)) : p.id \in known'[Route(p)[k]]
  BY <1>2 DEF RouteFits
<1> QED BY <1>3, <1>4, <1>5 DEF RouteFits

\* Packets that a step leaves, or only takes in.
LEMMA RoutesKept ==
  ASSUME RouteInv, TypeOK',
         InTransit' \subseteq InTransit \cup {NoPacket}, UNCHANGED <<known, origin>>
  PROVE  RouteInv'
<1> SUFFICES ASSUME NEW p \in InTransit', p.type = "MESSAGE" PROVE RouteFits(p)'
  BY DEF RouteInv
<1>1. p \in InTransit
  BY DEF NoPacket
<1> QED BY <1>1 DEF RouteInv, RouteFits, Route

LEMMA RouteStep == RouteInv /\ [Next]_vars => RouteInv'
<1> SUFFICES ASSUME RouteInv, [Next]_vars PROVE RouteInv'
  OBVIOUS
<1>1. TypeOK /\ TypeOK'
  BY TypeStep DEF RouteInv
<1>2. \A p \in InTransit : p.type = "MESSAGE" => p \in Packet /\ RouteFits(p)
  BY <1>1 DEF RouteInv, InTransit, TypeOK, NoPacket
<1>3. ASSUME NEW n \in Node, NEW targets, Say(n, targets) PROVE RouteInv'
  <2> SUFFICES ASSUME NEW p \in InTransit', p.type = "MESSAGE" PROVE RouteFits(p)'
    BY <1>1 DEF RouteInv
  <2>1. origin' = Append(origin, n) /\ UNCHANGED <<known, handling>>
    BY <1>3 DEF Say
  <2>2. /\ origin' \in Seq(Node) /\ Len(origin') = Len(origin) + 1 /\ origin'[Len(origin) + 1] = n
        /\ \A i \in 1 .. Len(origin) : origin'[i] = origin[i]
    BY <1>1, <2>1 DEF TypeOK
  <2>3. CASE p \in InTransit
    BY <1>1, <1>2, <2>1, <2>2, <2>3, RouteStillFits DEF TypeOK
  <2>4. CASE p \notin InTransit
    <3>1. PICK t : p = Message(n, t, Len(origin) + 1, <<>>)
      BY <1>3, <2>1, <2>4 DEF Say, InTransit
    <3>2. Route(p)' = <<n>> /\ p.id = Len(origin) + 1
      BY <3>1 DEF Message, Route
    <3> QED BY <1>1, <2>2, <3>2 DEF RouteFits, TypeOK
  <2> QED BY <2>3, <2>4
<1>4. ASSUME NEW n \in Node, NEW targets, Forward(n, targets),
             handling' = handling \/ handling' = [handling EXCEPT ![n] = NoPacket]
      PROVE RouteInv'
  <2> DEFINE q == handling[n]
  <2>1. q.type = "MESSAGE" /\ q.id \notin known[n] /\ q \in InTransit
    BY <1>4 DEF Forward, InHand, InTransit
  <2>2. RouteFits(q) /\ q.id \in Id /\ q.peers \in Seq(Node) /\ q.from \in Node
    BY <1>2, <2>1, PacketTypes
  <2>3. /\ known' = [known EXCEPT ![n] = @ \cup {q.id}] /\ UNCHANGED origin
        /\ packets' = packets \cup {Message(n, t, q.id, Append(q.peers, q.from)) : t \in targets}
    BY <1>4 DEF Forward, sentVars
  <2>4. \A m \in Node : known[m] \subseteq known'[m]
    BY <1>1, <2>3 DEF TypeOK
  <2> SUFFICES ASSUME NEW p \in InTransit', p.type = "MESSAGE" PROVE RouteFits(p)'
    BY <1>1 DEF RouteInv
  <2>5. CASE p \in InTransit
    BY <1>1, <1>2, <2>3, <2>4, <2>5, RouteStillFits DEF TypeOK
  <2>6. CASE p \notin InTransit
    <3>1. \A m \in Node : handling'[m] \in {handling[m], NoPacket}
      BY <1>1, <1>4 DEF TypeOK
    <3>2. p \notin {handling'[m] : m \in Node}
      BY <2>6, <3>1 DEF InTransit, NoPacket
    <3>3. PICK t \in targets : p = Message(n, t, q.id, Append(q.peers, q.from))
      BY <2>3, <2>6, <3>2 DEF InTransit
    <3>4. p.id = q.id /\ Route(p)' = Append(Route(q), n)
      BY <3>3 DEF Message, Route
    <3> DEFINE s == Route(q)
    <3>5. s \in Seq(Node) /\ Len(s) \in Nat /\ Len(s) >= 1
      BY <2>2 DEF Route
    <3>6. /\ Len(Append(s, n)) = Len(s) + 1 /\ Append(s, n)[Len(s) + 1] = n
          /\ \A k \in 1 .. Len(s) : Append(s, n)[k] = s[k] /\ s[k] \in Node
      BY <3>5
    <3>7. /\ q.id \in 1 .. Len(origin) /\ s[1] = origin[q.id]
          /\ \A k \in 2 .. Len(s) : q.id \in known[s[k]]
          /\ \A j, k \in 2 .. Len(s) : s[j] = s[k] => j = k
      BY <2>2 DEF RouteFits
    <3>8. \A k \in 2 .. Len(s) : s[k] # n
      BY <2>1, <3>7
    <3>9. q.id \in known'[n]
      BY <1>1, <2>3 DEF TypeOK
    <3>10. \A k \in 2 .. Len(Append(s, n)) : q.id \in known'[Append(s, n)[k]]
      BY <2>4, <3>5, <3>6, <3>7, <3>9
    <3>11. \A j, k \in 2 .. Len(Append(s, n)) : Append(s, n)[j] = Append(s, n)[k] => j = k
      BY <3>5, <3>6, <3>7, <3>8
    <3>12. Append(s, n)[1] = origin[q.id]
      BY <3>5, <3>6, <3>7
    <3> QED BY <2>3, <3>4, <3>7, <3>10, <3>11, <3>12 DEF RouteFits
  <2> QED BY <2>5, <2>6
<1>5. ASSUME NEW n \in Node, NewMessage(n) \/ ForwardFails(n) PROVE RouteInv'
  BY <1>4, <1>5 DEF NewMessage, ForwardFails, Done
<1>6. ASSUME NEW n \in Node, NEW p \in packets, Take(n, p), packets' \subseteq packets
      PROVE RouteInv'
  <2>1. \A m \in Node : handling'[m] \in {handling[m], NoPacket, p}
    BY <1>1, <1>6 DEF Take, TypeOK
  <2>2. InTransit' \subseteq InTransit \cup {NoPacket}
    BY <1>6, <2>1 DEF InTransit
  <2> QED BY <1>1, <1>6, <2>2, RoutesKept DEF Take, sentVars
<1>7. ASSUME NEW n \in Node, NEW th \in Thread, AddNearbyUser(n, th) PROVE RouteInv'
  <2>1. \A m \in Node : handling'[m] \in {handling[m], NoPacket}
    BY <1>1, <1>7 DEF AddNearbyUser, DoneIfHello, TypeOK
  <2>2. PICK t : packets' = packets \cup {Hello(n, t)}
    BY <1>7 DEF AddNearbyUser
  <2>3. UNCHANGED <<known, origin>>
    BY <1>7 DEF AddNearbyUser, sentVars
  <2> SUFFICES ASSUME NEW p \in InTransit', p.type = "MESSAGE" PROVE RouteFits(p)'
    BY <1>1 DEF RouteInv
  <2>4. p \in InTransit
    BY <2>1, <2>2 DEF InTransit, Hello, NoPacket
  <2> QED BY <1>2, <2>3, <2>4 DEF RouteFits, Route
<1>8. ASSUME NEW n \in Node, KnownMessage(n) PROVE RouteInv'
  <2>1. \A m \in Node : handling'[m] \in {handling[m], NoPacket}
    BY <1>1, <1>8 DEF KnownMessage, Done, TypeOK
  <2>2. InTransit' \subseteq InTransit \cup {NoPacket}
    BY <1>8, <2>1 DEF KnownMessage, InTransit
  <2> QED BY <1>1, <1>8, <2>2, RoutesKept DEF KnownMessage, sentVars
<1>9. ASSUME packets' \subseteq packets, UNCHANGED <<handling, known, origin>> PROVE RouteInv'
  <2>1. InTransit' \subseteq InTransit \cup {NoPacket}
    BY <1>9 DEF InTransit
  <2> QED BY <1>1, <1>9, <2>1, RoutesKept
<1>10. ASSUME NEW n \in Node, NEW t \in Node, AddCommand(n, t) PROVE RouteInv'
  BY <1>9, <1>10 DEF AddCommand, sentVars
<1>11. ASSUME NEW n \in Node, NEW th \in Thread, HelloFails(n, th) PROVE RouteInv'
  BY <1>9, <1>11 DEF HelloFails, sentVars
<1>12. ASSUME NEW n \in Node, Quit(n) PROVE RouteInv'
  BY <1>9, <1>12 DEF Quit, sentVars
<1>13. CASE Lose
  BY <1>9, <1>13 DEF Lose, nodeVars, sentVars
<1>14. CASE UNCHANGED vars
  BY <1>9, <1>14 DEF vars, nodeVars, sentVars
<1>15. ASSUME NEW n \in Node, Receive(n) \/ ReceiveCopy(n) PROVE RouteInv'
  BY <1>6, <1>15 DEF Receive, ReceiveCopy
<1>16. ASSUME NEW n \in Node, SendMessage(n) \/ SendMessageFails(n) PROVE RouteInv'
  BY <1>3, <1>16 DEF SendMessage, SendMessageFails
<1> QED
  BY <1>5, <1>7, <1>8, <1>10, <1>11, <1>12, <1>13, <1>14, <1>15, <1>16 DEF Next

\* A flood does not run in circles, and a message names its sender first: who
\* has passed it on knows it, and takes it no second time (handle_incoming).
THEOREM FloodTakesNoLoops == Spec => []RoutesHaveNoLoops
<1>1. Init => RouteInv
  BY TypeInit DEF Init, RouteInv, InTransit, NoPacket
<1>2. RouteInv /\ [Next]_vars => RouteInv'
  BY RouteStep
<1>3. RouteInv => RoutesHaveNoLoops
  <2> SUFFICES ASSUME RouteInv, NEW p \in packets, p.type = "MESSAGE"
               PROVE  /\ \A n \in Node : Times(n, Route(p)) <= IF n = origin[p.id] THEN 2 ELSE 1
                      /\ Route(p)[1] = origin[p.id]
    BY DEF RoutesHaveNoLoops, Route
  <2>1. RouteFits(p) /\ p \in Packet
    BY DEF RouteInv, InTransit, TypeOK
  <2>2. Route(p) \in Seq(Node)
    BY <2>1, PacketTypes DEF Route
  <2> QED BY <2>1, <2>2, TimesBound DEF RouteFits
<1> QED BY <1>1, <1>2, <1>3, PTL DEF Spec
=============================================================================
