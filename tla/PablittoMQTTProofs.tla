------------------------- MODULE PablittoMQTTProofs -------------------------
(***************************************************************************)
(* Theorems about PablittoMQTT, for every value of its constants.          *)
(***************************************************************************)
EXTENDS PablittoMQTT, SequenceTheorems, TLAPS

-----------------------------------------------------------------------------
(* Packets and streams.                                                    *)

\* A packet built from well-typed fields is a packet.
LEMMA MkPacketType ==
  ASSUME NEW t \in Types, NEW q \in {0, 1}, NEW i \in Nat, NEW k \in Nat
  PROVE  /\ MkPacket(t, q, i, k) \in Packet
         /\ MkPacket(t, q, i, k).type = t
         /\ MkPacket(t, q, i, k).qos = q
         /\ MkPacket(t, q, i, k).id = i
         /\ MkPacket(t, q, i, k).n = k
  BY DEF MkPacket, Packet

\* A CONNACK is a packet.
LEMMA ConnackType ==
  ASSUME NEW rc \in Nat, NEW k \in Nat
  PROVE  /\ MkPacket("CONNACK", 0, rc, k) \in Packet
         /\ MkPacket("CONNACK", 0, rc, k).type = "CONNACK"
<1>1. "CONNACK" \in Types /\ 0 \in {0, 1}
  BY DEF Types
<1> QED
  BY <1>1, MkPacketType

\* The fields of a packet.
LEMMA PacketType ==
  ASSUME NEW p \in Packet
  PROVE  p.type \in Types /\ p.qos \in {0, 1} /\ p.id \in Nat /\ p.n \in Nat
  BY DEF Packet

\* The type of an acknowledgement is a packet type.
LEMMA AckTypeType ==
  ASSUME NEW t \in Acknowledged
  PROVE  AckType[t] \in Types
  BY DEF Acknowledged, AckType, Types

\* A message id is a natural number below IdMod.
LEMMA MessageIdType ==
  ASSUME NEW k \in Nat
  PROVE  MessageId(k) \in Nat /\ MessageId(k) < IdMod
  BY ClientAssumption DEF MessageId

\* Waiting to join the reader, the application is well-typed.
LEMMA JoinType ==
  ASSUME AppTypeOK, NEW c \in {"stop", "destroy"}, Join(c)
  PROVE  AppTypeOK'
<1>1. app' = "joinReader" /\ cur' = [call |-> c, n |-> 0, left |-> 0, arg |-> <<>>]
  BY DEF Join, NoCall
<1>2. cur' \in [call : Calls \cup {"none", "stop", "destroy"}, n : Nat,
                left : 0..MaxAttempts, arg : TopicVectors \cup {<<>>}]
  BY <1>1, ClientAssumption
<1>3. UNCHANGED <<ret, num, topics, got>>
  BY DEF Join
<1> QED
  BY <1>1, <1>2, <1>3 DEF AppTypeOK

\* The first element and the rest of a non-empty sequence.
LEMMA HeadTailType ==
  ASSUME NEW S, NEW s \in Seq(S), s # <<>>
  PROVE  Head(s) \in S /\ Tail(s) \in Seq(S)
  OBVIOUS

\* What is left of a sequence when its first k elements are dropped.
LEMMA DropType ==
  ASSUME NEW S, NEW s \in Seq(S), NEW k \in 1..Len(s)
  PROVE  /\ SubSeq(s, k + 1, Len(s)) \in Seq(S)
         /\ Len(SubSeq(s, k + 1, Len(s))) = Len(s) - k
         /\ \A i \in 1..(Len(s) - k) : SubSeq(s, k + 1, Len(s))[i] = s[k + i]
<1>1. \A i \in (k + 1)..Len(s) : s[i] \in S
  OBVIOUS
<1> QED
  BY <1>1, SubSeqProperties, Len(s) \in Nat

\* Sending a packet keeps the types of the socket.
LEMMA SendType ==
  ASSUME SocketTypeOK, NEW p \in Packet, sendByteTCP(p),
         UNCHANGED <<sockMutex, toClient>>
  PROVE  SocketTypeOK'
<1>1. kernelSend(p) \/ UNCHANGED <<proc, conn, toBroker>>
  BY DEF sendByteTCP
<1>2. proc' \in {"running", "killed", "terminated"}
  BY <1>1 DEF SocketTypeOK, kernelSend
<1>3. conn' \in Connections
  BY <1>1 DEF SocketTypeOK, kernelSend, Connections
<1>4. toBroker' \in Seq(Packet)
  BY <1>1 DEF SocketTypeOK, kernelSend
<1> QED
  BY <1>2, <1>3, <1>4 DEF SocketTypeOK

-----------------------------------------------------------------------------
(* The broker keeps the types.                                             *)

\* What the broker replies is a packet in the stream.
LEMMA ReplyType ==
  ASSUME SocketTypeOK, NEW p \in Packet, Reply(p)
  PROVE  toClient' \in Seq(Packet)
  BY DEF SocketTypeOK, Reply

\* A broker that hangs up keeps the types.
LEMMA HangUpType ==
  ASSUME NEW u, HangUp(u)
  PROVE  /\ conn' \in Connections
         /\ toBroker' \in Seq(Packet)
         /\ session' \in BOOLEAN
<1>1. conn' \in {"eof", "reset"}
  BY DEF HangUp
<1>2. toBroker' \in Seq(Packet)
  BY DEF HangUp
<1>3. session' \in BOOLEAN
  BY DEF HangUp
<1> QED
  BY <1>1, <1>2, <1>3 DEF Connections

\* Every step of the broker keeps the types.
LEMMA BrokerType ==
  ASSUME SocketTypeOK, BrokerTypeOK, BrokerNext
  PROVE  SocketTypeOK' /\ BrokerTypeOK'
<1>1. Serving => Request \in Packet /\ Tail(toBroker) \in Seq(Packet)
  BY HeadTailType DEF Serving, Request, SocketTypeOK
<1>4. CASE BrokerConnack
  <2>1. PICK rc \in ReturnCodes : Reply(MkPacket("CONNACK", 0, rc, Request.n))
    BY <1>4 DEF BrokerConnack
  <2>2. rc \in Nat /\ Request.n \in Nat
    BY <1>1, <1>4, BrokerAssumption, PacketType DEF BrokerConnack
  <2>3. MkPacket("CONNACK", 0, rc, Request.n) \in Packet
    BY <2>2, ConnackType
  <2>4. toClient' \in Seq(Packet)
    BY <2>1, <2>3, ReplyType
  <2>5. \/ HangUp(Tail(toBroker))
        \/ session' = TRUE /\ toBroker' = Tail(toBroker) /\ UNCHANGED conn
    BY <1>4 DEF BrokerConnack
  <2>6. conn' \in Connections
    BY <2>5, HangUpType DEF SocketTypeOK
  <2>7. toBroker' \in Seq(Packet) /\ session' \in BOOLEAN
    BY <1>1, <1>4, <2>5, HangUpType DEF BrokerConnack
  <2> QED
    BY <1>4, <2>4, <2>6, <2>7 DEF BrokerConnack, SocketTypeOK, BrokerTypeOK
<1>5. CASE BrokerAck
  <2>1. Request \in Packet /\ Request.type \in Acknowledged
    BY <1>1, <1>5 DEF BrokerAck
  <2>2. MkPacket(AckType[Request.type], 0, Request.id, Request.n) \in Packet
    BY <2>1, AckTypeType, PacketType, MkPacketType
  <2>3. toClient' \in Seq(Packet)
    BY <1>5, <2>2, ReplyType DEF BrokerAck
  <2> QED
    BY <1>1, <1>5, <2>3 DEF BrokerAck, SocketTypeOK, BrokerTypeOK
<1>6. CASE BrokerSilent
  BY <1>1, <1>6 DEF BrokerSilent, SocketTypeOK, BrokerTypeOK
<1>7. CASE BrokerHangsUp
  BY <1>7, HangUpType DEF BrokerHangsUp, SocketTypeOK, BrokerTypeOK
<1>8. CASE BrokerCloses
  BY <1>8, HangUpType DEF BrokerCloses, SocketTypeOK, BrokerTypeOK
<1>9. CASE BrokerPublishes
  <2>1. nMsg' \in Nat /\ MkPacket("PUBLISH", 0, 0, nMsg + 1) \in Packet
    BY <1>9, MkPacketType DEF BrokerPublishes, BrokerTypeOK, Types
  <2>2. toClient' \in Seq(Packet)
    BY <1>9, <2>1, ReplyType DEF BrokerPublishes
  <2> QED
    BY <1>9, <2>1, <2>2 DEF BrokerPublishes, SocketTypeOK, BrokerTypeOK
<1> QED
  BY <1>4, <1>5, <1>6, <1>7, <1>8, <1>9 DEF BrokerNext, BrokerServes

-----------------------------------------------------------------------------
(* The client's threads keep the types.                                    *)

\* The initial state is well typed.
LEMMA TypeInit == Init => TypeOK
<1> SUFFICES ASSUME Init PROVE TypeOK
  OBVIOUS
<1>1. SocketTypeOK
  BY DEF Init, SocketInit, SocketTypeOK, Connections
<1>2. BrokerTypeOK
  BY DEF Init, BrokerInit, BrokerTypeOK
<1>3. AppTypeOK
  <2>1. app \in {"idle", "call", "joinReader", "joinKeepAlive", "gone"} /\ app # "call"
    BY DEF Init
  <2>2. cur \in [call : Calls \cup {"none", "stop", "destroy"}, n : Nat,
                 left : 0..MaxAttempts, arg : TopicVectors \cup {<<>>}]
    BY ClientAssumption DEF Init, NoCall
  <2>3. ret \in [call : Calls \cup {"none", "start"}, n : Nat, id : Nat,
                 val : Nat \cup {Thrown}, ack : Nat]
    BY DEF Init
  <2>4. num \in [Calls -> Nat] /\ topics \in Seq(STRING) /\ got \in Nat
    BY DEF Init
  <2> QED
    BY <2>1, <2>2, <2>3, <2>4 DEF AppTypeOK
<1>4. ThreadTypeOK
  <2>1. queue \in [Queues -> Seq(Packet)] /\ count \in 0..(PingTicks - 1)
    BY ClientAssumption DEF Init
  <2>2. rmsg \in Packet
    BY MkPacketType DEF Init, NoPacket, Types
  <2> QED
    BY <2>1, <2>2 DEF Init, ThreadTypeOK
<1> QED
  BY <1>1, <1>2, <1>3, <1>4 DEF TypeOK

\* The parts of TypeOK that an action leaves alone.
LEMMA UnchangedType ==
  ASSUME TypeOK
  PROVE  /\ UNCHANGED socketVars => SocketTypeOK'
         /\ UNCHANGED brokerVars => BrokerTypeOK'
         /\ UNCHANGED appVars => AppTypeOK'
         /\ UNCHANGED <<queue, threadVars>> => ThreadTypeOK'
<1>1. UNCHANGED socketVars => SocketTypeOK'
  BY DEF TypeOK, SocketTypeOK, socketVars
<1>2. UNCHANGED brokerVars => BrokerTypeOK'
  BY DEF TypeOK, BrokerTypeOK, brokerVars
<1>3. UNCHANGED appVars => AppTypeOK'
  BY DEF TypeOK, AppTypeOK, appVars
<1>4. UNCHANGED <<queue, threadVars>> => ThreadTypeOK'
  BY DEF TypeOK, ThreadTypeOK, threadVars
<1> QED
  BY <1>1, <1>2, <1>3, <1>4

\* Issuing a request.
LEMMA IssueType ==
  ASSUME TypeOK, NEW c \in Calls, NEW p \in Packet, Issue(c, p)
  PROVE  /\ SocketTypeOK' /\ BrokerTypeOK' /\ ThreadTypeOK'
         /\ num' \in [Calls -> Nat] /\ num[c] + 1 \in Nat
         /\ UNCHANGED <<topics, got>>
<1>1. SocketTypeOK'
  BY SendType DEF Issue, TypeOK
<1>2. BrokerTypeOK' /\ ThreadTypeOK'
  BY UnchangedType DEF Issue
<1>3. num' \in [Calls -> Nat] /\ num[c] + 1 \in Nat
  BY DEF Issue, TypeOK, AppTypeOK
<1> QED
  BY <1>1, <1>2, <1>3 DEF Issue

\* Starting to wait for an acknowledgement.
LEMMA WaitType ==
  ASSUME TypeOK, NEW c \in Calls, NEW p \in Packet, Issue(c, p),
         NEW tv \in TopicVectors \cup {<<>>}, Wait(c, tv)
  PROVE  TypeOK'
<1>1. cur' \in [call : Calls \cup {"none", "stop", "destroy"}, n : Nat,
               left : 0..MaxAttempts, arg : TopicVectors \cup {<<>>}]
  BY IssueType, ClientAssumption DEF Wait
<1>2. app' = "call" /\ cur'.call \in Calls /\ cur'.left > 0
  BY ClientAssumption DEF Wait
<1>3. AppTypeOK'
  BY <1>1, <1>2, IssueType DEF Wait, TypeOK, AppTypeOK
<1> QED
  BY <1>3, IssueType DEF TypeOK

\* The end of a call, and of a round of its loop.
LEMMA ReturnType ==
  ASSUME TypeOK, app = "call", NEW val \in Nat \cup {Thrown}, NEW ack \in Nat,
         Return(val, ack), topics' \in Seq(STRING), UNCHANGED <<num, got>>
  PROVE  AppTypeOK'
<1>1. cur.call \in Calls /\ cur.n \in Nat
  BY DEF TypeOK, AppTypeOK
<1>2. ret' \in [call : Calls \cup {"none", "start"}, n : Nat, id : Nat,
               val : Nat \cup {Thrown}, ack : Nat]
  BY <1>1, MessageIdType DEF Return
<1>3. cur' \in [call : Calls \cup {"none", "stop", "destroy"}, n : Nat,
               left : 0..MaxAttempts, arg : TopicVectors \cup {<<>>}]
  BY ClientAssumption DEF Return, NoCall
<1> QED
  BY <1>2, <1>3 DEF Return, TypeOK, AppTypeOK

\* A round of a call's loop keeps the types.
LEMMA RetryType ==
  ASSUME TypeOK, app = "call", Retry, UNCHANGED <<num, topics, got>>
  PROVE  AppTypeOK'
<1>1. CASE cur.left = 1
  BY <1>1, ReturnType, ClientAssumption DEF Retry, TypeOK, AppTypeOK
<1>2. CASE cur.left # 1
  <2> DEFINE C == [call : Calls \cup {"none", "stop", "destroy"}, n : Nat,
                   left : 0..MaxAttempts, arg : TopicVectors \cup {<<>>}]
  <2>1. cur \in C /\ cur.call \in Calls /\ cur.left > 0
    BY DEF TypeOK, AppTypeOK
  <2>2. cur' = [cur EXCEPT !.left = @ - 1]
    BY <1>2 DEF Retry
  <2>3. cur.left - 1 \in 1..MaxAttempts
    BY <1>2, <2>1, ClientAssumption
  <2>4. cur'.call = cur.call /\ cur'.left = cur.left - 1
    BY <2>1, <2>2
  <2>5. cur' \in C
    BY <2>1, <2>2, <2>3, ClientAssumption
  <2> QED
    BY <1>2, <2>1, <2>3, <2>4, <2>5 DEF Retry, TypeOK, AppTypeOK
<1> QED
  BY <1>1, <1>2

\* The packet a call dequeues, and what is left of its queue.
LEMMA FindsType ==
  ASSUME TypeOK, Finds
  PROVE  /\ Taken \in Packet
         /\ Dequeue => queue' \in [Queues -> Seq(Packet)]
<1>1. QueueTaken[cur.call] \in Queues
  BY DEF Finds, Polling, TypeOK, AppTypeOK, Calls, Queues, QueueTaken
<1>2. queue[QueueTaken[cur.call]] \in Seq(Packet) /\ queue[QueueTaken[cur.call]] # <<>>
  BY <1>1 DEF Finds, TypeOK, ThreadTypeOK
<1>3. Taken \in Packet /\ Tail(queue[QueueTaken[cur.call]]) \in Seq(Packet)
  BY <1>2, HeadTailType DEF Taken
<1> QED
  BY <1>1, <1>3 DEF Dequeue, TypeOK, ThreadTypeOK

\* Every step of the system keeps the types.
LEMMA TypeNext ==
  ASSUME TypeOK, [Next]_vars
  PROVE  TypeOK'
<1> USE UnchangedType
<1>1. ASSUME NEW ok \in BOOLEAN, Start(ok) PROVE TypeOK'
  <2>1. SocketTypeOK'
    <3>1. toBroker' \in Seq(Packet) /\ toClient' \in Seq(Packet)
      BY <1>1 DEF Start, connectionTCP
    <3> QED
      BY <1>1, <3>1 DEF Start, connectionTCP, TypeOK, SocketTypeOK, Connections
  <2>2. BrokerTypeOK'
    BY <1>1 DEF Start, TypeOK, BrokerTypeOK
  <2>3. AppTypeOK'
    <3>1. ret' \in [call : Calls \cup {"none", "start"}, n : Nat, id : Nat,
                   val : Nat \cup {Thrown}, ack : Nat]
      BY <1>1 DEF Start, TypeOK, AppTypeOK
    <3> QED
      BY <1>1, <3>1 DEF Start, TypeOK, AppTypeOK
  <2>4. ThreadTypeOK'
    BY <1>1 DEF Start, TypeOK, ThreadTypeOK
  <2> QED
    BY <2>1, <2>2, <2>3, <2>4 DEF TypeOK
<1>2. ASSUME NEW value \in BOOLEAN, SetStopThread(value) PROVE TypeOK'
  <2>1. ThreadTypeOK'
    BY <1>2 DEF SetStopThread, TypeOK, ThreadTypeOK
  <2> QED
    BY <1>2, <2>1 DEF SetStopThread, TypeOK
<1>3. CASE Disconnect
  <2>1. MkPacket("DISCONNECT", 0, 0, 0) \in Packet
    BY MkPacketType DEF Types
  <2>2. SocketTypeOK'
    BY <1>3, <2>1, SendType DEF Disconnect, TypeOK
  <2> QED
    BY <1>3, <2>2 DEF Disconnect, TypeOK
<1>4. CASE GetMessage
  <2>1. "PUBLISH" \in Queues /\ queue["PUBLISH"] \in Seq(Packet) /\ queue["PUBLISH"] # <<>>
    BY <1>4 DEF GetMessage, TypeOK, ThreadTypeOK, Queues
  <2>2. Head(queue["PUBLISH"]) \in Packet /\ Tail(queue["PUBLISH"]) \in Seq(Packet)
    BY <2>1, HeadTailType
  <2>3. got' \in Nat
    BY <1>4, <2>2, PacketType DEF GetMessage
  <2>4. queue' \in [Queues -> Seq(Packet)]
    BY <1>4, <2>2 DEF GetMessage, TypeOK, ThreadTypeOK
  <2>5. AppTypeOK'
    BY <1>4, <2>3 DEF GetMessage, TypeOK, AppTypeOK
  <2>6. ThreadTypeOK'
    BY <1>4, <2>4 DEF GetMessage, TypeOK, ThreadTypeOK, threadVars
  <2> QED
    BY <1>4, <2>5, <2>6 DEF GetMessage, TypeOK
<1>5. CASE Connect
  <2>1. num["connect"] + 1 \in Nat
    BY DEF TypeOK, AppTypeOK, Calls
  <2>2. MkPacket("CONNECT", 0, 0, num["connect"] + 1) \in Packet
    BY <2>1, MkPacketType DEF Types
  <2> QED
    BY <1>5, <2>2, WaitType DEF Connect, Calls
<1>6. ASSUME NEW qos \in {0, 1}, Publish(qos) PROVE TypeOK'
  <2> DEFINE k == num["publish"] + 1
             p == MkPacket("PUBLISH", qos, MessageId(k), k)
  <2>1. k \in Nat
    BY DEF TypeOK, AppTypeOK, Calls
  <2>2. p \in Packet
    <3>1. MessageId(k) \in Nat
      BY <2>1, MessageIdType
    <3>2. "PUBLISH" \in Types
      BY DEF Types
    <3> QED
      BY <2>1, <3>1, <3>2, MkPacketType
  <2>3. Issue("publish", p)
    BY <1>6 DEF Publish
  <2>4. CASE qos = 1
    BY <1>6, <2>2, <2>3, <2>4, WaitType DEF Publish, Calls
  <2>5. CASE qos # 1
    <3>1. UNCHANGED <<app, cur, ret>>
      BY <1>6, <2>5 DEF Publish
    <3>2. SocketTypeOK' /\ BrokerTypeOK' /\ ThreadTypeOK' /\ num' \in [Calls -> Nat]
          /\ UNCHANGED <<topics, got>>
      BY <2>2, <2>3, IssueType DEF Calls
    <3>3. AppTypeOK'
      BY <3>1, <3>2 DEF TypeOK, AppTypeOK
    <3> QED
      BY <3>2, <3>3 DEF TypeOK
  <2> QED
    BY <2>4, <2>5
<1>7. ASSUME NEW tv \in TopicVectors, Subscribe(tv) PROVE TypeOK'
  <2> DEFINE k == num["subscribe"] + 1
             p == MkPacket("SUBSCRIBE", 1, MessageId(k), k)
  <2>1. k \in Nat
    BY DEF TypeOK, AppTypeOK, Calls
  <2>2. p \in Packet
    <3> HIDE DEF k
    <3>1. MessageId(k) \in Nat
      BY <2>1, MessageIdType
    <3>2. "SUBSCRIBE" \in Types
      BY DEF Types
    <3> QED
      BY <2>1, <3>1, <3>2, MkPacketType
  <2>3. Issue("subscribe", p) /\ Wait("subscribe", tv)
    BY <1>7 DEF Subscribe
  <2> QED
    BY <2>2, <2>3, WaitType DEF Calls
<1>8. ASSUME NEW tv \in TopicVectors, Unsubscribe(tv) PROVE TypeOK'
  <2> DEFINE k == num["unsubscribe"] + 1
             p == MkPacket("UNSUBSCRIBE", 1, MessageId(k), k)
  <2>1. k \in Nat
    BY DEF TypeOK, AppTypeOK, Calls
  <2>2. p \in Packet
    <3> HIDE DEF k
    <3>1. MessageId(k) \in Nat
      BY <2>1, MessageIdType
    <3>2. "UNSUBSCRIBE" \in Types
      BY DEF Types
    <3> QED
      BY <2>1, <3>1, <3>2, MkPacketType
  <2>3. Issue("unsubscribe", p) /\ Wait("unsubscribe", tv)
    BY <1>8 DEF Unsubscribe
  <2> QED
    BY <2>2, <2>3, WaitType DEF Calls
<1>9. CASE Stop
  <2>1. AppTypeOK'
    BY <1>9, JoinType DEF Stop, TypeOK
  <2>2. ThreadTypeOK'
    BY <1>9 DEF Stop, Join, TypeOK, ThreadTypeOK
  <2> QED
    BY <1>9, <2>1, <2>2 DEF Stop, Join, TypeOK
<1>10. CASE Destroy
  <2>1. AppTypeOK'
    BY <1>10, JoinType DEF Destroy, TypeOK
  <2>2. ThreadTypeOK'
    BY <1>10 DEF Destroy, Join, TypeOK, ThreadTypeOK
  <2> QED
    BY <1>10, <2>1, <2>2 DEF Destroy, Join, TypeOK
<1>11. CASE PollEmpty
  <2>1. AppTypeOK'
    BY <1>11, RetryType DEF PollEmpty, Polling
  <2> QED
    BY <1>11, <2>1 DEF PollEmpty, TypeOK
<1>12. CASE PollThrows
  <2>1. AppTypeOK'
    BY <1>12, ReturnType DEF PollThrows, Polling, TypeOK, AppTypeOK
  <2> QED
    BY <1>12, <2>1 DEF PollThrows, TypeOK
<1>13. CASE PollConnack
  <2>1. Taken \in Packet /\ queue' \in [Queues -> Seq(Packet)]
    BY <1>13, FindsType DEF PollConnack
  <2>2. AppTypeOK'
    BY <1>13, <2>1, ReturnType, PacketType DEF PollConnack, Finds, Polling, TypeOK, AppTypeOK
  <2>3. ThreadTypeOK'
    BY <1>13, <2>1, ClientAssumption DEF PollConnack, TypeOK, ThreadTypeOK
  <2>4. SocketTypeOK'
    BY <1>13 DEF PollConnack, TypeOK, SocketTypeOK
  <2> QED
    BY <1>13, <2>2, <2>3, <2>4 DEF PollConnack, TypeOK
<1>14. CASE PollPuback
  <2>1. Taken \in Packet /\ queue' \in [Queues -> Seq(Packet)]
    BY <1>14, FindsType DEF PollPuback
  <2>2. AppTypeOK'
    BY <1>14, <2>1, ReturnType, RetryType, PacketType
    DEF PollPuback, Finds, Polling, TypeOK, AppTypeOK
  <2>3. ThreadTypeOK'
    BY <1>14, <2>1 DEF PollPuback, TypeOK, ThreadTypeOK, threadVars
  <2> QED
    BY <1>14, <2>2, <2>3 DEF PollPuback, TypeOK
<1>15. CASE PollSuback
  <2>1. Taken \in Packet /\ queue' \in [Queues -> Seq(Packet)]
    BY <1>15, FindsType DEF PollSuback
  <2>2. topics' \in Seq(STRING)
    <3>1. cur.arg \in TopicVectors \cup {<<>>}
      BY DEF TypeOK, AppTypeOK
    <3>2. cur.arg \in Seq(STRING)
      <4>1. TopicVectors \subseteq Seq(STRING) /\ <<>> \in Seq(STRING)
        BY ClientAssumption
      <4> QED
        BY <3>1, <4>1, Zenon
    <3>3. topics \in Seq(STRING)
      BY DEF TypeOK, AppTypeOK
    <3>4. topics \o cur.arg \in Seq(STRING)
      BY <3>2, <3>3
    <3>5. topics' = topics \o cur.arg \/ topics' = topics
      BY <1>15 DEF PollSuback
    <3> QED
      BY <3>3, <3>4, <3>5
  <2>3. AppTypeOK'
    BY <1>15, <2>1, <2>2, ReturnType, PacketType DEF PollSuback, Finds, Polling
  <2>4. ThreadTypeOK'
    BY <1>15, <2>1 DEF PollSuback, TypeOK, ThreadTypeOK, threadVars
  <2> QED
    BY <1>15, <2>3, <2>4 DEF PollSuback, TypeOK
<1>16. CASE JoinReader
  <2>1. AppTypeOK'
    BY <1>16 DEF JoinReader, TypeOK, AppTypeOK
  <2>2. ThreadTypeOK'
    BY <1>16 DEF JoinReader, TypeOK, ThreadTypeOK
  <2> QED
    BY <1>16, <2>1, <2>2 DEF JoinReader, TypeOK
<1>17. CASE JoinKeepAlive
  <2>1. SocketTypeOK'
    <3>1. toBroker' \in Seq(Packet) /\ toClient' \in Seq(Packet)
      BY <1>17 DEF JoinKeepAlive, closeTCP
    <3> QED
      BY <1>17, <3>1 DEF JoinKeepAlive, closeTCP, TypeOK, SocketTypeOK, Connections
  <2>2. BrokerTypeOK'
    BY <1>17 DEF JoinKeepAlive, TypeOK, BrokerTypeOK
  <2>3. AppTypeOK'
    BY <1>17, ClientAssumption DEF JoinKeepAlive, NoCall, TypeOK, AppTypeOK
  <2>4. ThreadTypeOK'
    BY <1>17 DEF JoinKeepAlive, TypeOK, ThreadTypeOK
  <2> QED
    BY <2>1, <2>2, <2>3, <2>4 DEF TypeOK
<1>18. CASE ReaderEnter
  <2>1. SocketTypeOK'
    BY <1>18 DEF ReaderEnter, readEnter, readLeak, TypeOK, SocketTypeOK
  <2>2. ThreadTypeOK'
    BY <1>18 DEF ReaderEnter, TypeOK, ThreadTypeOK
  <2> QED
    BY <1>18, <2>1, <2>2 DEF ReaderEnter, TypeOK
<1>19. CASE ReaderReads
  <2>1. PICK k \in 1..Len(toClient) :
          readData(k, Head(toClient)) /\ rmsg' = Head(toClient)
    BY <1>19 DEF ReaderReads
  <2>2. toClient \in Seq(Packet) /\ toClient # <<>>
    BY <2>1 DEF TypeOK, SocketTypeOK
  <2>3. rmsg' \in Packet /\ toClient' \in Seq(Packet)
    <3>1. toClient' = SubSeq(toClient, k + 1, Len(toClient))
      BY <2>1 DEF readData
    <3> QED
      BY <2>1, <2>2, <3>1, HeadTailType, DropType
  <2>4. SocketTypeOK'
    BY <1>19, <2>1, <2>3 DEF ReaderReads, readData, TypeOK, SocketTypeOK
  <2>5. ThreadTypeOK'
    BY <1>19, <2>3 DEF ReaderReads, TypeOK, ThreadTypeOK
  <2> QED
    BY <1>19, <2>4, <2>5 DEF ReaderReads, TypeOK
<1>20. CASE ReaderReadsNothing
  <2>1. SocketTypeOK'
    BY <1>20 DEF ReaderReadsNothing, readNothing, TypeOK, SocketTypeOK
  <2>2. ThreadTypeOK'
    BY <1>20 DEF ReaderReadsNothing, TypeOK, ThreadTypeOK
  <2> QED
    BY <1>20, <2>1, <2>2 DEF ReaderReadsNothing, TypeOK
<1>21. CASE ReaderAnalyzes
  <2>1. queue' \in [Queues -> Seq(Packet)]
    BY <1>21 DEF ReaderAnalyzes, TypeOK, ThreadTypeOK, Analyzed, Queues
  <2>2. ThreadTypeOK'
    BY <1>21, <2>1 DEF ReaderAnalyzes, TypeOK, ThreadTypeOK
  <2> QED
    BY <1>21, <2>2 DEF ReaderAnalyzes, TypeOK
<1>22. CASE ReaderSleeps
  <2>1. ThreadTypeOK'
    BY <1>22 DEF ReaderSleeps, TypeOK, ThreadTypeOK
  <2> QED
    BY <1>22, <2>1 DEF ReaderSleeps, TypeOK
<1>23. CASE HeartbeatTicks
  <2>1. MkPacket("PINGREQ", 0, 0, 0) \in Packet
    BY MkPacketType DEF Types
  <2>2. SocketTypeOK'
    BY <1>23, <2>1, SendType DEF HeartbeatTicks, Ping, TypeOK, SocketTypeOK
  <2>3. ThreadTypeOK'
    BY <1>23, ClientAssumption DEF HeartbeatTicks, TypeOK, ThreadTypeOK
  <2> QED
    BY <1>23, <2>2, <2>3 DEF HeartbeatTicks, TypeOK
<1>24. CASE HeartbeatChecks
  <2>1. ThreadTypeOK'
    BY <1>24 DEF HeartbeatChecks, TypeOK, ThreadTypeOK
  <2> QED
    BY <1>24, <2>1 DEF HeartbeatChecks, TypeOK
<1>25. CASE BrokerActs
  BY <1>25, BrokerType DEF BrokerActs, TypeOK
<1>26. CASE UNCHANGED vars
  BY <1>26 DEF vars, TypeOK
<1> QED
  BY <1>1, <1>2, <1>3, <1>4, <1>5, <1>6, <1>7, <1>8, <1>9, <1>10, <1>11, <1>12,
     <1>13, <1>14, <1>15, <1>16, <1>17, <1>18, <1>19, <1>20, <1>21, <1>22,
     <1>23, <1>24, <1>25, <1>26
  DEF Next, AppCalls, AppWorks, ReaderNext, HeartbeatNext

\* TypeOK holds in every reachable state, whatever the application calls in
\* what order and whatever the broker does.
THEOREM TypeCorrect == Spec => []TypeOK
<1>1. Init => TypeOK
  BY TypeInit
<1>2. TypeOK /\ [Next]_vars => TypeOK'
  BY TypeNext
<1> QED
  BY <1>1, <1>2, PTL DEF Spec

-----------------------------------------------------------------------------
(* The reader and what it shares with the application's thread: the        *)
(* descriptor and the socket's mutex.                                      *)

\* Sending neither opens nor closes a descriptor.
LEMMA SendKeepsDescriptor ==
  ASSUME NEW p, sendByteTCP(p), conn \notin {"none", "closed"}
  PROVE  conn' \notin {"none", "closed"}
  BY DEF sendByteTCP, kernelSend

\* Nor does the broker.
LEMMA BrokerKeepsDescriptor ==
  ASSUME BrokerActs, conn \notin {"none", "closed"}
  PROVE  conn' \notin {"none", "closed"}
  BY DEF BrokerActs, BrokerNext, BrokerServes, BrokerConnack, BrokerAck,
         BrokerSilent, BrokerHangsUp, BrokerCloses, BrokerPublishes, HangUp

\* There is no reader yet, and nobody holds the mutex.
LEMMA LifeInit == Init => LifeInv
  BY DEF Init, SocketInit, LifeInv, ReaderUsesOpenSocket

\* Every step of the system keeps LifeInv.
LEMMA LifeNext ==
  ASSUME TypeOK, LifeInv, [Next]_vars
  PROVE  LifeInv'
<1> USE DEF LifeInv, ReaderUsesOpenSocket
<1>1. ASSUME \E p : sendByteTCP(p),
             UNCHANGED <<sockMutex, reader>>,
             app' \in {"joinKeepAlive", "gone"} => app' = app
      PROVE  LifeInv'
  BY <1>1, SendKeepsDescriptor
<1>2. ASSUME UNCHANGED <<conn, sockMutex, reader>>,
             app' \in {"joinKeepAlive", "gone"} => app' = app
      PROVE  LifeInv'
  BY <1>2
<1>3. ASSUME NEW ok \in BOOLEAN, Start(ok) PROVE LifeInv'
  <2>1. app = "idle" /\ app' = app /\ sockMutex = "free" /\ sockMutex' = "free"
    BY <1>3 DEF Start, Idle, connectionTCP
  <2>2. conn' \in {"open", "unconnected", "invalid"}
    BY <1>3 DEF Start, connectionTCP
  <2>3. reader' = reader \/ reader' = "lock"
    BY <1>3 DEF Start
  <2>4. reader # "read" \/ MinusOne # {FALSE}
    BY <2>1
  <2> QED
    BY <2>1, <2>2, <2>3, <2>4
<1>4. CASE (\E value \in BOOLEAN : SetStopThread(value)) \/ GetMessage
  BY <1>2, <1>4 DEF SetStopThread, GetMessage, socketVars, appVars, threadVars
<1>5. CASE Disconnect
  BY <1>1, <1>5 DEF Disconnect, appVars, threadVars
<1>6. CASE \/ Connect
           \/ \E qos \in {0, 1} : Publish(qos)
           \/ \E tv \in TopicVectors : Subscribe(tv)
           \/ \E tv \in TopicVectors : Unsubscribe(tv)
  <2>1. \E c, p : Issue(c, p)
    BY <1>6 DEF Connect, Publish, Subscribe, Unsubscribe
  <2>2. app' = app \/ app' = "call"
    BY <1>6 DEF Connect, Publish, Subscribe, Unsubscribe, Wait
  <2> QED
    BY <1>1, <2>1, <2>2 DEF Issue, threadVars
<1>7. CASE Stop \/ Destroy
  BY <1>2, <1>7 DEF Stop, Destroy, Join, socketVars
<1>8. CASE PollEmpty \/ PollThrows
  BY <1>2, <1>8 DEF PollEmpty, PollThrows, Retry, Return, socketVars, threadVars
<1>9. CASE PollConnack
  BY <1>2, <1>9 DEF PollConnack, Return
<1>10. CASE PollPuback \/ PollSuback
  BY <1>2, <1>10 DEF PollPuback, PollSuback, Retry, Return, socketVars, threadVars
<1>11. CASE JoinReader
  BY <1>11 DEF JoinReader, Joinable, socketVars
<1>12. CASE JoinKeepAlive
  BY <1>12 DEF JoinKeepAlive, closeTCP
<1>13. CASE ReaderEnter
  BY <1>13 DEF ReaderEnter, readEnter, readLeak, appVars
<1>14. CASE ReaderReads
  BY <1>14 DEF ReaderReads, readData, appVars
<1>15. CASE ReaderReadsNothing
  BY <1>15 DEF ReaderReadsNothing, readNothing, appVars
<1>16. CASE ReaderAnalyzes
  BY <1>16 DEF ReaderAnalyzes, socketVars, appVars
<1>17. CASE ReaderSleeps
  BY <1>17 DEF ReaderSleeps, socketVars, appVars
<1>18. CASE HeartbeatTicks
  BY <1>1, <1>2, <1>18 DEF HeartbeatTicks, Ping, appVars
<1>19. CASE HeartbeatChecks
  BY <1>2, <1>19 DEF HeartbeatChecks, socketVars, appVars
<1>20. CASE BrokerActs
  <2>1. UNCHANGED <<sockMutex, reader, app>>
    BY <1>20 DEF BrokerActs, BrokerNext, BrokerServes, BrokerConnack, BrokerAck,
       BrokerSilent, BrokerHangsUp, BrokerCloses, BrokerPublishes, appVars, threadVars
  <2> QED
    BY <1>20, <2>1, BrokerKeepsDescriptor
<1>21. CASE UNCHANGED vars
  BY <1>2, <1>21 DEF vars, socketVars, appVars, threadVars
<1> QED
  BY <1>3, <1>4, <1>5, <1>6, <1>7, <1>8, <1>9, <1>10, <1>11, <1>12, <1>13,
     <1>14, <1>15, <1>16, <1>17, <1>18, <1>19, <1>20, <1>21
  DEF Next, AppCalls, AppWorks, ReaderNext, HeartbeatNext

\* LifeInv holds in every reachable state.
THEOREM LifeInvariant == Spec => []LifeInv
<1>1. TypeOK /\ LifeInv /\ [Next]_vars => LifeInv'
  BY LifeNext
<1> QED
  BY <1>1, LifeInit, TypeCorrect, PTL DEF Spec

\* A live reader never works on a descriptor that was never opened or has been
\* closed.
THEOREM ReaderSocketOpen == Spec => []ReaderUsesOpenSocket
<1>1. LifeInv => ReaderUsesOpenSocket
  BY DEF LifeInv
<1> QED
  BY <1>1, LifeInvariant, PTL

\* Between a reader that has ended and the next one the mutex is free.
THEOREM MutexFreeAfterStop == Spec => []RestartNotBlocked
<1>1. TypeOK /\ LifeInv => RestartNotBlocked
  BY DEF TypeOK, SocketTypeOK, LifeInv, RestartNotBlocked
<1> QED
  BY <1>1, LifeInvariant, TypeCorrect, PTL

\* A step of the system leaves a leaked mutex locked, and a reader that waits for
\* it waiting.
LEMMA LeakNext ==
  ASSUME Leaked, [Next]_vars
  PROVE  Leaked' /\ (reader = "lock" => reader' = "lock")
<1> USE DEF Leaked
<1>1. ASSUME UNCHANGED <<sockMutex, reader>>
      PROVE  Leaked' /\ (reader = "lock" => reader' = "lock")
  BY <1>1
<1>2. CASE AppCalls
  <2>1. ASSUME NEW ok \in BOOLEAN, Start(ok) PROVE FALSE
    BY <2>1 DEF Start, connectionTCP
  <2>2. CASE (\E value \in BOOLEAN : SetStopThread(value)) \/ GetMessage
    BY <1>1, <2>2 DEF SetStopThread, GetMessage, socketVars, threadVars
  <2>3. CASE Disconnect
    BY <1>1, <2>3 DEF Disconnect, threadVars
  <2>4. CASE \/ Connect
             \/ \E qos \in {0, 1} : Publish(qos)
             \/ \E tv \in TopicVectors : Subscribe(tv)
             \/ \E tv \in TopicVectors : Unsubscribe(tv)
    BY <1>1, <2>4 DEF Connect, Publish, Subscribe, Unsubscribe, Issue, threadVars
  <2>5. CASE Stop \/ Destroy
    BY <1>1, <2>5 DEF Stop, Destroy, Join, socketVars
  <2> QED
    BY <1>2, <2>1, <2>2, <2>3, <2>4, <2>5 DEF AppCalls
<1>3. CASE JoinReader
  BY <1>3 DEF JoinReader, Joinable, socketVars
<1>4. CASE PollEmpty \/ PollThrows \/ PollConnack \/ PollPuback \/ PollSuback
  BY <1>1, <1>4 DEF PollEmpty, PollThrows, PollConnack, PollPuback, PollSuback,
     socketVars, threadVars
<1>5. CASE JoinKeepAlive
  BY <1>1, <1>5 DEF JoinKeepAlive
<1>6. CASE ReaderEnter
  BY <1>6 DEF ReaderEnter, readEnter, readLeak
<1>7. CASE ReaderReads \/ ReaderReadsNothing
  BY <1>7 DEF ReaderReads, ReaderReadsNothing
<1>8. CASE ReaderAnalyzes \/ ReaderSleeps
  BY <1>8 DEF ReaderAnalyzes, ReaderSleeps, socketVars
<1>9. CASE HeartbeatNext
  BY <1>1, <1>9 DEF HeartbeatNext, HeartbeatTicks, HeartbeatChecks, socketVars
<1>10. CASE BrokerActs
  BY <1>1, <1>10 DEF BrokerActs, BrokerNext, BrokerServes, BrokerConnack, BrokerAck,
     BrokerSilent, BrokerHangsUp, BrokerCloses, BrokerPublishes, threadVars
<1>11. CASE UNCHANGED vars
  BY <1>1, <1>11 DEF vars, socketVars, threadVars
<1> QED
  BY <1>2, <1>3, <1>4, <1>5, <1>6, <1>7, <1>8, <1>9, <1>10, <1>11
  DEF Next, AppWorks, ReaderNext

\* Once readByteTCP has returned with its mutex locked, no reader reads again.
THEOREM LeaksAreFinal == Spec => LeakIsFinal
<1>1. [Next]_vars
      => [Leaked => Leaked' /\ (reader = "lock" => reader' = "lock")]_vars
  BY LeakNext
<1> QED
  BY <1>1, PTL DEF Spec, LeakIsFinal

-----------------------------------------------------------------------------
(* Streams whose packets are numbered.  What an acknowledgement confirms:  *)
(* AckInv is inductive, and with it no late, reordered or left over        *)
(* acknowledgement passes for another.                                     *)

\* Two requests with one message id are IdMod apart, or further.
LEMMA SameIdApart ==
  ASSUME NEW k \in Nat, NEW a \in 0..k, MessageId(a) = MessageId(k)
  PROVE  Confirms(a, k)
<1> DEFINE M == IdMod
           p == a \div M
           q == k \div M
           r == k % M
<1>1. M \in Nat /\ M > 0
  BY ClientAssumption
<1>2. /\ p \in Int /\ q \in Int /\ r \in Int
      /\ a = M * p + r /\ k = M * q + r
  <2>1. \A n \in Nat : n \div M \in Int /\ n % M \in Int /\ n = M * (n \div M) + (n % M)
    BY SMT, <1>1
  <2>2. a % M = r
    BY DEF MessageId
  <2> QED
    BY <2>1, <2>2
<1> HIDE DEF M, p, q, r
<1>3. q > p => M * q >= M * p + M
  <2>1. ASSUME q > p PROVE M * q >= M * p + M
    <3>1. PICK d \in Nat : q = p + 1 + d
      <4>1. q - p - 1 \in Nat /\ q = p + 1 + (q - p - 1)
        BY SMT, <1>2, <2>1
      <4> QED
        BY <4>1
    <3>2. M * q = M * p + M + M * d
      BY SMT, <1>1, <1>2, <3>1
    <3>3. M * d \in Nat /\ M * p \in Int
      BY SMT, <1>1, <1>2
    <3> QED
      BY SMT, <1>1, <3>2, <3>3
  <2> QED
    BY <2>1
<1>4. q < p => M * p > M * q
  BY SMT, <1>1, <1>2
<1>5. a = k \/ k - a >= M
  <2>1. CASE q > p
    <3> DEFINE s == M * p
               t == M * q
    <3>1. s \in Int /\ t \in Int
      BY SMT, <1>1, <1>2
    <3>2. a = s + r /\ k = t + r /\ t >= s + M
      BY <1>2, <1>3, <2>1
    <3> HIDE DEF s, t
    <3> QED
      BY SMT, <1>1, <1>2, <3>1, <3>2
  <2>2. CASE q = p
    BY <1>2, <2>2
  <2>3. CASE q < p
    <3> DEFINE s == M * p
               t == M * q
    <3>1. s \in Int /\ t \in Int
      BY SMT, <1>1, <1>2
    <3>2. a = s + r /\ k = t + r /\ s > t /\ a <= k
      BY <1>2, <1>4, <2>3
    <3> HIDE DEF s, t
    <3> QED
      BY SMT, <1>1, <1>2, <3>1, <3>2
  <2> QED
    BY SMT, <1>2, <2>1, <2>2, <2>3
<1> QED
  BY <1>5 DEF Confirms, M

Counters == [Calls -> Nat]

\* Further requests leave the earlier ones numbered.
LEMMA NumberedKept ==
  ASSUME NEW m \in Counters, NEW m2 \in Counters, \A c \in Calls : m[c] <= m2[c],
         NEW p \in Packet
  PROVE  /\ RequestNumbered(m, p) => RequestNumbered(m2, p)
         /\ AckNumbered(m, p) => AckNumbered(m2, p)
<1>1. ASSUME NEW t \in Types, NEW c \in Calls, Numbered(m, p, t, c)
      PROVE  Numbered(m2, p, t, c)
  BY <1>1, PacketType DEF Numbered, Counters
<1>2. {"publish", "subscribe", "unsubscribe"} \subseteq Calls
  BY DEF Calls
<1>3. {"PUBLISH", "SUBSCRIBE", "UNSUBSCRIBE", "PUBACK", "SUBACK", "UNSUBACK"}
        \subseteq Types
  BY DEF Types
<1> QED
  BY <1>1, <1>2, <1>3 DEF RequestNumbered, AckNumbered

\* The same, of streams.
LEMMA AllNumberedKept ==
  ASSUME NEW m \in Counters, NEW m2 \in Counters, \A c \in Calls : m[c] <= m2[c],
         NEW s \in Seq(Packet)
  PROVE  /\ AllRequestsNumbered(m, s) => AllRequestsNumbered(m2, s)
         /\ AllAcksNumbered(m, s) => AllAcksNumbered(m2, s)
<1>1. \A i \in 1..Len(s) : s[i] \in Packet
  OBVIOUS
<1> QED
  BY <1>1, NumberedKept DEF AllRequestsNumbered, AllAcksNumbered

\* The operations on streams keep them numbered.
LEMMA AppendNumbered ==
  ASSUME NEW m, NEW s \in Seq(Packet), NEW p \in Packet
  PROVE  /\ AllRequestsNumbered(m, s) /\ RequestNumbered(m, p)
              => AllRequestsNumbered(m, Append(s, p))
         /\ AllAcksNumbered(m, s) /\ AckNumbered(m, p)
              => AllAcksNumbered(m, Append(s, p))
  BY DEF AllRequestsNumbered, AllAcksNumbered

\* Likewise.
LEMMA TailNumbered ==
  ASSUME NEW m, NEW s \in Seq(Packet), s # <<>>
  PROVE  /\ AllRequestsNumbered(m, s)
              => AllRequestsNumbered(m, Tail(s)) /\ RequestNumbered(m, Head(s))
         /\ AllAcksNumbered(m, s)
              => AllAcksNumbered(m, Tail(s)) /\ AckNumbered(m, Head(s))
  BY DEF AllRequestsNumbered, AllAcksNumbered

\* Likewise.
LEMMA DropNumbered ==
  ASSUME NEW m, NEW s \in Seq(Packet), NEW k \in 1..Len(s), AllAcksNumbered(m, s)
  PROVE  AllAcksNumbered(m, SubSeq(s, k + 1, Len(s)))
  BY DropType DEF AllAcksNumbered

\* The empty stream is numbered.
LEMMA EmptyNumbered ==
  ASSUME NEW m
  PROVE  AllRequestsNumbered(m, <<>>) /\ AllAcksNumbered(m, <<>>)
  BY DEF AllRequestsNumbered, AllAcksNumbered

\* The queues stay homogeneous when their first packet is taken,
LEMMA TailOfType ==
  ASSUME NEW t, NEW s \in Seq(Packet), s # <<>>, AllOfType(s, t)
  PROVE  AllOfType(Tail(s), t) /\ Head(s).type = t
  BY DEF AllOfType

\* and when a packet of their type is added.
LEMMA AppendOfType ==
  ASSUME NEW s \in Seq(Packet), NEW p \in Packet, AllOfType(s, p.type)
  PROVE  AllOfType(Append(s, p), p.type)
  BY DEF AllOfType

-----------------------------------------------------------------------------
(* AckInv is inductive.                                                    *)

\* num counts the requests of each kind.
LEMMA CountersType ==
  ASSUME TypeOK
  PROVE  num \in Counters /\ \A c \in Calls : num[c] <= num[c]
  BY DEF TypeOK, AppTypeOK, Counters

\* Sending packet p, numbered once the call has been counted.
LEMMA AckSend ==
  ASSUME TypeOK, AckInv, NEW p \in Packet, sendByteTCP(p),
         num' \in Counters, \A c \in Calls : num[c] <= num'[c],
         RequestNumbered(num', p)
  PROVE  AllRequestsNumbered(num', toBroker')
<1>1. toBroker' = toBroker \/ toBroker' = Append(toBroker, p)
  BY DEF sendByteTCP, kernelSend
<1>2. toBroker \in Seq(Packet) /\ num \in Counters
  BY CountersType DEF TypeOK, SocketTypeOK
<1>3. AllRequestsNumbered(num', toBroker)
  BY <1>2, AllNumberedKept DEF AckInv
<1> QED
  BY <1>1, <1>2, <1>3, AppendNumbered

\* Packets that are not requests are numbered whatever the counters.
LEMMA PlainRequest ==
  ASSUME NEW m, NEW p, p.type \notin {"PUBLISH", "SUBSCRIBE", "UNSUBSCRIBE"}
  PROVE  RequestNumbered(m, p)
  BY DEF RequestNumbered, Numbered

\* Likewise packets that are not acknowledgements.
LEMMA PlainAck ==
  ASSUME NEW m, NEW p, p.type \notin {"PUBACK", "SUBACK", "UNSUBACK"}
  PROVE  AckNumbered(m, p)
  BY DEF AckNumbered, Numbered

\* A call that issues a request: everything stays numbered.
LEMMA AckIssue ==
  ASSUME TypeOK, AckInv, NEW c \in Calls, NEW p \in Packet, Issue(c, p),
         RequestNumbered(num', p)
  PROVE  /\ AllRequestsNumbered(num', toBroker')
         /\ AllAcksNumbered(num', toClient')
         /\ AckNumbered(num', rmsg')
         /\ \A q \in Queues :
              AllAcksNumbered(num', queue'[q]) /\ AllOfType(queue'[q], q)
         /\ queue'["UNSUBACK"] = <<>>
         /\ num'[c] = num[c] + 1
<1>1. num \in Counters /\ num' \in Counters
  BY CountersType, IssueType DEF Counters
<1>2. num' = [num EXCEPT ![c] = num[c] + 1]
  BY DEF Issue
<1>3. num'[c] = num[c] + 1 /\ \A d \in Calls : num[d] <= num'[d]
  BY <1>1, <1>2 DEF Counters
<1>4. sendByteTCP(p) /\ UNCHANGED <<toClient, queue, rmsg>>
  BY DEF Issue, threadVars
<1>5. AllRequestsNumbered(num', toBroker')
  BY <1>1, <1>3, <1>4, AckSend
<1>6. AllAcksNumbered(num', toClient) /\ AckNumbered(num', rmsg)
  BY <1>1, <1>3, AllNumberedKept, NumberedKept
  DEF AckInv, TypeOK, SocketTypeOK, ThreadTypeOK
<1>7. ASSUME NEW q \in Queues
      PROVE  AllAcksNumbered(num', queue[q])
  BY <1>1, <1>3, AllNumberedKept DEF AckInv, TypeOK, ThreadTypeOK
<1> QED
  BY <1>3, <1>4, <1>5, <1>6, <1>7 DEF AckInv

\* A call that goes on to wait for its acknowledgement.
LEMMA AckWait ==
  ASSUME TypeOK, AckInv, NEW c \in Calls, NEW p \in Packet, Issue(c, p),
         RequestNumbered(num', p), NEW tv, Wait(c, tv)
  PROVE  AckInv'
<1>1. app' = "call" /\ cur'.n = num[c] + 1 /\ cur'.call = c
  BY DEF Wait
<1>2. num'[c] = num[c] + 1 /\ num[c] \in Nat
  BY AckIssue DEF TypeOK, AppTypeOK
<1>3. cur'.n = num'[cur'.call]
  BY <1>1, <1>2
<1> QED
  BY <1>1, <1>3, AckIssue DEF AckInv

\* The k-th request of a kind, sent with the k-th id.
LEMMA RequestNumberedNext ==
  ASSUME TypeOK, NEW c \in {"publish", "subscribe", "unsubscribe"},
         NEW t, NEW q \in {0, 1},
         <<t, c>> \in {<<"PUBLISH", "publish">>, <<"SUBSCRIBE", "subscribe">>,
                      <<"UNSUBSCRIBE", "unsubscribe">>},
         num' = [num EXCEPT ![c] = @ + 1]
  PROVE  LET k == num[c] + 1
         IN  /\ MkPacket(t, q, MessageId(k), k) \in Packet
             /\ RequestNumbered(num', MkPacket(t, q, MessageId(k), k))
<1> DEFINE k == num[c] + 1
           p == MkPacket(t, q, MessageId(k), k)
<1>1. c \in Calls /\ t \in Types
  BY DEF Calls, Types
<1>2. k \in Nat /\ k > 0 /\ num'[c] = k
  BY <1>1 DEF TypeOK, AppTypeOK
<1>3. MessageId(k) \in Nat
  BY <1>2, MessageIdType
<1>4. p \in Packet /\ p.type = t /\ p.id = MessageId(k) /\ p.n = k
  BY <1>1, <1>2, <1>3, MkPacketType
<1>5. p.n \in 1..num'[c] /\ p.id = MessageId(p.n)
  BY <1>2, <1>4
<1>6. RequestNumbered(num', p)
  BY <1>4, <1>5 DEF RequestNumbered, Numbered
<1> QED
  BY <1>4, <1>6

\* Taking a packet off a queue.
LEMMA AckDequeue ==
  ASSUME TypeOK, AckInv, Finds, Dequeue, UNCHANGED num
  PROVE  /\ Taken \in Packet /\ Taken.type = QueueTaken[cur.call]
         /\ AckNumbered(num, Taken)
         /\ \A q \in Queues :
              AllAcksNumbered(num', queue'[q]) /\ AllOfType(queue'[q], q)
         /\ queue'["UNSUBACK"] = <<>>
<1> DEFINE t == QueueTaken[cur.call]
           s == queue[t]
<1>1. t \in Queues
  BY DEF Finds, Polling, TypeOK, AppTypeOK, Calls, Queues, QueueTaken
<1>2. s \in Seq(Packet) /\ s # <<>> /\ Taken = Head(s)
  BY <1>1 DEF Finds, Taken, TypeOK, ThreadTypeOK
<1>3. AllAcksNumbered(num, s) /\ AllOfType(s, t)
  BY <1>1 DEF AckInv
<1>4. /\ AllAcksNumbered(num, Tail(s)) /\ AllOfType(Tail(s), t)
      /\ AckNumbered(num, Taken) /\ Taken.type = t /\ Taken \in Packet
  BY <1>2, <1>3, TailNumbered, TailOfType, HeadTailType
<1>5. queue' = [queue EXCEPT ![t] = Tail(s)] /\ queue \in [Queues -> Seq(Packet)]
  BY DEF Dequeue, TypeOK, ThreadTypeOK
<1>6. \A q \in Queues : queue'[q] = IF q = t THEN Tail(s) ELSE queue[q]
  BY <1>1, <1>5
<1>7. t # "UNSUBACK" /\ "UNSUBACK" \in Queues
  BY <1>2 DEF AckInv, Queues
<1> QED
  BY <1>4, <1>6, <1>7 DEF AckInv

\* Nothing is on its way in the initial state.
LEMMA AckInit == Init => AckInv
<1> SUFFICES ASSUME Init PROVE AckInv
  OBVIOUS
<1>1. toBroker = <<>> /\ toClient = <<>> /\ app # "call"
  BY DEF Init, SocketInit
<1>2. \A q \in Queues : queue[q] = <<>>
  BY DEF Init
<1>3. rmsg.type = "PINGRESP"
  BY MkPacketType DEF Init, NoPacket, Types
<1>4. \A t \in Queues : AllOfType(<<>>, t)
  BY DEF AllOfType
<1>5. "UNSUBACK" \in Queues
  BY DEF Queues
<1>6. AckNumbered(num, rmsg)
  BY <1>3, PlainAck
<1> QED
  BY <1>1, <1>2, <1>4, <1>5, <1>6, EmptyNumbered DEF AckInv

\* The broker numbers its acknowledgements like the requests it answers.
LEMMA AckBroker ==
  ASSUME TypeOK, AckInv, BrokerActs
  PROVE  AckInv'
<1>1. toBroker \in Seq(Packet) /\ toClient \in Seq(Packet)
  BY DEF TypeOK, SocketTypeOK
<1>2. Serving => /\ Request \in Packet /\ RequestNumbered(num, Request)
                 /\ AllRequestsNumbered(num, Tail(toBroker))
  BY <1>1, TailNumbered, HeadTailType DEF Serving, Request, AckInv
<1>3. ASSUME NEW p \in Packet, AckNumbered(num, p), Reply(p)
      PROVE  AllAcksNumbered(num, toClient')
  BY <1>1, <1>3, AppendNumbered DEF Reply, AckInv
<1>4. ASSUME NEW u, HangUp(u) PROVE AllRequestsNumbered(num, toBroker')
  BY <1>4, EmptyNumbered DEF HangUp
<1>5. /\ UNCHANGED <<num, queue, rmsg, app, cur>>
      /\ BrokerNext
  BY DEF BrokerActs, appVars, threadVars
<1>6. SUFFICES /\ AllRequestsNumbered(num, toBroker')
               /\ AllAcksNumbered(num, toClient')
  BY <1>5 DEF AckInv
<1>7. CASE BrokerConnack
  <2>1. PICK rc \in ReturnCodes : Reply(MkPacket("CONNACK", 0, rc, Request.n))
    BY <1>7 DEF BrokerConnack
  <2>2. rc \in Nat /\ Request.n \in Nat
    BY <1>2, <1>7, BrokerAssumption, PacketType DEF BrokerConnack
  <2> DEFINE p == MkPacket("CONNACK", 0, rc, Request.n)
  <2>3. p \in Packet /\ p.type = "CONNACK"
    BY <2>2, ConnackType
  <2>4. AckNumbered(num, p)
    BY <2>3, PlainAck
  <2>5. AllAcksNumbered(num, toClient')
    BY <2>1, <2>3, <2>4, <1>3
  <2>6. HangUp(Tail(toBroker)) \/ toBroker' = Tail(toBroker)
    BY <1>7 DEF BrokerConnack
  <2>7. AllRequestsNumbered(num, toBroker')
    BY <1>2, <1>4, <1>7, <2>6 DEF BrokerConnack
  <2> QED
    BY <2>5, <2>7
<1>8. CASE BrokerAck
  <2> DEFINE p == MkPacket(AckType[Request.type], 0, Request.id, Request.n)
  <2>1. Request \in Packet /\ Request.type \in Acknowledged /\ RequestNumbered(num, Request)
    BY <1>2, <1>8 DEF BrokerAck
  <2>2. /\ p \in Packet /\ p.type = AckType[Request.type]
        /\ p.id = Request.id /\ p.n = Request.n
    <3>1. AckType[Request.type] \in Types
      BY <2>1, AckTypeType
    <3>2. Request.id \in Nat /\ Request.n \in Nat
      BY <2>1, PacketType
    <3> QED
      BY <3>1, <3>2, MkPacketType
  <2>3. AckNumbered(num, p)
    <3>1. CASE Request.type = "PUBLISH"
      BY <2>1, <2>2, <3>1 DEF AckType, AckNumbered, RequestNumbered, Numbered
    <3>2. CASE Request.type = "SUBSCRIBE"
      BY <2>1, <2>2, <3>2 DEF AckType, AckNumbered, RequestNumbered, Numbered
    <3>3. CASE Request.type = "UNSUBSCRIBE"
      BY <2>1, <2>2, <3>3 DEF AckType, AckNumbered, RequestNumbered, Numbered
    <3>4. CASE Request.type = "PINGREQ"
      BY <2>2, <3>4, PlainAck DEF AckType
    <3> QED
      BY <2>1, <3>1, <3>2, <3>3, <3>4 DEF Acknowledged
  <2>4. AllAcksNumbered(num, toClient')
    BY <1>3, <1>8, <2>2, <2>3 DEF BrokerAck
  <2> QED
    BY <1>2, <1>8, <2>4 DEF BrokerAck
<1>9. CASE BrokerSilent
  BY <1>2, <1>9 DEF BrokerSilent, AckInv
<1>10. CASE BrokerHangsUp
  BY <1>4, <1>10 DEF BrokerHangsUp, AckInv
<1>11. CASE BrokerCloses
  BY <1>4, <1>11 DEF BrokerCloses, AckInv
<1>12. CASE BrokerPublishes
  <2> DEFINE p == MkPacket("PUBLISH", 0, 0, nMsg + 1)
  <2>1. nMsg + 1 \in Nat
    BY DEF TypeOK, BrokerTypeOK
  <2>2. p \in Packet /\ p.type = "PUBLISH"
    BY <2>1, MkPacketType DEF Types
  <2>3. AckNumbered(num, p)
    BY <2>2, PlainAck
  <2> QED
    BY <1>3, <1>12, <2>2, <2>3 DEF BrokerPublishes, AckInv
<1> QED
  BY <1>5, <1>7, <1>8, <1>9, <1>10, <1>11, <1>12 DEF BrokerNext, BrokerServes

\* Every step of the system keeps AckInv.
LEMMA AckNext ==
  ASSUME TypeOK, AckInv, [Next]_vars
  PROVE  AckInv'
<1>1. ASSUME NEW ok \in BOOLEAN, Start(ok) PROVE AckInv'
  BY <1>1, EmptyNumbered DEF Start, connectionTCP, AckInv
<1>2. ASSUME NEW value \in BOOLEAN, SetStopThread(value) PROVE AckInv'
  BY <1>2 DEF SetStopThread, socketVars, appVars, AckInv
<1>3. CASE Disconnect
  <2> DEFINE p == MkPacket("DISCONNECT", 0, 0, 0)
  <2>1. p \in Packet /\ p.type = "DISCONNECT"
    BY MkPacketType DEF Types
  <2>2. RequestNumbered(num', p)
    BY <2>1, PlainRequest
  <2>3. AllRequestsNumbered(num', toBroker')
    BY <1>3, <2>1, <2>2, AckSend, CountersType DEF Disconnect, appVars
  <2> QED
    BY <1>3, <2>3 DEF Disconnect, appVars, threadVars, AckInv
<1>4. CASE GetMessage
  <2> DEFINE s == queue["PUBLISH"]
  <2>1. "PUBLISH" \in Queues /\ "UNSUBACK" \in Queues
    BY DEF Queues
  <2>2. s \in Seq(Packet) /\ s # <<>> /\ queue \in [Queues -> Seq(Packet)]
    BY <1>4, <2>1 DEF GetMessage, TypeOK, ThreadTypeOK
  <2>3. AllAcksNumbered(num, Tail(s)) /\ AllOfType(Tail(s), "PUBLISH")
    BY <2>1, <2>2, TailNumbered, TailOfType DEF AckInv
  <2>4. \A q \in Queues : queue'[q] = IF q = "PUBLISH" THEN Tail(s) ELSE queue[q]
    BY <1>4, <2>2 DEF GetMessage
  <2> QED
    BY <1>4, <2>1, <2>3, <2>4 DEF GetMessage, socketVars, threadVars, AckInv
<1>5. CASE Connect
  <2> DEFINE p == MkPacket("CONNECT", 0, 0, num["connect"] + 1)
  <2>1. num["connect"] + 1 \in Nat
    BY DEF TypeOK, AppTypeOK, Calls
  <2>2. p \in Packet /\ p.type = "CONNECT"
    BY <2>1, MkPacketType DEF Types
  <2>3. RequestNumbered(num', p)
    BY <2>2, PlainRequest
  <2> QED
    BY <1>5, <2>2, <2>3, AckWait DEF Connect, Calls
<1>6. ASSUME NEW qos \in {0, 1}, Publish(qos) PROVE AckInv'
  <2> DEFINE k == num["publish"] + 1
             p == MkPacket("PUBLISH", qos, MessageId(k), k)
  <2>1. Issue("publish", p) /\ num' = [num EXCEPT !["publish"] = @ + 1]
    BY <1>6 DEF Publish, Issue
  <2>2. p \in Packet /\ RequestNumbered(num', p)
    BY <2>1, RequestNumberedNext
  <2>3. "publish" \in Calls
    BY DEF Calls
  <2>4. CASE qos = 1
    BY <1>6, <2>1, <2>2, <2>3, <2>4, AckWait DEF Publish
  <2>5. CASE qos # 1
    <3>1. app' # "call"
      BY <1>6, <2>1, <2>5 DEF Publish, Issue, Idle
    <3> QED
      BY <2>1, <2>2, <2>3, <3>1, AckIssue DEF AckInv
  <2> QED
    BY <2>4, <2>5
<1>7. ASSUME NEW tv \in TopicVectors, Subscribe(tv) PROVE AckInv'
  <2> DEFINE k == num["subscribe"] + 1
             p == MkPacket("SUBSCRIBE", 1, MessageId(k), k)
  <2>1. /\ Issue("subscribe", p) /\ Wait("subscribe", tv)
        /\ num' = [num EXCEPT !["subscribe"] = @ + 1]
    BY <1>7 DEF Subscribe, Issue
  <2>2. p \in Packet /\ RequestNumbered(num', p)
    BY <2>1, RequestNumberedNext
  <2> QED
    BY <2>1, <2>2, AckWait DEF Calls
<1>8. ASSUME NEW tv \in TopicVectors, Unsubscribe(tv) PROVE AckInv'
  <2> DEFINE k == num["unsubscribe"] + 1
             p == MkPacket("UNSUBSCRIBE", 1, MessageId(k), k)
  <2>1. /\ Issue("unsubscribe", p) /\ Wait("unsubscribe", tv)
        /\ num' = [num EXCEPT !["unsubscribe"] = @ + 1]
    BY <1>8 DEF Unsubscribe, Issue
  <2>2. p \in Packet /\ RequestNumbered(num', p)
    BY <2>1, RequestNumberedNext
  <2> QED
    BY <2>1, <2>2, AckWait DEF Calls
<1>9. CASE Stop \/ Destroy
  BY <1>9 DEF Stop, Destroy, Join, socketVars, AckInv
<1>10. ASSUME Retry \/ (\E v, a : Return(v, a)), app = "call"
       PROVE  app' = "call" => cur'.n = cur.n /\ cur'.call = cur.call
  <2>1. cur \in [call : Calls \cup {"none", "stop", "destroy"}, n : Nat,
                 left : 0..MaxAttempts, arg : TopicVectors \cup {<<>>}]
    BY DEF TypeOK, AppTypeOK
  <2> QED
    BY <1>10, <2>1 DEF Retry, Return
<1>11. CASE PollEmpty
  BY <1>10, <1>11 DEF PollEmpty, Polling, socketVars, threadVars, AckInv
<1>12. CASE PollThrows
  BY <1>10, <1>12 DEF PollThrows, Polling, socketVars, threadVars, AckInv
<1>13. CASE PollConnack
  <2>1. Finds /\ Dequeue /\ UNCHANGED <<num, toBroker, toClient, rmsg>> /\ app' # "call"
    BY <1>13 DEF PollConnack, Return
  <2> QED
    BY <2>1, AckDequeue DEF AckInv
<1>14. CASE PollPuback
  <2>1. /\ Finds /\ Dequeue /\ UNCHANGED <<num, toBroker, toClient, rmsg>>
        /\ app' = "call" => cur'.n = cur.n /\ cur'.call = cur.call
        /\ app = "call"
    BY <1>10, <1>14 DEF PollPuback, Finds, Polling, socketVars, threadVars
  <2> QED
    BY <2>1, AckDequeue DEF AckInv
<1>15. CASE PollSuback
  <2>1. Finds /\ Dequeue /\ UNCHANGED <<num, toBroker, toClient, rmsg>> /\ app' # "call"
    BY <1>15 DEF PollSuback, Return, socketVars, threadVars
  <2> QED
    BY <2>1, AckDequeue DEF AckInv
<1>16. CASE JoinReader
  BY <1>16 DEF JoinReader, socketVars, AckInv
<1>17. CASE JoinKeepAlive
  BY <1>17, EmptyNumbered DEF JoinKeepAlive, closeTCP, AckInv
<1>18. CASE ReaderEnter
  BY <1>18 DEF ReaderEnter, appVars, AckInv
<1>19. CASE ReaderReads
  <2>1. PICK k \in 1..Len(toClient) :
          readData(k, Head(toClient)) /\ rmsg' = Head(toClient)
    BY <1>19 DEF ReaderReads
  <2>2. toClient \in Seq(Packet) /\ toClient # <<>>
    BY <2>1 DEF TypeOK, SocketTypeOK
  <2>3. AckNumbered(num, rmsg') /\ AllAcksNumbered(num, toClient')
    BY <2>1, <2>2, TailNumbered, DropNumbered DEF readData, AckInv
  <2> QED
    BY <1>19, <2>3 DEF ReaderReads, appVars, AckInv
<1>20. CASE ReaderReadsNothing
  BY <1>20 DEF ReaderReadsNothing, readNothing, appVars, AckInv
<1>21. CASE ReaderAnalyzes
  <2>1. queue \in [Queues -> Seq(Packet)] /\ rmsg \in Packet
    BY DEF TypeOK, ThreadTypeOK
  <2>2. CASE rmsg.type \in Analyzed
    <3> DEFINE t == rmsg.type
               s == Append(queue[t], rmsg)
    <3>1. t \in Queues /\ t # "UNSUBACK" /\ "UNSUBACK" \in Queues
      BY <2>2 DEF Analyzed, Queues
    <3>2. AllAcksNumbered(num, s) /\ AllOfType(s, t)
      BY <2>1, <3>1, AppendNumbered, AppendOfType DEF AckInv
    <3>3. \A q \in Queues : queue'[q] = IF q = t THEN s ELSE queue[q]
      BY <1>21, <2>1, <2>2, <3>1 DEF ReaderAnalyzes
    <3> QED
      BY <1>21, <3>1, <3>2, <3>3 DEF ReaderAnalyzes, socketVars, appVars, AckInv
  <2>3. CASE rmsg.type \notin Analyzed
    BY <1>21, <2>3 DEF ReaderAnalyzes, socketVars, appVars, AckInv
  <2> QED
    BY <2>2, <2>3
<1>22. CASE ReaderSleeps
  BY <1>22 DEF ReaderSleeps, socketVars, appVars, AckInv
<1>23. CASE HeartbeatTicks
  <2> DEFINE p == MkPacket("PINGREQ", 0, 0, 0)
  <2>1. p \in Packet /\ p.type = "PINGREQ"
    BY MkPacketType DEF Types
  <2>2. RequestNumbered(num', p)
    BY <2>1, PlainRequest
  <2>3. sendByteTCP(p) \/ UNCHANGED toBroker
    BY <1>23 DEF HeartbeatTicks, Ping
  <2>4. UNCHANGED <<num, toClient, rmsg, queue, app, cur>>
    BY <1>23 DEF HeartbeatTicks, appVars
  <2>5. AllRequestsNumbered(num', toBroker')
    BY <2>1, <2>2, <2>3, <2>4, AckSend, CountersType DEF AckInv
  <2> QED
    BY <2>4, <2>5 DEF AckInv
<1>24. CASE HeartbeatChecks
  BY <1>24 DEF HeartbeatChecks, socketVars, appVars, AckInv
<1>25. CASE BrokerActs
  BY <1>25, AckBroker
<1>26. CASE UNCHANGED vars
  BY <1>26 DEF vars, socketVars, appVars, threadVars, AckInv
<1> QED
  BY <1>1, <1>2, <1>3, <1>4, <1>5, <1>6, <1>7, <1>8, <1>9, <1>11, <1>12,
     <1>13, <1>14, <1>15, <1>16, <1>17, <1>18, <1>19, <1>20, <1>21, <1>22,
     <1>23, <1>24, <1>25, <1>26
  DEF Next, AppCalls, AppWorks, ReaderNext, HeartbeatNext

\* AckInv holds in every reachable state.
THEOREM AcksNumbered == Spec => []AckInv
<1>1. Init => AckInv
  BY AckInit
<1>2. TypeOK /\ AckInv /\ [Next]_vars => AckInv'
  BY AckNext
<1> QED
  BY <1>1, <1>2, TypeCorrect, PTL DEF Spec

-----------------------------------------------------------------------------
(* What a returned id confirms.                                            *)

\* An acknowledgement taken by the call it matches answers that call's request, or
\* one of IdMod requests before.
LEMMA MatchAnswers ==
  ASSUME TypeOK, AckInv, Finds, Dequeue, UNCHANGED num, Matches(Taken),
         cur.call \in {"publish", "subscribe"}
  PROVE  Confirms(Taken.n, cur.n)
<1>1. /\ Taken \in Packet /\ Taken.type = QueueTaken[cur.call]
      /\ AckNumbered(num, Taken)
  BY AckDequeue
<1>2. Taken.n \in 1..num[cur.call] /\ Taken.id = MessageId(Taken.n)
  BY <1>1 DEF QueueTaken, AckNumbered, Numbered
<1>3. cur.n = num[cur.call] /\ num[cur.call] \in Nat
  BY DEF Finds, Polling, AckInv, TypeOK, AppTypeOK, Calls
<1>4. Taken.n \in 0..cur.n /\ cur.n \in Nat
  BY <1>2, <1>3
<1>5. MessageId(Taken.n) = MessageId(cur.n)
  BY <1>2 DEF Matches
<1> QED
  BY <1>4, <1>5, SameIdApart

\* Every step keeps PublishConfirmed, AckInv given.
LEMMA ConfirmedNext ==
  ASSUME TypeOK, AckInv, PublishConfirmed, [Next]_vars
  PROVE  PublishConfirmed'
<1>1. CASE UNCHANGED ret
  BY <1>1 DEF PublishConfirmed
<1>2. ASSUME NEW v, NEW a, Return(v, a),
             cur.call = "publish" /\ v # NothingResponse => Confirms(a, cur.n)
      PROVE  PublishConfirmed'
  BY <1>2 DEF Return, PublishConfirmed
<1>3. ASSUME Retry, UNCHANGED num PROVE PublishConfirmed'
  <2>1. CASE cur.left = 1
    BY <1>2, <1>3, <2>1 DEF Retry
  <2>2. CASE cur.left # 1
    BY <1>3, <2>2 DEF Retry, PublishConfirmed
  <2> QED
    BY <2>1, <2>2
<1>4. ASSUME NEW ok \in BOOLEAN, Start(ok) PROVE PublishConfirmed'
  BY <1>4 DEF Start, PublishConfirmed
<1>5. ASSUME NEW qos \in {0, 1}, Publish(qos) PROVE PublishConfirmed'
  BY <1>1, <1>5 DEF Publish, Wait
<1>6. CASE \/ Connect
           \/ \E tv \in TopicVectors : Subscribe(tv)
           \/ \E tv \in TopicVectors : Unsubscribe(tv)
  BY <1>1, <1>6 DEF Connect, Subscribe, Unsubscribe, Wait
<1>7. CASE PollEmpty
  BY <1>3, <1>7 DEF PollEmpty
<1>8. CASE PollThrows
  <2>1. cur.call # "publish"
    BY <1>8 DEF PollThrows, QueueTested, QueueTaken
  <2> QED
    BY <1>2, <1>8, <2>1 DEF PollThrows
<1>9. CASE PollConnack
  BY <1>2, <1>9 DEF PollConnack
<1>10. CASE PollPuback
  <2>1. Finds /\ Dequeue /\ UNCHANGED num /\ cur.call = "publish"
    BY <1>10 DEF PollPuback
  <2>2. CASE Matches(Taken)
    BY <1>2, <1>10, <2>1, <2>2, MatchAnswers DEF PollPuback
  <2>3. CASE ~Matches(Taken)
    BY <1>3, <1>10, <2>1, <2>3 DEF PollPuback
  <2> QED
    BY <2>2, <2>3
<1>11. CASE PollSuback
  BY <1>2, <1>11 DEF PollSuback
<1>12. CASE BrokerActs
  BY <1>1, <1>12 DEF BrokerActs, appVars
<1>13. CASE ReaderNext \/ HeartbeatNext
  BY <1>1, <1>13
  DEF ReaderNext, ReaderEnter, ReaderReads, ReaderReadsNothing, ReaderAnalyzes,
      ReaderSleeps, HeartbeatNext, HeartbeatTicks, HeartbeatChecks, appVars
<1>14. CASE (\E value \in BOOLEAN : SetStopThread(value)) \/ Disconnect
  BY <1>1, <1>14 DEF SetStopThread, Disconnect, appVars
<1>15. CASE GetMessage
  BY <1>1, <1>15 DEF GetMessage
<1>16. CASE Stop \/ Destroy \/ JoinReader \/ JoinKeepAlive
  BY <1>1, <1>16 DEF Stop, Destroy, Join, JoinReader, JoinKeepAlive
<1>17. CASE UNCHANGED vars
  BY <1>1, <1>17 DEF vars, appVars
<1> QED
  BY <1>4, <1>5, <1>6, <1>7, <1>8, <1>9, <1>10, <1>11, <1>12, <1>13, <1>14, <1>15,
     <1>16, <1>17
  DEF Next, AppCalls, AppWorks

\* A QoS 1 publish that returns an id was acknowledged by the broker for that
\* very packet, or for one so long ago that all ids have been used since.
THEOREM PublishIsConfirmed == Spec => []PublishConfirmed
<1>1. Init => PublishConfirmed
  BY DEF Init, PublishConfirmed
<1>2. TypeOK /\ AckInv /\ PublishConfirmed /\ [Next]_vars => PublishConfirmed'
  BY ConfirmedNext
<1> QED
  BY <1>1, <1>2, TypeCorrect, AcksNumbered, PTL DEF Spec

\* Every step records only granted topics, AckInv given.
LEMMA TopicsStep ==
  ASSUME TypeOK, AckInv, [Next]_vars, topics' # topics
  PROVE  /\ app = "call" /\ cur.call = "subscribe"
         /\ topics' = topics \o cur.arg
         /\ Confirms(ret'.ack, cur.n)
<1>1. PollSuback
  BY DEF Next, AppCalls, AppWorks, ReaderNext, HeartbeatNext, BrokerActs, Start,
         SetStopThread, Disconnect, GetMessage, Connect, Publish, Subscribe,
         Unsubscribe, Issue, Stop, Destroy, Join, PollEmpty, PollThrows,
         PollConnack, PollPuback, JoinReader, JoinKeepAlive, ReaderEnter,
         ReaderReads, ReaderReadsNothing, ReaderAnalyzes, ReaderSleeps,
         HeartbeatTicks, HeartbeatChecks, vars, appVars
<1>2. Finds /\ Dequeue /\ UNCHANGED num /\ Matches(Taken) /\ topics' = topics \o cur.arg
  BY <1>1 DEF PollSuback
<1>3. cur.call = "subscribe"
  BY <1>1, <1>2 DEF PollSuback, Finds, QueueTaken, AckInv
<1>4. Confirms(Taken.n, cur.n)
  BY <1>2, <1>3, MatchAnswers
<1> QED
  BY <1>1, <1>2, <1>3, <1>4 DEF PollSuback, Return, Finds, Polling

\* topics grows only by the topics of a subscribe that the broker acknowledged, or
\* one so long ago that all ids have been used since.
THEOREM TopicsAreGranted == Spec => TopicsAfterGrant
<1>1. TypeOK /\ AckInv /\ [Next]_vars =>
        [topics' # topics =>
           /\ app = "call" /\ cur.call = "subscribe"
           /\ topics' = topics \o cur.arg
           /\ Confirms(ret'.ack, cur.n)]_vars
  BY TopicsStep
<1> QED
  BY <1>1, TypeCorrect, AcksNumbered, PTL DEF Spec, TopicsAfterGrant

=============================================================================
