--------------------------- MODULE DeliveryProofs ---------------------------
(***************************************************************************)
(* PablittoMQTT implements Delivery: what get_message hands out comes in   *)
(* the order of publication and never twice.                               *)
(***************************************************************************)
EXTENDS PablittoMQTTProofs

-----------------------------------------------------------------------------
(* Streams of messages.                                                    *)

\* The empty stream is in order, within any bounds, before and after any other.
LEMMA EmptyStream ==
  ASSUME NEW s
  PROVE  /\ InOrder(<<>>) /\ Precedes(<<>>, s) /\ Precedes(s, <<>>)
         /\ \A low, high : Within(<<>>, low, high)
  BY DEF InOrder, Precedes, Within

\* A single packet.
LEMMA OnePacket ==
  ASSUME NEW p
  PROVE  /\ Len(<<p>>) = 1 /\ <<p>>[1] = p
         /\ ~IsMessage(p) => /\ \A s : Precedes(s, <<p>>) /\ Precedes(<<p>>, s)
                             /\ \A low, high : Within(<<p>>, low, high)
  BY DEF Precedes, Within

\* A packet that follows a stream may be appended to it.
LEMMA AppendStream ==
  ASSUME NEW s \in Seq(Packet), NEW p \in Packet, NEW low, NEW high
  PROVE  /\ InOrder(s) /\ Precedes(s, <<p>>) => InOrder(Append(s, p))
         /\ Within(s, low, high) /\ Within(<<p>>, low, high)
              => Within(Append(s, p), low, high)
         /\ \A t : Precedes(s, t) /\ Precedes(<<p>>, t) => Precedes(Append(s, p), t)
         /\ \A t : Precedes(t, s) /\ Precedes(t, <<p>>) => Precedes(t, Append(s, p))
<1> DEFINE a == Append(s, p)
<1>1. /\ Len(a) = Len(s) + 1 /\ Len(s) \in Nat
      /\ \A i \in 1..Len(s) : a[i] = s[i]
      /\ a[Len(s) + 1] = p
  OBVIOUS
<1>2. Len(<<p>>) = 1 /\ <<p>>[1] = p
  OBVIOUS
<1>3. InOrder(s) /\ Precedes(s, <<p>>) => InOrder(a)
  BY <1>1, <1>2 DEF InOrder, Precedes
<1>4. Within(s, low, high) /\ Within(<<p>>, low, high) => Within(a, low, high)
  BY <1>1, <1>2 DEF Within
<1>5. ASSUME NEW t, Precedes(s, t), Precedes(<<p>>, t) PROVE Precedes(a, t)
  BY <1>1, <1>2, <1>5 DEF Precedes
<1>6. ASSUME NEW t, Precedes(t, s), Precedes(t, <<p>>) PROVE Precedes(t, a)
  BY <1>1, <1>2, <1>6 DEF Precedes
<1> QED
  BY <1>3, <1>4, <1>5, <1>6

\* Dropping packets from the front of a stream.
LEMMA DropStream ==
  ASSUME NEW s \in Seq(Packet), NEW k \in 1..Len(s), NEW low, NEW high
  PROVE  LET d == SubSeq(s, k + 1, Len(s))
         IN  /\ InOrder(s) => InOrder(d) /\ Precedes(<<Head(s)>>, d)
             /\ Within(s, low, high) => Within(d, low, high) /\ Within(<<Head(s)>>, low, high)
             /\ \A t : Precedes(t, s) => Precedes(t, d) /\ Precedes(t, <<Head(s)>>)
<1> DEFINE d == SubSeq(s, k + 1, Len(s))
           h == <<Head(s)>>
<1>1. /\ Len(d) = Len(s) - k /\ Len(s) \in Nat
      /\ \A i \in 1..(Len(s) - k) : d[i] = s[k + i]
  BY DropType
<1>2. Len(h) = 1 /\ h[1] = s[1] /\ Len(s) >= 1
  OBVIOUS
<1>3. InOrder(s) => InOrder(d)
  <2>1. SUFFICES ASSUME InOrder(s), NEW i \in 1..Len(d), NEW j \in 1..Len(d), i < j,
                        IsMessage(d[i]), IsMessage(d[j])
                 PROVE  d[i].n < d[j].n
    BY DEF InOrder
  <2>2. d[i] = s[k + i] /\ d[j] = s[k + j]
    <3> HIDE DEF d
    <3> QED
      BY <1>1, <2>1
  <2>3. k + i \in 1..Len(s) /\ k + j \in 1..Len(s) /\ k + i < k + j
    <3> HIDE DEF d
    <3> QED
      BY <1>1, <2>1
  <2> HIDE DEF d
  <2> QED
    BY <2>1, <2>2, <2>3 DEF InOrder
<1>4. InOrder(s) => Precedes(h, d)
  BY <1>1, <1>2 DEF InOrder, Precedes
<1>5. Within(s, low, high) => Within(d, low, high) /\ Within(h, low, high)
  BY <1>1, <1>2 DEF Within
<1>6. ASSUME NEW t, Precedes(t, s) PROVE Precedes(t, d) /\ Precedes(t, h)
  BY <1>1, <1>2, <1>6 DEF Precedes
<1> QED
  BY <1>3, <1>4, <1>5, <1>6

\* Taking the first message off a stream of messages raises the lower bound of
\* what is left, and of every stream that follows.
LEMMA TailStream ==
  ASSUME NEW s \in Seq(Packet), s # <<>>, AllOfType(s, "PUBLISH"), InOrder(s),
         NEW low, NEW high, Within(s, low, high)
  PROVE  /\ InOrder(Tail(s)) /\ AllOfType(Tail(s), "PUBLISH")
         /\ low < Head(s).n /\ Head(s).n <= high
         /\ Within(Tail(s), Head(s).n, high)
         /\ \A t : Precedes(s, t) => Precedes(Tail(s), t)
         /\ \A t : Precedes(s, t) /\ Within(t, low, high) => Within(t, Head(s).n, high)
<1> DEFINE d == Tail(s)
<1>1. /\ Len(d) = Len(s) - 1 /\ Len(s) \in Nat /\ Len(s) >= 1
      /\ \A i \in 1..Len(d) : d[i] = s[i + 1]
      /\ Head(s) = s[1]
  BY HeadTailProperties
<1>2. \A i \in 1..Len(s) : IsMessage(s[i])
  BY DEF AllOfType, IsMessage
<1>3. InOrder(d) /\ AllOfType(d, "PUBLISH")
  BY <1>1 DEF InOrder, AllOfType
<1>4. low < Head(s).n /\ Head(s).n <= high
  BY <1>1, <1>2 DEF Within
<1>5. Within(d, Head(s).n, high)
  BY <1>1, <1>2 DEF Within, InOrder
<1>6. ASSUME NEW t, Precedes(s, t) PROVE Precedes(d, t)
  BY <1>1, <1>6 DEF Precedes
<1>7. ASSUME NEW t, Precedes(s, t), Within(t, low, high) PROVE Within(t, Head(s).n, high)
  BY <1>1, <1>2, <1>7 DEF Precedes, Within
<1> QED
  BY <1>3, <1>4, <1>5, <1>6, <1>7

\* The next message may follow whatever has been published.
LEMMA NextMessage ==
  ASSUME NEW s \in Seq(Packet), NEW p \in Packet, NEW low \in Nat, NEW high \in Nat,
         Within(s, low, high), low <= high, p.n = high + 1
  PROVE  /\ Within(s, low, high + 1) /\ Within(<<p>>, low, high + 1)
         /\ Precedes(s, <<p>>)
<1>1. \A i \in 1..Len(s) : s[i].n \in Nat
  BY PacketType
<1>2. Len(<<p>>) = 1 /\ <<p>>[1] = p
  OBVIOUS
<1> QED
  BY <1>1, <1>2 DEF Within, Precedes

-----------------------------------------------------------------------------
(* PipeInv is inductive.                                                   *)

\* No message is on its way in the initial state.
LEMMA PipeInit == Init => PipeInv
<1> SUFFICES ASSUME Init PROVE PipeInv
  OBVIOUS
<1>1. queue["PUBLISH"] = <<>> /\ toClient = <<>> /\ Hand = <<>>
  BY DEF Init, SocketInit, Queues, Hand
<1>2. got = 0 /\ nMsg = 0
  BY DEF Init, BrokerInit
<1>3. AllOfType(<<>>, "PUBLISH")
  BY DEF AllOfType
<1> QED
  BY <1>1, <1>2, <1>3, EmptyStream DEF PipeInv

\* The streams of PipeInv and their types.
LEMMA PipeType ==
  ASSUME TypeOK
  PROVE  /\ queue["PUBLISH"] \in Seq(Packet) /\ Hand \in Seq(Packet)
         /\ toClient \in Seq(Packet) /\ rmsg \in Packet
         /\ got \in Nat /\ nMsg \in Nat
<1>1. queue["PUBLISH"] \in Seq(Packet)
  BY DEF TypeOK, ThreadTypeOK, Queues
<1>2. Hand \in Seq(Packet) /\ rmsg \in Packet
  BY DEF TypeOK, ThreadTypeOK, Hand
<1>3. toClient \in Seq(Packet)
  BY DEF TypeOK, SocketTypeOK
<1> QED
  BY <1>1, <1>2, <1>3 DEF TypeOK, AppTypeOK, BrokerTypeOK

\* The broker appends to the stream only packets that are no messages, and the
\* next message.
LEMMA PipeBroker ==
  ASSUME TypeOK, PipeInv, BrokerActs
  PROVE  PipeInv'
<1> DEFINE Q == queue["PUBLISH"]
<1>1. UNCHANGED <<Q, Hand, got>>
  BY DEF BrokerActs, appVars, threadVars, Hand
<1>2. CASE UNCHANGED <<toClient, nMsg>>
  BY <1>1, <1>2 DEF PipeInv
<1>3. ASSUME NEW p \in Packet, p.type # "PUBLISH", toClient' = Append(toClient, p),
             UNCHANGED nMsg
      PROVE  PipeInv'
  <2>1. /\ \A s : Precedes(s, <<p>>)
        /\ Within(<<p>>, got, nMsg)
    BY <1>3, OnePacket DEF IsMessage
  <2>2. /\ InOrder(toClient') /\ Within(toClient', got, nMsg)
        /\ Precedes(Q, toClient') /\ Precedes(Hand, toClient')
    BY <1>3, <2>1, PipeType, AppendStream DEF PipeInv
  <2> QED
    BY <1>1, <1>3, <2>2 DEF PipeInv
<1>4. CASE BrokerConnack
  <2>1. PICK rc \in ReturnCodes : Reply(MkPacket("CONNACK", 0, rc, Request.n))
    BY <1>4 DEF BrokerConnack
  <2>2. Request \in Packet
    BY <1>4, HeadTailType DEF BrokerConnack, Serving, Request, TypeOK, SocketTypeOK
  <2>3. rc \in Nat /\ Request.n \in Nat
    BY <2>2, BrokerAssumption, PacketType
  <2>4. /\ MkPacket("CONNACK", 0, rc, Request.n) \in Packet
        /\ MkPacket("CONNACK", 0, rc, Request.n).type = "CONNACK"
    BY <2>3, ConnackType
  <2> QED
    BY <1>3, <1>4, <2>1, <2>4 DEF BrokerConnack, Reply
<1>5. CASE BrokerAck
  <2>1. Request \in Packet /\ Request.type \in Acknowledged
    BY <1>5, HeadTailType DEF BrokerAck, Serving, Request, TypeOK, SocketTypeOK
  <2>2. AckType[Request.type] \in Types \ {"PUBLISH"}
    BY <2>1 DEF Acknowledged, AckType, Types
  <2> DEFINE p == MkPacket(AckType[Request.type], 0, Request.id, Request.n)
  <2>3. Request.id \in Nat /\ Request.n \in Nat
    BY <2>1, PacketType
  <2>4. p \in Packet /\ p.type # "PUBLISH"
    BY <2>2, <2>3, MkPacketType
  <2> QED
    BY <1>3, <1>5, <2>4 DEF BrokerAck, Reply
<1>6. CASE BrokerSilent \/ BrokerHangsUp \/ BrokerCloses
  BY <1>2, <1>6 DEF BrokerSilent, BrokerHangsUp, BrokerCloses
<1>7. CASE BrokerPublishes
  <2> DEFINE p == MkPacket("PUBLISH", 0, 0, nMsg + 1)
  <2>1. nMsg' = nMsg + 1 /\ toClient' = Append(toClient, p)
    BY <1>7 DEF BrokerPublishes, Reply
  <2>2. p \in Packet /\ p.n = nMsg + 1
    <3>1. nMsg + 1 \in Nat
      BY PipeType
    <3>2. "PUBLISH" \in Types
      BY DEF Types
    <3> QED
      BY <3>1, <3>2, MkPacketType
  <2>3. /\ \A s \in {Q, Hand, toClient} : Within(s, got, nMsg + 1) /\ Precedes(s, <<p>>)
        /\ Within(<<p>>, got, nMsg + 1)
    BY <2>2, PipeType, NextMessage DEF PipeInv
  <2>4. /\ InOrder(toClient') /\ Within(toClient', got, nMsg + 1)
        /\ Precedes(Q, toClient') /\ Precedes(Hand, toClient')
    BY <2>1, <2>2, <2>3, PipeType, AppendStream DEF PipeInv
  <2>5. got <= nMsg + 1
    BY PipeType DEF PipeInv
  <2> QED
    BY <1>1, <2>1, <2>3, <2>4, <2>5 DEF PipeInv
<1> QED
  BY <1>4, <1>5, <1>6, <1>7 DEF BrokerActs, BrokerNext, BrokerServes

\* Every step of the system keeps PipeInv.
LEMMA PipeNext ==
  ASSUME TypeOK, PipeInv, [Next]_vars
  PROVE  PipeInv'
<1> DEFINE Q == queue["PUBLISH"]
<1>1. ASSUME UNCHANGED <<Q, Hand, got, nMsg>>, toClient' \in {toClient, <<>>}
      PROVE  PipeInv'
  BY <1>1, EmptyStream DEF PipeInv
<1>2. ASSUME NEW ok \in BOOLEAN, Start(ok) PROVE PipeInv'
  <2>1. toClient' = <<>> /\ UNCHANGED <<queue, got, nMsg, rmsg>>
    BY <1>2 DEF Start, connectionTCP
  <2>2. Hand' = Hand
    BY <1>2 DEF Start, Hand
  <2> QED
    BY <1>1, <2>1, <2>2
<1>3. CASE (\E value \in BOOLEAN : SetStopThread(value)) \/ Disconnect
  BY <1>1, <1>3 DEF SetStopThread, Disconnect, socketVars, brokerVars, appVars,
     threadVars, Hand
<1>4. CASE GetMessage
  <2>1. /\ Q # <<>> /\ got' = Head(Q).n
        /\ UNCHANGED <<Hand, toClient, nMsg>>
    BY <1>4 DEF GetMessage, socketVars, brokerVars, threadVars, Hand
  <2>2. queue'["PUBLISH"] = Tail(Q)
    BY <1>4 DEF GetMessage, TypeOK, ThreadTypeOK, Queues
  <2>3. /\ Head(Q).n <= nMsg
        /\ InOrder(Tail(Q)) /\ AllOfType(Tail(Q), "PUBLISH")
        /\ Within(Tail(Q), Head(Q).n, nMsg)
        /\ \A t \in {Hand, toClient} :
             Precedes(Tail(Q), t) /\ Within(t, Head(Q).n, nMsg)
    BY <2>1, PipeType, TailStream DEF PipeInv
  <2> QED
    BY <2>1, <2>2, <2>3 DEF PipeInv
<1>5. CASE \/ Connect
           \/ \E qos \in {0, 1} : Publish(qos)
           \/ \E tv \in TopicVectors : Subscribe(tv)
           \/ \E tv \in TopicVectors : Unsubscribe(tv)
  <2>1. \E c, p : Issue(c, p)
    BY <1>5 DEF Connect, Publish, Subscribe, Unsubscribe
  <2> QED
    BY <1>1, <2>1 DEF Issue, brokerVars, threadVars, Hand
<1>6. CASE Stop \/ Destroy \/ PollEmpty \/ PollThrows
  BY <1>1, <1>6 DEF Stop, Destroy, Join, PollEmpty, PollThrows, socketVars,
     brokerVars, threadVars, Hand
<1>7. ASSUME Finds, Dequeue PROVE queue'["PUBLISH"] = Q
  <2>1. QueueTaken[cur.call] # "PUBLISH"
    BY <1>7 DEF Finds, Polling, TypeOK, AppTypeOK, Calls, QueueTaken
  <2> QED
    BY <1>7, <2>1 DEF Dequeue, TypeOK, ThreadTypeOK, Queues
<1>8. CASE PollConnack
  BY <1>1, <1>7, <1>8 DEF PollConnack, brokerVars, Hand
<1>9. CASE PollPuback \/ PollSuback
  BY <1>1, <1>7, <1>9 DEF PollPuback, PollSuback, socketVars, brokerVars,
     threadVars, Hand
<1>10. CASE JoinReader
  BY <1>1, <1>10 DEF JoinReader, Joinable, socketVars, brokerVars, Hand
<1>11. CASE JoinKeepAlive
  BY <1>1, <1>11 DEF JoinKeepAlive, closeTCP, Hand
<1>12. CASE ReaderEnter
  BY <1>1, <1>12 DEF ReaderEnter, brokerVars, appVars, Hand
<1>13. CASE ReaderReads
  <2>1. PICK k \in 1..Len(toClient) :
          readData(k, Head(toClient)) /\ rmsg' = Head(toClient)
    BY <1>13 DEF ReaderReads
  <2> DEFINE d == SubSeq(toClient, k + 1, Len(toClient))
             h == <<Head(toClient)>>
  <2>2. /\ toClient' = d /\ Hand' = h
        /\ UNCHANGED <<queue, got, nMsg>>
    BY <1>13, <2>1 DEF ReaderReads, readData, brokerVars, appVars, Hand
  <2>3. /\ InOrder(d) /\ Precedes(h, d)
        /\ Within(d, got, nMsg) /\ Within(h, got, nMsg)
        /\ Precedes(Q, d) /\ Precedes(Q, h)
    BY PipeType, DropStream DEF PipeInv
  <2> QED
    BY <2>2, <2>3 DEF PipeInv
<1>14. CASE ReaderReadsNothing
  BY <1>1, <1>14 DEF ReaderReadsNothing, readNothing, brokerVars, appVars, Hand
<1>15. CASE ReaderAnalyzes
  <2>1. Hand = <<rmsg>> /\ Hand' = <<>> /\ UNCHANGED <<toClient, got, nMsg>>
    BY <1>15 DEF ReaderAnalyzes, socketVars, brokerVars, appVars, Hand
  <2>2. CASE rmsg.type = "PUBLISH"
    <3>1. queue'["PUBLISH"] = Append(Q, rmsg)
      BY <1>15, <2>2 DEF ReaderAnalyzes, Analyzed, TypeOK, ThreadTypeOK, Queues
    <3> DEFINE a == Append(Q, rmsg)
    <3>2. InOrder(a) /\ Within(a, got, nMsg) /\ Precedes(a, toClient)
      BY <2>1, PipeType, AppendStream DEF PipeInv
    <3>3. AllOfType(a, "PUBLISH")
      BY <2>2, PipeType DEF PipeInv, AllOfType
    <3> QED
      BY <2>1, <3>1, <3>2, <3>3, EmptyStream DEF PipeInv
  <2>3. CASE rmsg.type # "PUBLISH"
    <3>1. queue'["PUBLISH"] = Q
      BY <1>15, <2>3 DEF ReaderAnalyzes, TypeOK, ThreadTypeOK, Queues
    <3> QED
      BY <2>1, <3>1, EmptyStream DEF PipeInv
  <2> QED
    BY <2>2, <2>3
<1>16. CASE ReaderSleeps
  BY <1>1, <1>16 DEF ReaderSleeps, socketVars, brokerVars, appVars, Hand
<1>17. CASE HeartbeatNext
  BY <1>1, <1>17 DEF HeartbeatNext, HeartbeatTicks, HeartbeatChecks, socketVars,
     brokerVars, appVars, Hand
<1>18. CASE BrokerActs
  BY <1>18, PipeBroker
<1>19. CASE UNCHANGED vars
  BY <1>1, <1>19 DEF vars, socketVars, brokerVars, appVars, threadVars, Hand
<1> QED
  BY <1>2, <1>3, <1>4, <1>5, <1>6, <1>8, <1>9, <1>10, <1>11, <1>12, <1>13,
     <1>14, <1>15, <1>16, <1>17, <1>18, <1>19
  DEF Next, AppCalls, AppWorks, ReaderNext

\* PipeInv holds in every reachable state.
THEOREM PipeInvariant == Spec => []PipeInv
<1>1. TypeOK /\ PipeInv /\ [Next]_vars => PipeInv'
  BY PipeNext
<1> QED
  BY <1>1, PipeInit, TypeCorrect, PTL DEF Spec

-----------------------------------------------------------------------------
(* The refinement.                                                         *)

\* Every step of the system is a step of Delivery or leaves it alone.
LEMMA DeliveryStep ==
  ASSUME TypeOK, PipeInv, [Next]_vars
  PROVE  [D!Next]_<<nMsg, got>>
<1>1. CASE GetMessage
  <2> DEFINE Q == queue["PUBLISH"]
  <2>1. Q # <<>> /\ got' = Head(Q).n /\ nMsg' = nMsg
    BY <1>1 DEF GetMessage, brokerVars
  <2>2. Q \in Seq(Packet) /\ got \in Nat /\ nMsg \in Nat
    BY PipeType
  <2>3. Head(Q).n \in Nat
    BY <2>1, <2>2, HeadTailType, PacketType
  <2>4. got < Head(Q).n /\ Head(Q).n <= nMsg
    BY <2>1, <2>2, TailStream DEF PipeInv
  <2>5. got' \in (got + 1)..nMsg
    BY <2>1, <2>2, <2>3, <2>4
  <2> QED
    BY <2>1, <2>5 DEF D!Next, D!Deliver
<1>2. CASE BrokerActs
  <2>1. got' = got
    BY <1>2 DEF BrokerActs, appVars
  <2>2. nMsg' = nMsg + 1 \/ nMsg' = nMsg
    BY <1>2 DEF BrokerActs, BrokerNext, BrokerServes, BrokerConnack, BrokerAck,
       BrokerSilent, BrokerHangsUp, BrokerCloses, BrokerPublishes
  <2> QED
    BY <2>1, <2>2 DEF D!Next, D!Publish
<1>3. CASE UNCHANGED <<nMsg, got>>
  BY <1>3
<1>4. CASE AppCalls
  BY <1>1, <1>3, <1>4
  DEF AppCalls, Start, SetStopThread, Disconnect, Connect, Publish, Subscribe,
      Unsubscribe, Issue, Stop, Destroy, Join, brokerVars, appVars
<1>5. CASE AppWorks
  BY <1>3, <1>5
  DEF AppWorks, PollEmpty, PollThrows, PollConnack, PollPuback, PollSuback,
      JoinReader, JoinKeepAlive, brokerVars
<1>6. CASE ReaderNext \/ HeartbeatNext
  BY <1>3, <1>6
  DEF ReaderNext, ReaderEnter, ReaderReads, ReaderReadsNothing, ReaderAnalyzes,
      ReaderSleeps, HeartbeatNext, HeartbeatTicks, HeartbeatChecks, brokerVars, appVars
<1>7. CASE UNCHANGED vars
  BY <1>3, <1>7 DEF vars, brokerVars, appVars
<1> QED
  BY <1>2, <1>4, <1>5, <1>6, <1>7 DEF Next

\* The client implements Delivery: messages reach the application in the order
\* the broker published them, each at most once.
THEOREM DeliveredInOrder == Spec => MessagesInOrder
<1>1. Init => D!Init
  BY DEF Init, BrokerInit, D!Init
<1>2. TypeOK /\ PipeInv /\ [Next]_vars => [D!Next]_<<nMsg, got>>
  BY DeliveryStep
<1> QED
  BY <1>1, <1>2, TypeCorrect, PipeInvariant, PTL DEF Spec, MessagesInOrder, D!Spec

=============================================================================
