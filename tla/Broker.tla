------------------------------- MODULE Broker -------------------------------
(***************************************************************************)
(* The MQTT broker at the other end of the connection, which is not part   *)
(* of the repository: only what the client relies on.  It answers the      *)
(* requests of a session in the order they arrive or leaves one            *)
(* unanswered, publishes messages numbered 1, 2, ... whenever it likes,    *)
(* and may close the connection at any time.                               *)
(***************************************************************************)
EXTENDS SocketTCP

CONSTANTS
  MaxMsgs,      \* bound: messages the broker publishes
  ReturnCodes   \* return codes of the CONNACKs it sends

ASSUME BrokerAssumption ==
  /\ MaxMsgs \in Nat
  /\ ReturnCodes \in SUBSET (0..255)

VARIABLES
  session,  \* the broker has accepted a CONNECT on this connection
  nMsg      \* PUBLISH packets it has sent, over all connections

brokerVars == <<session, nMsg>>

BrokerTypeOK ==
  /\ session \in BOOLEAN
  /\ nMsg \in Nat

BrokerInit ==
  /\ session = FALSE
  /\ nMsg = 0

Acknowledged == {"PUBLISH", "SUBSCRIBE", "UNSUBSCRIBE", "PINGREQ"}
AckType == [PUBLISH |-> "PUBACK", SUBSCRIBE |-> "SUBACK",
            UNSUBSCRIBE |-> "UNSUBACK", PINGREQ |-> "PINGRESP"]

\* The broker reads the next packet, while the connection is up.
Serving ==
  /\ proc = "running"
  /\ conn = "open"
  /\ toBroker # <<>>

Request == Head(toBroker)

Reply(p) ==
  /\ Len(toClient) < RecvBuf
  /\ toClient' = Append(toClient, p)

\* Closing with requests unread resets the connection.
HangUp(unread) ==
  /\ conn' = IF unread = <<>> THEN "eof" ELSE "reset"
  /\ toBroker' = <<>>
  /\ session' = FALSE

BrokerConnack ==
  /\ Serving
  /\ Request.type = "CONNECT"
  /\ ~session
  /\ \E rc \in ReturnCodes :
       /\ Reply(MkPacket("CONNACK", 0, rc, Request.n))
       /\ IF rc = 0
          THEN /\ session' = TRUE
               /\ toBroker' = Tail(toBroker)
               /\ UNCHANGED conn
          ELSE HangUp(Tail(toBroker))
  /\ UNCHANGED <<proc, sockMutex, nMsg>>

BrokerAck ==
  /\ Serving
  /\ session
  /\ Request.type \in Acknowledged
  /\ Request.type = "PUBLISH" => Request.qos = 1
  /\ Reply(MkPacket(AckType[Request.type], 0, Request.id, Request.n))
  /\ toBroker' = Tail(toBroker)
  /\ UNCHANGED <<proc, conn, sockMutex, session, nMsg>>

\* A PUBLISH of QoS 0, or a request that goes unanswered.
BrokerSilent ==
  /\ Serving
  /\ session
  /\ Request.type \in Acknowledged
  /\ toBroker' = Tail(toBroker)
  /\ UNCHANGED <<proc, conn, sockMutex, toClient, session, nMsg>>

\* DISCONNECT, a second CONNECT, or anything before the first one.
BrokerHangsUp ==
  /\ Serving
  /\ \/ Request.type = "DISCONNECT"
     \/ session /\ Request.type = "CONNECT"
     \/ ~session /\ Request.type # "CONNECT"
  /\ HangUp(Tail(toBroker))
  /\ UNCHANGED <<proc, sockMutex, toClient, nMsg>>

BrokerCloses ==
  /\ proc = "running"
  /\ conn = "open"
  /\ HangUp(toBroker)
  /\ UNCHANGED <<proc, sockMutex, toClient, nMsg>>

BrokerPublishes ==
  /\ proc = "running"
  /\ conn = "open"
  /\ session
  /\ nMsg < MaxMsgs
  /\ nMsg' = nMsg + 1
  /\ Reply(MkPacket("PUBLISH", 0, 0, nMsg + 1))
  /\ UNCHANGED <<proc, conn, sockMutex, toBroker, session>>

\* What a broker that keeps reading its connection does.
BrokerServes == BrokerConnack \/ BrokerAck \/ BrokerSilent \/ BrokerHangsUp

BrokerNext == BrokerServes \/ BrokerCloses \/ BrokerPublishes

=============================================================================
