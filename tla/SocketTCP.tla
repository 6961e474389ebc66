----------------------------- MODULE SocketTCP -----------------------------
(***************************************************************************)
(* The TCP connection of a client (lib/SocketTCP.cpp) and the two byte     *)
(* streams the kernel keeps for it, seen as sequences of whole MQTT        *)
(* packets.  A packet carries the fields the client compares: its type,    *)
(* its QoS and its id (the message id; the return code in a CONNACK).  n   *)
(* is not on the wire: it numbers the requests of one kind, or the         *)
(* messages of the broker, and an acknowledgement has the n of the request *)
(* it answers.  Only properties read n.                                    *)
(***************************************************************************)
EXTENDS Integers, Sequences

CONSTANTS
  SendBuf,    \* packets the kernel queues towards the broker before send() blocks
  RecvBuf,    \* packets the kernel queues towards the client
  MinusOne    \* what `error_code == -1` may evaluate to: the variable is never
              \* written, because getsockopt is handed the address 4 as its optlen

ASSUME SocketAssumption ==
  /\ SendBuf \in Nat \ {0}
  /\ RecvBuf \in Nat \ {0}
  /\ MinusOne \in SUBSET BOOLEAN /\ MinusOne # {}

VARIABLES
  proc,       \* the client's process: "running", or how it died
  conn,       \* the connection of socket_descriptor
  sockMutex,  \* SocketTCP::mutex
  toBroker,   \* packets sent and not yet read by the broker
  toClient    \* packets the broker sent and the client has not read

socketVars == <<proc, conn, sockMutex, toBroker, toClient>>

Types == {"CONNECT", "CONNACK", "PUBLISH", "PUBACK", "SUBSCRIBE", "SUBACK",
          "UNSUBSCRIBE", "UNSUBACK", "PINGREQ", "PINGRESP", "DISCONNECT"}
Packet == [type : Types, qos : {0, 1}, id : Nat, n : Nat]
MkPacket(t, q, i, k) == [type |-> t, qos |-> q, id |-> i, n |-> k]

\* What socket_descriptor may be: the initial 0, -1, never connected, connected,
\* closed or reset by the peer, closed by closeTCP.
Connections == {"none", "invalid", "unconnected", "open", "eof", "reset", "closed"}

SocketTypeOK ==
  /\ proc \in {"running", "killed", "terminated"}
  /\ conn \in Connections
  /\ sockMutex \in {"free", "held"}
  /\ toBroker \in Seq(Packet)
  /\ toClient \in Seq(Packet)

SocketInit ==
  /\ proc = "running"
  /\ conn = "none"
  /\ sockMutex = "free"
  /\ toBroker = <<>>
  /\ toClient = <<>>

\* connectionTCP, under the socket's mutex: a fresh connected descriptor; or, on
\* failure, a fresh one that is not connected, or -1 if socket() itself failed.
connectionTCP(ok) ==
  /\ sockMutex = "free"
  /\ conn' \in IF ok THEN {"open"} ELSE {"unconnected", "invalid"}
  /\ toBroker' = <<>>
  /\ toClient' = <<>>

closeTCP ==
  /\ conn' = "closed"
  /\ toBroker' = <<>>
  /\ toClient' = <<>>

\* What the kernel does with send(socket_descriptor, ...).  A full send buffer
\* blocks.  A peer that has closed answers with a reset at some later time, and
\* sending on a reset or never connected socket raises SIGPIPE, which nobody
\* handles.  A reset not yet reported, and a closed or foreign descriptor, only
\* make send() return -1.
kernelSend(p) ==
  \/ /\ conn \in {"none", "invalid", "closed", "reset"}
     /\ UNCHANGED <<proc, conn, toBroker>>
  \/ /\ conn = "open"
     /\ Len(toBroker) < SendBuf
     /\ toBroker' = Append(toBroker, p)
     /\ UNCHANGED <<proc, conn>>
  \/ /\ conn = "eof"
     /\ conn' \in {"eof", "reset"}
     /\ UNCHANGED <<proc, toBroker>>
  \/ /\ conn \in {"reset", "unconnected"}
     /\ proc' = "killed"
     /\ UNCHANGED <<conn, toBroker>>

sendByteTCP(p) ==
  \/ /\ TRUE \in MinusOne
     /\ UNCHANGED <<proc, conn, toBroker>>
  \/ /\ FALSE \in MinusOne
     /\ kernelSend(p)

\* Mutant of readEnter: try_lock, and nobody looks at what it returned.
readEnterUnlocked ==
  /\ FALSE \in MinusOne
  /\ sockMutex' = "held"

\* readByteTCP up to the read(): the early return -1 leaves the mutex locked.
readEnter ==
  /\ sockMutex = "free"
  /\ FALSE \in MinusOne
  /\ sockMutex' = "held"

readLeak ==
  /\ sockMutex = "free"
  /\ TRUE \in MinusOne
  /\ sockMutex' = "held"

\* Mutants of readData and readNothing: the branch forgets mutex.unlock().
readDataLocked(k, p) ==
  /\ k \in 1..Len(toClient)
  /\ p = Head(toClient)
  /\ toClient' = SubSeq(toClient, k + 1, Len(toClient))
  /\ UNCHANGED sockMutex

readNothingLocked ==
  /\ toClient = <<>>
  /\ conn \in {"eof", "reset", "unconnected", "invalid"}
  /\ UNCHANGED <<toClient, sockMutex>>

\* read() takes everything that has arrived, and may run before the last of it
\* arrives: the first k packets.  Only the bytes of the first packet are copied
\* to the caller (2 + buffer[1] bytes); the others are freed with the buffer.
readData(k, p) ==
  /\ k \in 1..Len(toClient)
  /\ p = Head(toClient)
  /\ toClient' = SubSeq(toClient, k + 1, Len(toClient))
  /\ sockMutex' = "free"

\* read() returns 0 or -1: the peer has closed, or there never was one.
readNothing ==
  /\ toClient = <<>>
  /\ conn \in {"eof", "reset", "unconnected", "invalid"}
  /\ sockMutex' = "free"
  /\ UNCHANGED toClient

=============================================================================
