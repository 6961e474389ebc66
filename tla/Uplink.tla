------------------------------- MODULE Uplink -------------------------------
(***************************************************************************)
(* The bytes from the client to the broker.  The application's thread and  *)
(* the heartbeat both call sendByteTCP, which takes no mutex; a send() on  *)
(* the blocking socket hands the kernel the bytes there is room for, and   *)
(* waits for more room without keeping the other thread out.               *)
(***************************************************************************)
EXTENDS ClientPackets

CONSTANTS
  Requests,     \* the packets that the application may send
  MaxRequests,  \* bound: how many it sends
  MaxPings,     \* bound: PINGREQs the heartbeat sends
  Room          \* bytes the kernel keeps for the broker

ASSUME UplinkAssumption ==
  /\ Requests \subseteq ClientPacket
  /\ \A p \in Requests : Len(ClientBody(p)) <= MaxLength
  /\ MaxRequests \in Nat
  /\ MaxPings \in Nat
  /\ Room \in Nat \ {0}

Threads == {"app", "keep_alive"}
Other(t) == IF t = "app" THEN "keep_alive" ELSE "app"

VARIABLES
  calls,     \* calls of sendByteTCP, by thread
  packet,    \* the packet of the call a thread is in
  unsent,    \* those of its bytes that send() has not handed over
  order,     \* the packets, in the order of their first bytes
  buffer,    \* bytes in the kernel
  received,  \* bytes the broker has read
  parsed,    \* how many of them it has made packets of
  frames,    \* these packets
  split      \* some packet has the bytes of another one in its middle

vars == <<calls, packet, unsent, order, buffer, received, parsed, frames, split>>

\* Every variable has its type, and the kernel does not keep more than Room bytes.
TypeOK ==
  /\ calls \in [Threads -> Nat]
  /\ packet \in [Threads -> Requests \cup {Pingreq}]
  /\ unsent \in [Threads -> Seq(Byte)]
  /\ order \in Seq(Requests \cup {Pingreq})
  /\ buffer \in Seq(Byte) /\ Len(buffer) <= Room
  /\ received \in Seq(Byte)
  /\ parsed \in 0..Len(received)
  /\ frames \in Seq(Seq(Byte))
  /\ split \in BOOLEAN

Init ==
  /\ calls = [t \in Threads |-> 0]
  /\ packet = [t \in Threads |-> Pingreq]
  /\ unsent = [t \in Threads |-> <<>>]
  /\ order = <<>>
  /\ buffer = <<>>
  /\ received = <<>>
  /\ parsed = 0
  /\ frames = <<>>
  /\ split = FALSE

\* sendByteTCP is called.
Call(t, p) ==
  /\ unsent[t] = <<>>
  /\ calls' = [calls EXCEPT ![t] = @ + 1]
  /\ packet' = [packet EXCEPT ![t] = p]
  /\ unsent' = [unsent EXCEPT ![t] = ClientBytes(p)]
  /\ UNCHANGED <<order, buffer, received, parsed, frames, split>>

CallApp ==
  /\ calls["app"] < MaxRequests
  /\ \E p \in Requests : Call("app", p)

\* Mutant of Ping: the heartbeat's packet has the type of the broker's answer.
PingAnswers ==
  /\ calls["keep_alive"] < MaxPings
  /\ Call("keep_alive", [type |-> PINGRESP])

Ping ==
  /\ calls["keep_alive"] < MaxPings
  /\ Call("keep_alive", Pingreq)

Begun(t) == Len(unsent[t]) < Len(ClientBytes(packet[t]))
Midway(t) == unsent[t] # <<>> /\ Begun(t)

\* Mutant of Fitting: the two bytes of the header are handed over by a send() of
\* their own, before the rest.
Fitting_header(t) ==
  IF ~Begun(t) /\ Room - Len(buffer) >= 2 THEN 2
  ELSE IF Len(unsent[t]) < Room - Len(buffer) THEN Len(unsent[t])
  ELSE Room - Len(buffer)

\* How many bytes of a call there is room for.
Fitting(t) ==
  IF Len(unsent[t]) < Room - Len(buffer) THEN Len(unsent[t]) ELSE Room - Len(buffer)

\* Mutant of Kept: what did not fit is given up, as on a socket that does not block.
Kept_none(t) == <<>>

\* Mutant of Kept: what did not fit is kept with what did, and sent twice.
Kept_all(t) == IF Fitting(t) = Len(unsent[t]) THEN <<>> ELSE unsent[t]

\* What is left for the next time there is room.
Kept(t) == Drop(unsent[t], Fitting(t))

\* The kernel takes what there is room for.
Write(t) ==
  /\ unsent[t] # <<>>
  /\ Fitting(t) > 0
  /\ buffer' = buffer \o SubSeq(unsent[t], 1, Fitting(t))
  /\ unsent' = [unsent EXCEPT ![t] = Kept(t)]
  /\ order' = IF Begun(t) THEN order ELSE Append(order, packet[t])
  /\ split' = (split \/ Midway(Other(t)))
  /\ UNCHANGED <<calls, packet, received, parsed, frames>>

-----------------------------------------------------------------------------
(* The broker, by the MQTT standard.                                       *)

Reads ==
  /\ buffer # <<>>
  /\ received' = received \o buffer
  /\ buffer' = <<>>
  /\ UNCHANGED <<calls, packet, unsent, order, parsed, frames, split>>

HeaderIn(s) == \E n \in 1..4 : n < Len(s) /\ s[n + 1] < 128
FrameLength(s) == 1 + DigitsRead(s) + decode_remaining_len(s)
FrameIn(s) == HeaderIn(s) /\ FrameLength(s) <= Len(s)

Unparsed == Drop(received, parsed)

\* It makes out the packet in front of what it has read.
Parse ==
  /\ FrameIn(Unparsed)
  /\ frames' = Append(frames, SubSeq(Unparsed, 1, FrameLength(Unparsed)))
  /\ parsed' = parsed + FrameLength(Unparsed)
  /\ UNCHANGED <<calls, packet, unsent, order, buffer, received, split>>

Next ==
  \/ CallApp
  \/ Ping
  \/ \E t \in Threads : Write(t)
  \/ Reads
  \/ Parse

Spec == Init /\ [][Next]_vars

-----------------------------------------------------------------------------
(* Properties.                                                             *)

\* Nothing of what was sent is on its way any more.
Quiet ==
  /\ \A t \in Threads : unsent[t] = <<>>
  /\ buffer = <<>>
  /\ ~FrameIn(Unparsed)

\* Unless one thread's bytes came into the middle of the other's packet, the
\* broker makes out the packets that were sent, in the order of the sends and
\* however often they had to wait for room, nothing else, and in the end all.
RequestsIntact ==
  ~split =>
    /\ Len(frames) <= Len(order)
    /\ \A i \in 1..Len(frames) : frames[i] = ClientBytes(order[i])
    /\ Quiet => Len(frames) = calls["app"] + calls["keep_alive"]

\* A packet gets into the middle of another one only on a connection that has
\* carried more bytes than the kernel has room for: never while all that the
\* client has sent would have fitted.
SplitNeedsBacklog == split => Len(received) + Len(buffer) > Room

\* The two threads' calls of sendByteTCP make one stream of whole packets for the
\* broker, until the bytes of one come into the middle of another.
Stream == INSTANCE PacketStream WITH
            Packets <- Requests \cup {Pingreq}, BytesOf <- ClientBytes
IsPacketStream == Stream!Spec

\* The classes' own unboxing gives back every packet but a PUBLISH, whose message
\* id it does not look for, if it can erase the fixed header: the remaining
\* length is not 127, and below 16384.
UnboxingInverts ==
  \A t \in Threads :
    LET p == packet[t]
        n == Len(ClientBody(p))
    IN  p.type # PUBLISH /\ n # 127 /\ n < 16384 => unboxing(ClientBytes(p)) = p

=============================================================================
