--------------------------- MODULE ClientPackets ---------------------------
(***************************************************************************)
(* The packets the client sends, as bytes (boxing), and what the unboxing  *)
(* methods of the same classes make of those bytes.                        *)
(***************************************************************************)
EXTENDS Packets

CONNECT == 1
SUBSCRIBE == 8
UNSUBSCRIBE == 10
PINGREQ == 12
DISCONNECT == 14

\* The three constructors of ConnectPacket: user is empty, or a name and a
\* password; will is empty, or a topic and a message.
Connect(client_id, keep_alive, user, will) ==
  [type |-> CONNECT, protocol_name |-> <<77, 81, 84, 84>>, protocol_version |-> 4,
   keep_alive |-> keep_alive, client_id |-> client_id, user |-> user, will |-> will,
   will_qos |-> 0, will_retain |-> 0, clean_session |-> 0]
Message(qos, retain, id, topic, payload) ==
  [type |-> PUBLISH, qos |-> qos, retain |-> retain, message_id |-> id,
   topic |-> topic, payload |-> payload]
\* topics is a sequence of topics, each with the QoS asked for.
Subscribe(id, topics) == [type |-> SUBSCRIBE, message_id |-> id, topics |-> topics]
Unsubscribe(id, topics) == [type |-> UNSUBSCRIBE, message_id |-> id, topics |-> topics]
Pingreq == [type |-> PINGREQ]
Disconnect == [type |-> DISCONNECT]

\* A user or a will: two strings, or none.
Optional == {strings \in Seq(Seq(Byte)) : Len(strings) \in {0, 2}}

ClientPacket ==
  [type : {CONNECT}, protocol_name : {<<77, 81, 84, 84>>}, protocol_version : {4},
   keep_alive : MessageId, client_id : Seq(Byte), user : Optional, will : Optional,
   will_qos : {0}, will_retain : {0}, clean_session : {0}]
  \cup [type : {PUBLISH}, qos : 0..2, retain : {0, 1}, message_id : MessageId,
        topic : Seq(Byte), payload : Seq(Byte)]
  \cup [type : {SUBSCRIBE}, message_id : MessageId,
        topics : Seq([topic : Seq(Byte), qos : Byte])]
  \cup [type : {UNSUBSCRIBE}, message_id : MessageId, topics : Seq(Seq(Byte))]
  \cup [type : {PINGREQ, DISCONNECT}]

-----------------------------------------------------------------------------
(* boxing.                                                                 *)

\* The pieces one behind the other: from[i] is all that follows the i-th.
Concat(pieces) ==
  LET from[i \in 0..Len(pieces)] ==
        IF i = Len(pieces) THEN <<>> ELSE pieces[i + 1] \o from[i + 1]
  IN  from[0]
EncodeAll(strings) == Concat([i \in 1..Len(strings) |-> encode_bytes(strings[i])])

Flag(strings) == IF strings = <<>> THEN 0 ELSE 1

\* Mutant of connectFlags: the will flag is shifted one bit too far.
connectFlags_shifted(p) ==
  192 * Flag(p.user) + 32 * p.will_retain + 8 * p.will_qos + 8 * Flag(p.will)
  + 2 * p.clean_session

connectFlags(p) ==
  192 * Flag(p.user) + 32 * p.will_retain + 8 * p.will_qos + 4 * Flag(p.will)
  + 2 * p.clean_session

boxConnect(p) ==
  encode_bytes(p.protocol_name) \o <<p.protocol_version, connectFlags(p)>>
  \o TwoBytes(p.keep_alive) \o EncodeAll(<<p.client_id>> \o p.will \o p.user)
boxMessage(p) ==
  encode_bytes(p.topic) \o (IF p.qos > 0 THEN TwoBytes(p.message_id) ELSE <<>>) \o p.payload
boxSubscribe(p) ==
  TwoBytes(p.message_id)
  \o Concat([i \in 1..Len(p.topics) |->
               encode_bytes(p.topics[i].topic) \o <<p.topics[i].qos>>])
boxUnsubscribe(p) == TwoBytes(p.message_id) \o EncodeAll(p.topics)

ClientBody(p) ==
  CASE p.type = CONNECT -> boxConnect(p)
    [] p.type = PUBLISH -> boxMessage(p)
    [] p.type = SUBSCRIBE -> boxSubscribe(p)
    [] p.type = UNSUBSCRIBE -> boxUnsubscribe(p)
    [] OTHER -> <<>>

\* The fixed header that the call of PablittoMQTT has set up.
HeaderQos(p) ==
  CASE p.type = PUBLISH -> p.qos
    [] p.type \in {SUBSCRIBE, UNSUBSCRIBE} -> 1
    [] OTHER -> 0

ClientBytes(p) ==
  boxing([type |-> p.type, dup |-> 0, qos |-> HeaderQos(p),
          retain |-> IF p.type = PUBLISH THEN p.retain ELSE 0,
          remaining_length |-> Len(ClientBody(p))])
  \o ClientBody(p)

-----------------------------------------------------------------------------
(* unboxing, of bytes that boxing has made: nothing is read past their end. *)

\* The first n strings at the front of s.
Strings(s, n) ==
  LET left[i \in 0..n] == IF i = 0 THEN s ELSE undecoded(left[i - 1])
  IN  [i \in 1..n |-> decoded(left[i - 1])]

Bit(byte, k) == (byte \div 2^k) % 2

unboxConnect(s) ==
  LET t == undecoded(s)
      options == t[2]
      wills == 2 * Bit(options, 2)
      users == Bit(options, 7) + Bit(options, 6)
      strings == Strings(Drop(t, 4), 1 + wills + users)
  IN  [type |-> CONNECT, protocol_name |-> decoded(s), protocol_version |-> t[1],
       keep_alive |-> Number(Drop(t, 2)), client_id |-> strings[1],
       will |-> SubSeq(strings, 2, 1 + wills),
       user |-> SubSeq(strings, 2 + wills, 1 + wills + users),
       will_qos |-> (options \div 8) % 4, will_retain |-> Bit(options, 5),
       clean_session |-> Bit(options, 1)]

\* What is left of the payload after i passes of a loop over payload_len, each
\* of which takes a string and as many bytes as extra says.
Payload(s, n, extra) ==
  LET left[i \in 0..n] ==
        IF i = 0 THEN SubSeq(s, 3, n)
        ELSE IF left[i - 1] = <<>> THEN <<>> ELSE Drop(undecoded(left[i - 1]), extra)
  IN  left
Passes(left, n) == {i \in 1..n : left[i - 1] # <<>>}

unboxSubscribe(s, n) ==
  LET left == Payload(s, n, 1)
  IN  Subscribe(Number(s),
                [i \in Passes(left, n) |->
                   [topic |-> decoded(left[i - 1]), qos |-> undecoded(left[i - 1])[1]]])

unboxUnsubscribe(s, n) ==
  LET left == Payload(s, n, 0)
  IN  Unsubscribe(Number(s), [i \in Passes(left, n) |-> decoded(left[i - 1])])

unboxing(msg) ==
  LET h == header(msg)
  IN  CASE h.type = CONNECT -> unboxConnect(rest(msg))
        [] h.type = SUBSCRIBE -> unboxSubscribe(rest(msg), h.remaining_length)
        [] h.type = UNSUBSCRIBE -> unboxUnsubscribe(rest(msg), h.remaining_length)
        [] OTHER -> [type |-> h.type]

=============================================================================
