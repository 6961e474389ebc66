------------------------------ MODULE Packets ------------------------------
(***************************************************************************)
(* The packets a broker sends to the client, as bytes and as what the      *)
(* unboxing methods of lib/*_packet.cpp make of the bytes.  A method that  *)
(* reads past the end of its vector has no defined result: Undefined.      *)
(***************************************************************************)
EXTENDS FixedHeader

CONNACK == 2
PUBLISH == 3
PUBACK == 4
SUBACK == 9
UNSUBACK == 11
PINGRESP == 13

Undefined == [type |-> 0]
Connack(session_present, return_code) ==
  [type |-> CONNACK, session_present |-> session_present, return_code |-> return_code]
Publish(topic, payload) == [type |-> PUBLISH, topic |-> topic, payload |-> payload]
Puback(id) == [type |-> PUBACK, message_id |-> id]
Suback(id, codes) == [type |-> SUBACK, message_id |-> id, codes |-> codes]
Unanalyzed(t) == [type |-> t]   \* a packet analyze_packet makes nothing of

MessageId == {n \in Nat : n < 65536}
BrokerPacket ==
  [type : {CONNACK}, session_present : {0, 1}, return_code : Byte]
  \cup [type : {PUBLISH}, topic : Seq(Byte), payload : Seq(Byte)]
  \cup [type : {PUBACK}, message_id : MessageId]
  \cup [type : {SUBACK}, message_id : MessageId, codes : Seq(Byte)]
  \cup [type : {UNSUBACK, PINGRESP}]

-----------------------------------------------------------------------------
(* Bytes.                                                                  *)

TwoBytes(n) == <<(n \div 256) % 256, n % 256>>
Number(s) == s[1] * 256 + s[2]
Drop(s, k) == SubSeq(s, k + 1, Len(s))

encode_bytes(s) == TwoBytes(Len(s)) \o s

\* decode_bytes takes the string at the front of s and leaves what follows it.
decodable(s) == Len(s) >= 2 /\ Len(s) >= 2 + Number(s)
decoded(s) == SubSeq(s, 3, 2 + Number(s))
undecoded(s) == Drop(s, 2 + Number(s))

-----------------------------------------------------------------------------
(* boxing.  A PUBLISH of the broker has a message id if its QoS is not 0;  *)
(* the client does not keep it, so it is a parameter of the bytes only.    *)

boxConnack(p) == <<p.session_present, p.return_code>>
boxPublish(p, qos, id) ==
  encode_bytes(p.topic) \o (IF qos > 0 THEN TwoBytes(id) ELSE <<>>) \o p.payload
boxPuback(p) == TwoBytes(p.message_id)
boxSuback(p) == TwoBytes(p.message_id) \o p.codes
boxUnsuback(id) == TwoBytes(id)

Body(p, qos, id) ==
  CASE p.type = CONNACK -> boxConnack(p)
    [] p.type = PUBLISH -> boxPublish(p, qos, id)
    [] p.type = PUBACK -> boxPuback(p)
    [] p.type = SUBACK -> boxSuback(p)
    [] p.type = UNSUBACK -> boxUnsuback(id)
    [] p.type = PINGRESP -> <<>>

Bytes(p, qos, id) ==
  boxing([type |-> p.type, dup |-> 0, qos |-> qos, retain |-> 0,
          remaining_length |-> Len(Body(p, qos, id))])
  \o Body(p, qos, id)

-----------------------------------------------------------------------------
(* unboxing and analyze_packet.                                            *)

unboxConnack(s) ==
  IF Len(s) >= 2 THEN Connack(IF s[1] = 0 THEN 0 ELSE 1, s[2]) ELSE Undefined

unboxPuback(s) ==
  IF Len(s) >= 2 THEN Puback(Number(s)) ELSE Undefined

\* The codes are as many as the remaining length says.
unboxSuback(s, n) ==
  IF Len(s) >= 2 /\ Len(s) >= n
  THEN Suback(Number(s), SubSeq(s, 3, n))
  ELSE Undefined

\* The message id of a QoS 1 message stays at the front of the payload.
unboxPublish(s) ==
  IF decodable(s) THEN Publish(decoded(s), undecoded(s)) ELSE Undefined

analyze_packet(msg) ==
  LET h == header(msg)
      s == rest(msg)
  IN  CASE h.type = CONNACK -> unboxConnack(s)
        [] h.type = PUBLISH -> unboxPublish(s)
        [] h.type = PUBACK -> unboxPuback(s)
        [] h.type = SUBACK -> unboxSuback(s, h.remaining_length)
        [] OTHER -> Unanalyzed(h.type)

=============================================================================
