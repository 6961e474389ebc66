----------------------------- MODULE MCFraming -----------------------------
(* Packets for the broker of Framing to send.                              *)
EXTENDS Framing

Sent(p, qos, id) == [packet |-> p, qos |-> qos, id |-> id]

\* A message on the topic "t" whose PUBLISH has remaining length n.
Message(n, qos) ==
  Sent(Publish(<<116>>, [i \in 1..(n - 3 - 2 * qos) |-> i % 256]), qos, 513)

SmallPackets ==
  {Sent(Connack(0, 5), 0, 0), Sent(Puback(258), 0, 0), Sent(Suback(3, <<1>>), 0, 0),
   Sent(Unanalyzed(UNSUBACK), 0, 4), Sent(Unanalyzed(PINGRESP), 0, 0),
   Message(5, 0), Message(8, 1)}

\* Remaining lengths on both sides of every bound of the code.
Boundaries == {Message(n, 0) : n \in {126, 127, 128, 256, 300}}

SmallAndBoundary == SmallPackets \cup Boundaries

=============================================================================
