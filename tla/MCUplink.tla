------------------------------ MODULE MCUplink ------------------------------
(***************************************************************************)
(* A packet of each kind, with and without its optional parts, and the     *)
(* remaining lengths 127 and 128, of one digit and of two.                 *)
(***************************************************************************)
EXTENDS Uplink

Topic == <<97>>
Text(n) == [i \in 1..n |-> 97]
User == <<<<117>>, <<112, 112>>>>
Will == <<<<119>>, <<>>>>

AllRequests ==
  {Connect(<<99>>, 60, <<>>, <<>>), Connect(<<99>>, 300, User, <<>>),
   Connect(<<>>, 65535, User, Will),
   Message(0, 1, 1, Topic, <<1, 2>>), Message(1, 0, 258, Topic, <<>>),
   Message(0, 0, 2, Topic, Text(124)), Message(0, 0, 3, Topic, Text(125)),
   Subscribe(258, <<[topic |-> Topic, qos |-> 1], [topic |-> <<>>, qos |-> 0]>>),
   Unsubscribe(1, <<Topic>>), Unsubscribe(259, <<Topic, <<98, 99>>>>),
   Unsubscribe(2, <<Text(123)>>), Unsubscribe(3, <<Topic, Text(121)>>),
   Disconnect}

=============================================================================
