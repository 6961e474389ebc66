---------------------------- MODULE PacketStream ----------------------------
(***************************************************************************)
(* What the two threads that share a connection may rely on: the broker    *)
(* makes out the packets one by one, in the order in which they were       *)
(* begun.  Once a packet is split by another one there is no promise left: *)
(* the broker may make anything of the bytes that follow.                  *)
(***************************************************************************)
EXTENDS Naturals, Sequences

CONSTANTS
  Packets,    \* what may be sent
  BytesOf(_)  \* a packet's bytes

VARIABLES
  order,   \* the packets begun, in that order
  frames,  \* what the broker has made out
  split    \* a packet has been split

streamVars == <<order, frames, split>>

Init ==
  /\ order = <<>>
  /\ frames = <<>>
  /\ split = FALSE

\* A packet is begun, between two others or inside one.
Begin ==
  /\ \E p \in Packets : order' = Append(order, p)
  /\ split' \in {split, TRUE}
  /\ UNCHANGED frames

\* A packet that was begun before goes on inside another one.
Cross ==
  /\ split' = TRUE
  /\ UNCHANGED <<order, frames>>

\* The broker makes out the next packet.
MakeOut ==
  /\ ~split
  /\ Len(frames) < Len(order)
  /\ frames' = Append(frames, BytesOf(order[Len(frames) + 1]))
  /\ UNCHANGED <<order, split>>

\* It makes out something.
Misread ==
  /\ split
  /\ Len(frames') = Len(frames) + 1
  /\ SubSeq(frames', 1, Len(frames)) = frames
  /\ UNCHANGED <<order, split>>

Next == Begin \/ Cross \/ MakeOut \/ Misread

Spec == Init /\ [][Next]_streamVars

=============================================================================
