------------------------------ MODULE Delivery ------------------------------
(***************************************************************************)
(* What get_message promises of the PUBLISH packets a broker sends: each   *)
(* is handed to the application at most once and in the order they were    *)
(* sent.  Packets may be lost; nothing else may happen to them.  A message *)
(* the broker sends a second time is a second packet.                      *)
(***************************************************************************)
EXTENDS Naturals

VARIABLES
  sent,  \* PUBLISH packets sent, numbered 1..sent
  last   \* number of the last one handed out, 0 before the first

Init ==
  /\ sent = 0
  /\ last = 0

Publish ==
  /\ sent' = sent + 1
  /\ UNCHANGED last

Deliver ==
  /\ \E m \in (last + 1)..sent : last' = m
  /\ UNCHANGED sent

Next == Publish \/ Deliver

Spec == Init /\ [][Next]_<<sent, last>>

=============================================================================
