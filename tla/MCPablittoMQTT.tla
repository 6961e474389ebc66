--------------------------- MODULE MCPablittoMQTT ---------------------------
(* Values for the constants of PablittoMQTT that a .cfg cannot spell.      *)
EXTENDS PablittoMQTT

OneTopic == {<<"t">>}

CallsAtMost(c, p, s, u) ==
  [connect |-> c, publish |-> p, subscribe |-> s, unsubscribe |-> u]

OneEach == CallsAtMost(1, 1, 1, 1)
TwoConnects == CallsAtMost(2, 0, 0, 0)
ThreePublishes == CallsAtMost(1, 3, 2, 1)

=============================================================================
