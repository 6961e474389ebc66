---------------------------- MODULE MCKeepAlive ----------------------------
(* Intervals on both sides of the roundings of KeepAlive.                  *)
EXTENDS KeepAlive

Intervals == {0, 1, 2, 3, 9, 10, 20, 39}

=============================================================================
