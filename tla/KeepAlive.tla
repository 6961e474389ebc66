----------------------------- MODULE KeepAlive -----------------------------
(***************************************************************************)
(* The heartbeat against the clock (keep_alive_routine in                  *)
(* lib/pablittoMQTT.cpp): the thread that connectMQTT has started sleeps   *)
(* seconds/10 seconds five times and sends a PINGREQ, while the broker     *)
(* ends a session after one and a half keep alive intervals of silence.    *)
(* Time passes in units of 200 ms, the pause between two polls of a queue. *)
(***************************************************************************)
EXTENDS Integers

CONSTANTS
  KeepAlives,  \* values of keep_alive in a CONNECT
  Lag          \* units by which a sleep may last longer than asked

Second == 5           \* units in a second
MaxAttempts == 5      \* MAX_ATTEMPTS
Interval == {n \in Nat : n < 65536}  \* a uint16_t

ASSUME KeepAliveAssumption ==
  /\ KeepAlives \in SUBSET Interval
  /\ Lag \in Nat

VARIABLES
  seconds,      \* the keep alive interval that the broker accepted
  heartbeat,    \* "sleep", or "done": the thread has returned
  left,         \* units left of its sleep; below 0 it is late
  count,
  stop_thread,
  silent,       \* units since the broker last received a packet
  sincePing,    \* units since the last PINGREQ, or since the thread started
  waiting       \* units since stop_thread was set

vars == <<seconds, heartbeat, left, count, stop_thread, silent, sincePing, waiting>>

\* Mutant of Sleep: the thread sleeps the whole interval.
Sleep_whole == seconds * Second

\* sleep_for(seconds(seconds/10)).
Sleep == (seconds \div 10) * Second

\* The longest wait for an accepting CONNACK: all but the last of connectMQTT's
\* polls find the queue empty and sleep, and each of these sleeps may be late too.
Polls == (MaxAttempts - 1) * (1 + Lag)

\* Every variable has its type.
TypeOK ==
  /\ seconds \in KeepAlives
  /\ heartbeat \in {"sleep", "done"}
  /\ left \in (-Lag)..Sleep
  /\ count \in 0..4
  /\ stop_thread \in BOOLEAN
  /\ silent \in Nat
  /\ sincePing \in Nat
  /\ waiting \in Nat

\* connectMQTT has sent the CONNECT, polled for the CONNACK and started the thread.
Init ==
  /\ seconds \in KeepAlives
  /\ heartbeat = "sleep"
  /\ left = Sleep
  /\ count = 0
  /\ stop_thread = FALSE
  /\ silent \in 0..Polls
  /\ sincePing = 0
  /\ waiting = 0

Tick ==
  /\ heartbeat = "sleep"
  /\ left > -Lag
  /\ left' = left - 1
  /\ silent' = silent + 1
  /\ sincePing' = sincePing + 1
  /\ waiting' = IF stop_thread THEN waiting + 1 ELSE 0
  /\ UNCHANGED <<seconds, heartbeat, count, stop_thread>>

\* Mutant of CountTo5: one sleep too few.
CountTo4 ==
  IF count = 3
  THEN count' = 0 /\ silent' = 0 /\ sincePing' = 0
  ELSE count' = count + 1 /\ UNCHANGED <<silent, sincePing>>

\* Mutant of CountTo5: count=0 is forgotten.
CountOn ==
  /\ count' = count + 1
  /\ IF count = 4
     THEN silent' = 0 /\ sincePing' = 0
     ELSE UNCHANGED <<silent, sincePing>>

\* Mutant of CountTo5: the PINGREQ of the fifth is not sent.
CountTo5_silent ==
  /\ count' = IF count = 4 THEN 0 ELSE count + 1
  /\ UNCHANGED <<silent, sincePing>>

\* count++, and a PINGREQ at the fifth.
CountTo5 ==
  IF count = 4
  THEN count' = 0 /\ silent' = 0 /\ sincePing' = 0
  ELSE count' = count + 1 /\ UNCHANGED <<silent, sincePing>>

\* Mutant of GoesOn: stop_thread is looked at after a PINGREQ only.
GoesOnUntilPing == ~stop_thread \/ count # 4

GoesOn == ~stop_thread

Wake ==
  /\ heartbeat = "sleep"
  /\ left <= 0
  /\ CountTo5
  /\ heartbeat' = IF GoesOn THEN "sleep" ELSE "done"
  /\ left' = Sleep
  /\ UNCHANGED <<seconds, stop_thread, waiting>>

\* The application sends a packet.
Send ==
  /\ heartbeat = "sleep"
  /\ silent' = 0
  /\ UNCHANGED <<seconds, heartbeat, left, count, stop_thread, sincePing, waiting>>

Stop ==
  /\ heartbeat = "sleep"
  /\ ~stop_thread
  /\ stop_thread' = TRUE
  /\ UNCHANGED <<seconds, heartbeat, left, count, silent, sincePing, waiting>>

Next == Tick \/ Wake \/ Send \/ Stop

Spec == Init /\ [][Next]_vars

-----------------------------------------------------------------------------
(* Properties.                                                             *)

\* The broker never finds the client silent for more than one and a half keep
\* alive intervals, at which it would end the session, as long as one interval has
\* room for the polls before the thread and for what five sleeps may be late by.
SessionKept ==
  heartbeat = "sleep" /\ Polls + 5 * Lag <= seconds * Second
  => 2 * silent <= 3 * seconds * Second

\* Two PINGREQs are five tenths of the interval apart, each rounded down to whole
\* seconds, and what the five sleeps are late by: below 10 seconds nothing but
\* lateness keeps one PINGREQ from the next.
PingsApart ==
  [][sincePing # 0 /\ sincePing' = 0
     => sincePing \in 5 * Sleep .. 5 * (Sleep + Lag)]_vars

\* Once stop_thread is set the thread, which stop() joins, returns within one
\* tenth of the interval: up to 6553 seconds.
StopDelayed ==
  heartbeat = "sleep" => waiting <= Sleep + Lag

-----------------------------------------------------------------------------

\* Each of the counters is bounded by the sleeps that have ended and the one that
\* has not, late or not, and the silence by the polls before the thread besides.
TimeInv ==
  /\ TypeOK
  /\ silent <= Polls + count * (Sleep + Lag) + (Sleep - left)
  /\ sincePing >= count * Sleep + (Sleep - left)
  /\ sincePing <= count * (Sleep + Lag) + (Sleep - left)
  /\ heartbeat = "sleep" => waiting <= Sleep - left
  /\ ~stop_thread => waiting = 0

=============================================================================
