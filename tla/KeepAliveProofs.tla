-------------------------- MODULE KeepAliveProofs --------------------------
(***************************************************************************)
(* The heartbeat keeps its session alive at every keep alive interval: the *)
(* invariant TimeInv, and what follows from it.                            *)
(***************************************************************************)
EXTENDS KeepAlive, TLAPS

\* The length of a sleep.
LEMMA SleepBounds ==
  ASSUME seconds \in KeepAlives
  PROVE  /\ Sleep \in Nat /\ seconds \in Nat
         /\ 2 * Sleep <= seconds
<1>1. seconds \in Interval
  BY KeepAliveAssumption
<1>2. seconds \in Nat
  BY <1>1 DEF Interval
<1>3. seconds \div 10 \in Nat /\ 10 * (seconds \div 10) <= seconds
  BY SMT, <1>2
<1> QED
  BY SMT, <1>2, <1>3 DEF Sleep, Second

\* The length of the polls: four sleeps, each of them late.
LEMMA PollsLength == Polls \in Nat /\ Polls = 4 + 4 * Lag
  BY SMT, KeepAliveAssumption DEF Polls, MaxAttempts

\* At the start nothing has been slept or counted, and the silence is at most Polls.
LEMMA InitTime == Init => TimeInv
<1> SUFFICES ASSUME Init PROVE TimeInv
  OBVIOUS
<1>1. Sleep \in Nat /\ Lag \in Nat
  BY SleepBounds, KeepAliveAssumption DEF Init
<1> QED
  <2> DEFINE S == Sleep
             Q == Polls
  <2>1. left = S /\ count = 0 /\ silent \in 0..Q /\ sincePing = 0 /\ waiting = 0
    BY DEF Init
  <2>2. S \in Nat /\ Q \in Nat
    BY <1>1, PollsLength
  <2> HIDE DEF S, Q
  <2>3. /\ left \in (-Lag)..S /\ count \in 0..4
        /\ silent \in Nat /\ sincePing \in Nat /\ waiting \in Nat
    BY SMT, <1>1, <2>1, <2>2
  <2>4. /\ silent <= Q + count * (S + Lag) + (S - left)
        /\ sincePing >= count * S + (S - left)
        /\ sincePing <= count * (S + Lag) + (S - left)
        /\ waiting <= S - left
    BY SMT, <1>1, <2>1, <2>2
  <2> QED
    BY <2>3, <2>4 DEF Init, TimeInv, TypeOK, S, Q

\* Time passes.
LEMMA TickTime ==
  ASSUME TimeInv, Tick
  PROVE  TimeInv'
<1> DEFINE S == Sleep
           P == Sleep + Lag
<1>1. S \in Nat /\ P \in Nat /\ Lag \in Nat /\ Polls \in Nat
  <2>1. S \in Nat /\ Lag \in Nat
    BY SleepBounds, KeepAliveAssumption DEF TimeInv, TypeOK
  <2> QED
    BY SMT, <2>1, PollsLength
<1>2. S' = S
  BY DEF Tick, Sleep
<1>3. TypeOK'
  BY SMT, <1>1, <1>2 DEF TimeInv, TypeOK, Tick
<1>4. count' = count /\ left' = left - 1
  BY DEF Tick
<1>5. count \in {0, 1, 2, 3, 4} /\ left \in Int
  BY SMT DEF TimeInv, TypeOK
<1>6. silent' <= Polls + count' * P + (S - left')
  BY SMT, <1>1, <1>4, <1>5 DEF TimeInv, TypeOK, Tick
<1>7. /\ sincePing' >= count' * S + (S - left')
      /\ sincePing' <= count' * P + (S - left')
  BY SMT, <1>1, <1>4, <1>5 DEF TimeInv, TypeOK, Tick
<1>8. heartbeat' = "sleep" => waiting' <= S - left'
  BY SMT, <1>1, <1>4, <1>5 DEF TimeInv, TypeOK, Tick
<1>9. ~stop_thread' => waiting' = 0
  BY DEF TimeInv, Tick
<1> QED
  BY <1>2, <1>3, <1>6, <1>7, <1>8, <1>9 DEF TimeInv

\* The thread wakes up.
LEMMA WakeTime ==
  ASSUME TimeInv, Wake
  PROVE  TimeInv'
<1> DEFINE S == Sleep
           P == Sleep + Lag
<1>1. S \in Nat /\ P \in Nat /\ Lag \in Nat /\ Polls \in Nat
  <2>1. S \in Nat /\ Lag \in Nat
    BY SleepBounds, KeepAliveAssumption DEF TimeInv, TypeOK
  <2> QED
    BY SMT, <2>1, PollsLength
<1>2. S' = S
  BY DEF Wake, Sleep
<1>3. TypeOK'
  BY SMT, <1>1, <1>2 DEF TimeInv, TypeOK, Wake, CountTo5
<1>4. /\ left \in Int /\ left <= 0 /\ left' = S
      /\ silent <= Polls + count * P + (S - left)
      /\ sincePing >= count * S + (S - left)
      /\ sincePing <= count * P + (S - left)
      /\ silent \in Nat /\ sincePing \in Nat /\ waiting \in Nat
      /\ -Lag <= left
  <2>1. left \in (-Lag)..S
    BY DEF TimeInv, TypeOK
  <2>2. left \in Int /\ -Lag <= left
    BY SMT, <1>1, <2>1
  <2> QED
    BY <2>2 DEF TimeInv, TypeOK, Wake
<1>5. count \in {0, 1, 2, 3, 4}
  BY SMT DEF TimeInv, TypeOK
<1>6. ASSUME count = 4
      PROVE  /\ silent' <= Polls + count' * P + (S - left')
             /\ sincePing' >= count' * S + (S - left')
             /\ sincePing' <= count' * P + (S - left')
  <2>1. count' = 0 /\ silent' = 0 /\ sincePing' = 0
    BY <1>6 DEF Wake, CountTo5
  <2> QED
    BY SMT, <1>1, <1>4, <2>1
<1>7. ASSUME count # 4
      PROVE  /\ silent' <= Polls + count' * P + (S - left')
             /\ sincePing' >= count' * S + (S - left')
             /\ sincePing' <= count' * P + (S - left')
  <2>1. count' = count + 1 /\ silent' = silent /\ sincePing' = sincePing
    BY <1>7 DEF Wake, CountTo5
  <2>2. S - left <= P
    BY SMT, <1>1, <1>4
  <2>3. silent' <= Polls + count' * P + (S - left')
    BY SMT, <1>1, <1>4, <1>5, <2>1, <2>2
  <2>4. sincePing' >= count' * S + (S - left')
    BY SMT, <1>1, <1>4, <1>5, <2>1
  <2>5. sincePing' <= count' * P + (S - left')
    BY SMT, <1>1, <1>4, <1>5, <2>1, <2>2
  <2> QED
    BY <2>3, <2>4, <2>5
<1>8. heartbeat' = "sleep" => waiting' <= S - left'
  <2>1. ASSUME heartbeat' = "sleep" PROVE waiting' = 0
    <3>1. ~stop_thread /\ waiting' = waiting
      BY <2>1 DEF Wake, GoesOn
    <3>2. ~stop_thread => waiting = 0
      BY DEF TimeInv
    <3> QED
      BY <3>1, <3>2
  <2> QED
    BY SMT, <1>1, <1>4, <2>1
<1>9. ~stop_thread' => waiting' = 0
  BY DEF TimeInv, Wake
<1> QED
  BY <1>2, <1>3, <1>6, <1>7, <1>8, <1>9 DEF TimeInv

\* The application sends, or asks the thread to stop.
LEMMA CallTime ==
  ASSUME TimeInv, Send \/ Stop
  PROVE  TimeInv'
<1> DEFINE S == Sleep
           P == Sleep + Lag
<1>1. S \in Nat /\ P \in Nat /\ Lag \in Nat /\ Polls \in Nat
  <2>1. S \in Nat /\ Lag \in Nat
    BY SleepBounds, KeepAliveAssumption DEF TimeInv, TypeOK
  <2> QED
    BY SMT, <2>1, PollsLength
<1>2. /\ S' = S
      /\ UNCHANGED <<seconds, heartbeat, left, count, sincePing, waiting>>
      /\ silent' = 0 \/ silent' = silent
      /\ ~stop_thread' => ~stop_thread
  BY DEF Send, Stop, Sleep
<1>3. TypeOK'
  <2>1. silent' \in Nat
    BY SMT, <1>2 DEF TimeInv, TypeOK
  <2> QED
    BY <1>2, <2>1 DEF TimeInv, TypeOK, Send, Stop
<1>4. left \in Int /\ left <= S /\ count \in {0, 1, 2, 3, 4}
  <2>1. left \in (-Lag)..S /\ count \in 0..4
    BY DEF TimeInv, TypeOK
  <2> QED
    BY SMT, <1>1, <2>1
<1>5. silent <= Polls + count * P + (S - left)
  BY DEF TimeInv
<1>6. 0 <= Polls + count * P + (S - left)
  BY SMT, <1>1, <1>4
<1>7. silent' <= Polls + count' * P + (S - left')
  BY <1>2, <1>5, <1>6
<1> QED
  BY <1>2, <1>3, <1>7 DEF TimeInv

\* TimeInv holds in every reachable state, whatever the intervals and the lag.
THEOREM TimeInvariant == Spec => []TimeInv
<1>1. TimeInv /\ UNCHANGED vars => TimeInv'
  BY DEF TimeInv, TypeOK, Sleep, vars
<1>2. TimeInv /\ [Next]_vars => TimeInv'
  BY <1>1, TickTime, WakeTime, CallTime DEF Next
<1> QED
  BY InitTime, <1>2, PTL DEF Spec

\* Every variable keeps its type.
THEOREM KeepAliveTypeCorrect == Spec => []TypeOK
  BY TimeInvariant, PTL DEF TimeInv

\* The broker never finds the client silent for more than one and a half times
\* any keep alive interval that has room for the polls before the thread and for
\* what five sleeps may be late by, whatever that is.
THEOREM SessionIsKept == Spec => []SessionKept
<1>1. TimeInv => SessionKept
  <2> SUFFICES ASSUME TimeInv, Polls + 5 * Lag <= seconds * Second
               PROVE  2 * silent <= 3 * seconds * Second
    BY DEF SessionKept
  <2> DEFINE S == Sleep
  <2>1. S \in Nat /\ seconds \in Nat /\ 2 * S <= seconds /\ Lag \in Nat
    BY SleepBounds, KeepAliveAssumption DEF TimeInv, TypeOK
  <2>2. left \in (-Lag)..S /\ count \in {0, 1, 2, 3, 4} /\ silent \in Nat
    BY SMT DEF TimeInv, TypeOK
  <2>3. silent <= Polls + count * (S + Lag) + (S - left)
    BY DEF TimeInv
  <2> DEFINE Q == Polls
  <2>4. Q \in Nat /\ Q + 5 * Lag <= 5 * seconds
    BY SMT, PollsLength, <2>1 DEF Second
  <2>5. silent <= Q + count * (S + Lag) + (S - left)
    BY <2>3
  <2> HIDE DEF S, Q
  <2>6. S - left <= S + Lag /\ left \in Int
    BY SMT, <2>1, <2>2
  <2>7. silent <= Q + 5 * (S + Lag)
    BY SMT, <2>1, <2>2, <2>6, <2>4, <2>5
  <2>8. 2 * silent <= 15 * seconds
    BY SMT, <2>1, <2>2, <2>7, <2>4
  <2> QED
    BY SMT, <2>1, <2>2, <2>8 DEF Second
<1> QED
  BY <1>1, TimeInvariant, PTL

\* Two PINGREQs are five sleeps apart, late or not, whatever the interval.
THEOREM PingsAreApart == Spec => PingsApart
<1>1. TimeInv /\ [Next]_vars
      => [sincePing # 0 /\ sincePing' = 0
          => sincePing \in 5 * Sleep .. 5 * (Sleep + Lag)]_vars
  <2> SUFFICES ASSUME TimeInv, Next, sincePing # 0, sincePing' = 0
               PROVE  sincePing \in 5 * Sleep .. 5 * (Sleep + Lag)
    BY DEF vars
  <2> DEFINE S == Sleep
  <2>1. S \in Nat /\ Lag \in Nat
    BY SleepBounds, KeepAliveAssumption DEF TimeInv, TypeOK
  <2>2. /\ left \in Int /\ -Lag <= left /\ sincePing \in Nat
        /\ sincePing >= count * S + (S - left)
        /\ sincePing <= count * (S + Lag) + (S - left)
    <3>1. left \in (-Lag)..S /\ sincePing \in Nat
      BY DEF TimeInv, TypeOK
    <3>2. left \in Int /\ -Lag <= left
      BY SMT, <2>1, <3>1
    <3> QED
      BY <3>1, <3>2 DEF TimeInv
  <2>3. Wake
    <3>1. ASSUME Tick PROVE FALSE
      BY SMT, <2>2, <3>1 DEF Tick
    <3>2. ASSUME Send \/ Stop PROVE FALSE
      BY <3>2 DEF Send, Stop
    <3> QED
      BY <3>1, <3>2 DEF Next
  <2>4. count = 4 /\ left <= 0
    BY <2>3 DEF Wake, CountTo5
  <2>5. /\ sincePing >= 4 * S + (S - left)
        /\ sincePing <= 4 * (S + Lag) + (S - left)
    BY <2>2, <2>4
  <2> HIDE DEF S
  <2>6. sincePing \in 5 * S .. 5 * (S + Lag)
    BY SMT, <2>1, <2>2, <2>4, <2>5
  <2> QED
    BY <2>6 DEF S
<1> QED
  BY <1>1, TimeInvariant, PTL DEF Spec, PingsApart

\* Once stop_thread is set the thread returns within one tenth of the interval.
THEOREM StopIsBounded == Spec => []StopDelayed
<1>1. TimeInv => StopDelayed
  <2> SUFFICES ASSUME TimeInv, heartbeat = "sleep"
               PROVE  waiting <= Sleep + Lag
    BY DEF StopDelayed
  <2>1. Sleep \in Nat /\ Lag \in Nat
    BY SleepBounds, KeepAliveAssumption DEF TimeInv, TypeOK
  <2> DEFINE S == Sleep
  <2>2. left \in (-Lag)..S /\ waiting \in Nat /\ waiting <= S - left
    BY DEF TimeInv, TypeOK
  <2> HIDE DEF S
  <2>3. S \in Nat
    BY <2>1 DEF S
  <2>4. waiting <= S + Lag
    BY SMT, <2>1, <2>2, <2>3
  <2> QED
    BY <2>4 DEF S
<1> QED
  BY <1>1, TimeInvariant, PTL

=============================================================================
