---------------------------- MODULE PablittoMQTT ----------------------------
(***************************************************************************)
(* A PablittoMQTT object (lib/pablittoMQTT.cpp) with its three threads:    *)
(* the application's, which calls the API one call at a time, the reader   *)
(* that start() creates and the heartbeat that connectMQTT() creates.      *)
(* They share the queues (under `mutex`, held for one push or pop at a     *)
(* time), stop_thread (a plain bool) and the socket.  A step is what a     *)
(* thread does between two points where another thread can notice.         *)
(***************************************************************************)
EXTENDS Broker

CONSTANTS
  Program,          \* the API operations the application uses
  MaxCalls,         \* bounds, by call: the requests of each kind it makes
  MaxAttempts,      \* MAX_ATTEMPTS, the polls of a queue before a call gives up
  PingTicks,        \* sleeps of the heartbeat between two PINGREQs
  IdMod,            \* values of a uint16_t message id
  NothingResponse,  \* NOTHING_RESPONSE
  TopicVectors      \* arguments of subscribe and unsubscribe

Calls == {"connect", "publish", "subscribe", "unsubscribe"}

ASSUME ClientAssumption ==
  /\ MaxCalls \in [Calls -> Nat]
  /\ MaxAttempts \in Nat \ {0}
  /\ PingTicks \in Nat \ {0}
  /\ IdMod \in Nat \ {0}
  /\ NothingResponse \in Nat
  /\ TopicVectors \in SUBSET Seq(STRING)

VARIABLES
  app,          \* where the application's thread is
  cur,          \* the API call it is in
  ret,          \* what the last call that waits, or throws, returned
  num,          \* requests made so far: the id_static counters, without wrap
  topics,       \* the topics recorded as subscribed
  queue,        \* the queue_*_packet members, by packet type
  got,          \* number of the last message get_message returned
  stop_thread,
  reader,       \* where the reader is; "none": not joinable, "done": returned
  rmsg,         \* reader_routine's msg: the packet it has just read
  keep_alive,   \* where the heartbeat is, likewise
  count         \* keep_alive_routine's count

appVars == <<app, cur, ret, num, topics, got>>
threadVars == <<stop_thread, reader, rmsg, keep_alive, count>>
vars == <<socketVars, brokerVars, appVars, queue, threadVars>>

-----------------------------------------------------------------------------

Queues == {"CONNACK", "PUBACK", "SUBACK", "UNSUBACK", "PUBLISH"}
Thrown == -1      \* the exception "Coda vuota", or "Error: Connection Failed"
NoCall == [call |-> "none", n |-> 0, left |-> 0, arg |-> <<>>]
NoPacket == MkPacket("PINGRESP", 0, 0, 0)

\* The id of the k-th packet of a class: (id_static++) % 65536, from 1, in 16 bits.
MessageId(k) == k % IdMod

AppTypeOK ==
  /\ app \in {"idle", "call", "joinReader", "joinKeepAlive", "gone"}
  /\ cur \in [call : Calls \cup {"none", "stop", "destroy"}, n : Nat,
              left : 0..MaxAttempts, arg : TopicVectors \cup {<<>>}]
  /\ app = "call" => cur.call \in Calls /\ cur.left > 0
  /\ ret \in [call : Calls \cup {"none", "start"}, n : Nat, id : Nat,
              val : Nat \cup {Thrown}, ack : Nat]
  /\ num \in [Calls -> Nat]
  /\ topics \in Seq(STRING)
  /\ got \in Nat

ThreadTypeOK ==
  /\ queue \in [Queues -> Seq(Packet)]
  /\ stop_thread \in BOOLEAN
  /\ reader \in {"none", "lock", "read", "analyze", "sleep", "done"}
  /\ rmsg \in Packet
  /\ keep_alive \in {"none", "sleep", "check", "done"}
  /\ count \in 0..(PingTicks - 1)

\* Every variable has its type, and a call in progress has polls left.
TypeOK == SocketTypeOK /\ BrokerTypeOK /\ AppTypeOK /\ ThreadTypeOK

Init ==
  /\ SocketInit
  /\ BrokerInit
  /\ app = "idle"
  /\ cur = NoCall
  /\ ret = [call |-> "none", n |-> 0, id |-> 0, val |-> 0, ack |-> 0]
  /\ num = [c \in Calls |-> 0]
  /\ topics = <<>>
  /\ queue = [q \in Queues |-> <<>>]
  /\ got = 0
  /\ stop_thread = FALSE
  /\ reader = "none"
  /\ rmsg = NoPacket
  /\ keep_alive = "none"
  /\ count = 0

-----------------------------------------------------------------------------
(* The application: calls that do not wait.                                *)

Idle(c) ==
  /\ proc = "running"
  /\ app = "idle"
  /\ c \in Program

\* start: assigning to a std::thread that is joinable terminates the process.
Start(ok) ==
  /\ Idle("start")
  /\ connectionTCP(ok)
  /\ session' = FALSE
  /\ IF ~ok
     THEN /\ ret' = [call |-> "start", n |-> 0, id |-> 0, val |-> Thrown, ack |-> 0]
          /\ UNCHANGED <<proc, reader>>
     ELSE /\ UNCHANGED ret
          /\ IF reader = "none"
             THEN reader' = "lock" /\ UNCHANGED proc
             ELSE proc' = "terminated" /\ UNCHANGED reader
  /\ UNCHANGED <<sockMutex, nMsg, app, cur, num, topics, got, queue,
                 stop_thread, rmsg, keep_alive, count>>

SetStopThread(value) ==
  /\ Idle("set_stop_thread")
  /\ stop_thread' = value
  /\ UNCHANGED <<socketVars, brokerVars, appVars, queue, reader, rmsg,
                 keep_alive, count>>

Disconnect ==
  /\ Idle("disconnect")
  /\ sendByteTCP(MkPacket("DISCONNECT", 0, 0, 0))
  /\ UNCHANGED <<sockMutex, toClient, brokerVars, appVars, queue, threadVars>>

\* Without a message get_message returns an empty pair and changes nothing.
GetMessage ==
  /\ Idle("get_message")
  /\ queue["PUBLISH"] # <<>>
  /\ got' = Head(queue["PUBLISH"]).n
  /\ queue' = [queue EXCEPT !["PUBLISH"] = Tail(@)]
  /\ UNCHANGED <<socketVars, brokerVars, app, cur, ret, num, topics, threadVars>>

-----------------------------------------------------------------------------
(* The application: requests.  Each sends its packet, ignores what send    *)
(* returned, and polls the queue of its acknowledgement.                   *)

\* Mutant of Issue: id_static is not incremented.
IssueSameId(c, p) ==
  /\ Idle(c)
  /\ num[c] < MaxCalls[c]
  /\ UNCHANGED num
  /\ sendByteTCP(p)
  /\ UNCHANGED <<sockMutex, toClient, brokerVars, topics, got, queue, threadVars>>

Issue(c, p) ==
  /\ Idle(c)
  /\ num[c] < MaxCalls[c]
  /\ num' = [num EXCEPT ![c] = @ + 1]
  /\ sendByteTCP(p)
  /\ UNCHANGED <<sockMutex, toClient, brokerVars, topics, got, queue, threadVars>>

Wait(c, topicVector) ==
  /\ app' = "call"
  /\ cur' = [call |-> c, n |-> num[c] + 1, left |-> MaxAttempts,
             arg |-> topicVector]
  /\ UNCHANGED ret

Connect ==
  /\ Issue("connect", MkPacket("CONNECT", 0, 0, num["connect"] + 1))
  /\ Wait("connect", <<>>)

\* A QoS 0 publish returns at once, and has used up a message id too.
Publish(qos) ==
  /\ LET k == num["publish"] + 1
     IN  Issue("publish", MkPacket("PUBLISH", qos, MessageId(k), k))
  /\ IF qos = 1
     THEN Wait("publish", <<>>)
     ELSE UNCHANGED <<app, cur, ret>>

Subscribe(topicVector) ==
  /\ LET k == num["subscribe"] + 1
     IN  Issue("subscribe", MkPacket("SUBSCRIBE", 1, MessageId(k), k))
  /\ Wait("subscribe", topicVector)

Unsubscribe(topicVector) ==
  /\ LET k == num["unsubscribe"] + 1
     IN  Issue("unsubscribe", MkPacket("UNSUBSCRIBE", 1, MessageId(k), k))
  /\ Wait("unsubscribe", topicVector)

-----------------------------------------------------------------------------
(* The application: one round of a call's do-while loop.  Only this thread *)
(* pops, so the queue found non-empty outside the mutex still is under it. *)

\* The queue whose emptiness a call tests, and the queue it then dequeues from.
QueueTested == [connect |-> "CONNACK", publish |-> "PUBACK",
                subscribe |-> "SUBACK", unsubscribe |-> "SUBACK"]
QueueTaken == [connect |-> "CONNACK", publish |-> "PUBACK",
               subscribe |-> "SUBACK", unsubscribe |-> "UNSUBACK"]

Polling == proc = "running" /\ app = "call"

Finds ==
  /\ Polling
  /\ queue[QueueTested[cur.call]] # <<>>
  /\ queue[QueueTaken[cur.call]] # <<>>

Taken == Head(queue[QueueTaken[cur.call]])
Dequeue == queue' = [queue EXCEPT ![QueueTaken[cur.call]] = Tail(@)]

Return(val, ack) ==
  /\ app' = "idle"
  /\ cur' = NoCall
  /\ ret' = [call |-> cur.call, n |-> cur.n, id |-> MessageId(cur.n),
             val |-> val, ack |-> ack]

\* Mutants of Retry: no answer is taken for 0; attemps-- is forgotten; the loop goes
\* on at 0.
RetryAccepts ==
  IF cur.left = 1
  THEN Return(0, 0)
  ELSE cur' = [cur EXCEPT !.left = @ - 1] /\ UNCHANGED <<app, ret>>
RetryForever == UNCHANGED <<app, cur, ret>>
RetryPastZero ==
  /\ cur' = [cur EXCEPT !.left = @ - 1]
  /\ UNCHANGED <<app, ret>>

\* attemps--, and the end of the loop when none is left.
Retry ==
  IF cur.left = 1
  THEN Return(NothingResponse, 0)
  ELSE /\ cur' = [cur EXCEPT !.left = @ - 1]
       /\ UNCHANGED <<app, ret>>

PollEmpty ==
  /\ Polling
  /\ queue[QueueTested[cur.call]] = <<>>
  /\ Retry
  /\ UNCHANGED <<socketVars, brokerVars, num, topics, got, queue, threadVars>>

\* dequeue_packet on an empty queue.
PollThrows ==
  /\ Polling
  /\ queue[QueueTested[cur.call]] # <<>>
  /\ queue[QueueTaken[cur.call]] = <<>>
  /\ Return(Thrown, 0)
  /\ UNCHANGED <<socketVars, brokerVars, num, topics, got, queue, threadVars>>

PollConnack ==
  /\ Finds
  /\ cur.call = "connect"
  /\ Dequeue
  /\ Return(Taken.id, Taken.n)
  /\ IF Taken.id # 0
     THEN UNCHANGED <<proc, keep_alive, count>>
     ELSE IF keep_alive = "none"
     THEN keep_alive' = "sleep" /\ count' = 0 /\ UNCHANGED proc
     ELSE proc' = "terminated" /\ UNCHANGED <<keep_alive, count>>
  /\ UNCHANGED <<conn, sockMutex, toBroker, toClient, brokerVars, num, topics,
                 got, stop_thread, reader, rmsg>>

\* Mutant of Matches: any acknowledgement will do.
MatchesAny(p) == TRUE

Matches(p) == p.id = MessageId(cur.n)

PollPuback ==
  /\ Finds
  /\ cur.call = "publish"
  /\ Dequeue
  /\ IF Matches(Taken) THEN Return(Taken.id, Taken.n) ELSE Retry
  /\ UNCHANGED <<socketVars, brokerVars, num, topics, got, threadVars>>

\* subscribe and unsubscribe: the first acknowledgement ends the call.
PollSuback ==
  /\ Finds
  /\ cur.call \in {"subscribe", "unsubscribe"}
  /\ Dequeue
  /\ topics' = IF Matches(Taken) THEN topics \o cur.arg ELSE topics
  /\ Return(Taken.id, Taken.n)
  /\ UNCHANGED <<socketVars, brokerVars, num, got, threadVars>>

-----------------------------------------------------------------------------
(* The application: stop and the destructor, which joins without telling   *)
(* the threads to stop.                                                    *)

Join(c) ==
  /\ app' = "joinReader"
  /\ cur' = [NoCall EXCEPT !.call = c]
  /\ UNCHANGED <<socketVars, brokerVars, ret, num, topics, got, queue, reader,
                 rmsg, keep_alive, count>>

\* Mutant of Stop: like the destructor, it forgets stop_thread.
StopSilently ==
  /\ Idle("stop")
  /\ UNCHANGED stop_thread
  /\ Join("stop")

Stop ==
  /\ Idle("stop")
  /\ stop_thread' = TRUE
  /\ Join("stop")

\* Mutant of Destroy: it tells the threads to stop, like stop().
DestroyStops ==
  /\ Idle("destroy")
  /\ stop_thread' = TRUE
  /\ Join("destroy")

Destroy ==
  /\ Idle("destroy")
  /\ UNCHANGED stop_thread
  /\ Join("destroy")

Joinable(t) == t \in {"none", "done"}

\* Mutant of JoinReader: the reader is detached instead of joined.
DetachReader ==
  /\ proc = "running"
  /\ app = "joinReader"
  /\ app' = "joinKeepAlive"
  /\ UNCHANGED <<socketVars, brokerVars, cur, ret, num, topics, got, queue,
                 threadVars>>

JoinReader ==
  /\ proc = "running"
  /\ app = "joinReader"
  /\ Joinable(reader)
  /\ reader' = "none"
  /\ app' = "joinKeepAlive"
  /\ UNCHANGED <<socketVars, brokerVars, cur, ret, num, topics, got, queue,
                 stop_thread, rmsg, keep_alive, count>>

JoinKeepAlive ==
  /\ proc = "running"
  /\ app = "joinKeepAlive"
  /\ Joinable(keep_alive)
  /\ keep_alive' = "none"
  /\ closeTCP
  /\ session' = FALSE
  /\ app' = IF cur.call = "stop" THEN "idle" ELSE "gone"
  /\ cur' = NoCall
  /\ UNCHANGED <<proc, sockMutex, nMsg, ret, num, topics, got, queue,
                 stop_thread, reader, rmsg, count>>

-----------------------------------------------------------------------------
(* The reader: reader_routine, readByteTCP and analyze_packet.             *)

ReaderEnter ==
  /\ proc = "running"
  /\ reader = "lock"
  /\ \/ readEnter /\ reader' = "read"
     \/ readLeak /\ reader' = "sleep"
  /\ UNCHANGED <<proc, conn, toBroker, toClient, brokerVars, appVars, queue,
                 stop_thread, rmsg, keep_alive, count>>

ReaderReads ==
  /\ proc = "running"
  /\ reader = "read"
  /\ \E k \in 1..Len(toClient) :
       /\ readData(k, Head(toClient))
       /\ rmsg' = Head(toClient)
  /\ reader' = "analyze"
  /\ UNCHANGED <<proc, conn, toBroker, brokerVars, appVars, queue,
                 stop_thread, keep_alive, count>>

ReaderReadsNothing ==
  /\ proc = "running"
  /\ reader = "read"
  /\ readNothing
  /\ reader' = "sleep"
  /\ UNCHANGED <<proc, conn, toBroker, brokerVars, appVars, queue,
                 stop_thread, rmsg, keep_alive, count>>

\* The packet types analyze_packet has a queue for.
Analyzed == {"CONNACK", "PUBLISH", "PUBACK", "SUBACK"}

\* Mutant of ReaderAnalyzes: the packet goes to the front of its queue.
ReaderPushesFront ==
  /\ proc = "running"
  /\ reader = "analyze"
  /\ queue' = IF rmsg.type \in Analyzed
              THEN [queue EXCEPT ![rmsg.type] = <<rmsg>> \o @]
              ELSE queue
  /\ reader' = "sleep"
  /\ UNCHANGED <<socketVars, brokerVars, appVars, stop_thread, rmsg,
                 keep_alive, count>>

ReaderAnalyzes ==
  /\ proc = "running"
  /\ reader = "analyze"
  /\ queue' = IF rmsg.type \in Analyzed
              THEN [queue EXCEPT ![rmsg.type] = Append(@, rmsg)]
              ELSE queue
  /\ reader' = "sleep"
  /\ UNCHANGED <<socketVars, brokerVars, appVars, stop_thread, rmsg,
                 keep_alive, count>>

ReaderSleeps ==
  /\ proc = "running"
  /\ reader = "sleep"
  /\ reader' = IF stop_thread THEN "done" ELSE "lock"
  /\ UNCHANGED <<socketVars, brokerVars, appVars, queue, stop_thread, rmsg,
                 keep_alive, count>>

(* The heartbeat: keep_alive_routine.                                      *)

\* Mutant of Ping: it locks the socket's mutex, like every other user of it.
PingLocked ==
  /\ sockMutex = "free"
  /\ sendByteTCP(MkPacket("PINGREQ", 0, 0, 0))

Ping == sendByteTCP(MkPacket("PINGREQ", 0, 0, 0))

HeartbeatTicks ==
  /\ proc = "running"
  /\ keep_alive = "sleep"
  /\ keep_alive' = "check"
  /\ IF count + 1 = PingTicks
     THEN /\ count' = 0
          /\ Ping
     ELSE /\ count' = count + 1
          /\ UNCHANGED <<proc, conn, toBroker>>
  /\ UNCHANGED <<sockMutex, toClient, brokerVars, appVars, queue, stop_thread,
                 reader, rmsg>>

HeartbeatChecks ==
  /\ proc = "running"
  /\ keep_alive = "check"
  /\ keep_alive' = IF stop_thread THEN "done" ELSE "sleep"
  /\ UNCHANGED <<socketVars, brokerVars, appVars, queue, stop_thread, reader,
                 rmsg, count>>

-----------------------------------------------------------------------------

AppCalls ==
  \/ \E ok \in BOOLEAN : Start(ok)
  \/ \E value \in BOOLEAN : SetStopThread(value)
  \/ Disconnect
  \/ GetMessage
  \/ Connect
  \/ \E qos \in {0, 1} : Publish(qos)
  \/ \E tv \in TopicVectors : Subscribe(tv)
  \/ \E tv \in TopicVectors : Unsubscribe(tv)
  \/ Stop
  \/ Destroy

\* The application inside a call.
AppWorks ==
  \/ PollEmpty
  \/ PollThrows
  \/ PollConnack
  \/ PollPuback
  \/ PollSuback
  \/ JoinReader
  \/ JoinKeepAlive

ReaderNext ==
  \/ ReaderEnter
  \/ ReaderReads
  \/ ReaderReadsNothing
  \/ ReaderAnalyzes
  \/ ReaderSleeps

HeartbeatNext == HeartbeatTicks \/ HeartbeatChecks

BrokerActs == BrokerNext /\ UNCHANGED <<appVars, queue, threadVars>>

Next == AppCalls \/ AppWorks \/ ReaderNext \/ HeartbeatNext \/ BrokerActs

Spec == Init /\ [][Next]_vars

\* The scheduler runs every thread that can run, and the broker reads what it
\* is sent.  Nobody has to make another call, publish or close.
Fairness ==
  /\ WF_vars(AppWorks)
  /\ WF_vars(ReaderNext)
  /\ WF_vars(HeartbeatNext)
  /\ WF_vars(BrokerServes /\ UNCHANGED <<appVars, queue, threadVars>>)

FairSpec == Spec /\ Fairness

-----------------------------------------------------------------------------
(* Properties.                                                             *)

\* The acknowledgement of the a-th request may be taken for that of the k-th: it is,
\* or the 16-bit ids have come round between the two.
Confirms(a, k) == a = k \/ k - a >= IdMod

\* A QoS 1 publish that returns an id was acknowledged by the broker for that very
\* packet: the acknowledgements of earlier publishes that timed out, and those left
\* in the queue by another connection, never confirm it, unless all 65536 ids have
\* been used in between.
PublishConfirmed ==
  ret.call = "publish" /\ ret.val # NothingResponse => Confirms(ret.ack, ret.n)

\* Likewise, topics grows only at the end of a subscribe whose own SUBACK has
\* arrived, by exactly the topics of that call.
TopicsAfterGrant ==
  [][topics' # topics =>
       /\ app = "call" /\ cur.call = "subscribe"
       /\ topics' = topics \o cur.arg
       /\ Confirms(ret'.ack, cur.n)]_vars

D == INSTANCE Delivery WITH sent <- nMsg, last <- got

\* get_message hands the broker's messages out in the order they were published
\* and none twice, through the socket, the reader and the queue, over
\* reconnections, stops and restarts.
MessagesInOrder == D!Spec

\* The reader works on a descriptor that start() opened and nobody has closed:
\* stop() and the destructor close it only once the reader has returned.
ReaderUsesOpenSocket ==
  reader \in {"lock", "read", "analyze", "sleep"} => conn \notin {"none", "closed"}

\* Once a call of the reader has ended the mutex is free again, so a start()
\* after a stop() is not kept waiting (the outcome -1 of error_code apart).
RestartNotBlocked ==
  MinusOne = {FALSE} /\ reader \in {"none", "done"} => sockMutex = "free"

\* readByteTCP has returned -1 with the mutex locked.
Leaked == sockMutex = "held" /\ reader # "read"

\* From then on nothing unlocks it: no reader reads again, and one that has come
\* back for the next packet waits for ever, with the stop or destructor that joins it.
LeakIsFinal ==
  [][Leaked => Leaked' /\ (reader = "lock" => reader' = "lock")]_vars

\* Every call that waits for the broker returns, whatever the broker does.
CallReturns ==
  app = "call" ~> app = "idle" \/ proc # "running"

\* stop() returns once the connection is no longer up.
StopEndsWhenDown ==
  cur.call = "stop" /\ conn # "open" ~> cur.call # "stop" \/ proc # "running"

Arrived(m) == \E i \in 1..Len(toClient) :
                toClient[i].type = "PUBLISH" /\ toClient[i].n = m

\* While nobody stops it the reader gets to every message that has arrived,
\* however many other packets keep arriving.
ArrivalsRead ==
  \A m \in 1..MaxMsgs :
    Arrived(m) /\ reader # "none"
    ~> ~Arrived(m) \/ stop_thread \/ proc # "running"

\* While nobody stops it the heartbeat comes round to its next PINGREQ.
HeartbeatGoesOn ==
  keep_alive # "none"
  ~> (keep_alive = "check" /\ count = 0) \/ stop_thread \/ proc # "running"

\* unsubscribe waits for its acknowledgement; it does not throw (fails).
UnsubscribeAnswers == ret.val = Thrown => ret.call = "start"

\* A PINGREQ on a connection that is down makes send() return -1 (fails: it
\* kills the process).
DownIsReported ==
  [][keep_alive = "sleep" /\ keep_alive' = "check" => proc' = "running"]_vars

\* connectMQTT returns 0 only if the broker has accepted a CONNECT on the
\* connection that is up (fails over two connections, holds for the programs).
AcceptedMeansSession ==
  [][cur.call = "connect" /\ cur'.call = "none" /\ ret'.val = 0 /\ conn = "open"
     => session]_vars

\* A packet leaves the socket only to be analysed (fails).
ReaderDiscardsNothing ==
  [][reader = "read" /\ reader' = "analyze" =>
       toClient' = Tail(toClient)]_vars

\* stop() returns (fails).
StopReturns == cur.call = "stop" ~> cur.call # "stop" \/ proc # "running"

-----------------------------------------------------------------------------
(* Inductive invariants, from which the proofs derive the properties.      *)

\* Packet p, if it is of type t, is or answers one of the first m[c] requests c
\* of its kind, under the id that request was given.
Numbered(m, p, t, c) == p.type = t => p.n \in 1..m[c] /\ p.id = MessageId(p.n)

RequestNumbered(m, p) ==
  /\ Numbered(m, p, "PUBLISH", "publish")
  /\ Numbered(m, p, "SUBSCRIBE", "subscribe")
  /\ Numbered(m, p, "UNSUBSCRIBE", "unsubscribe")

AckNumbered(m, p) ==
  /\ Numbered(m, p, "PUBACK", "publish")
  /\ Numbered(m, p, "SUBACK", "subscribe")
  /\ Numbered(m, p, "UNSUBACK", "unsubscribe")

AllRequestsNumbered(m, s) == \A i \in 1..Len(s) : RequestNumbered(m, s[i])
AllAcksNumbered(m, s) == \A i \in 1..Len(s) : AckNumbered(m, s[i])
AllOfType(s, t) == \A i \in 1..Len(s) : s[i].type = t

\* Wherever an acknowledgement is on its way, in the socket, in the reader's
\* hands or in a queue, its id is that of the request it answers; a queue holds
\* packets of its own type, and nothing is ever queued for an unsubscribe; and the
\* request of a call that waits is the last of its kind.
AckInv ==
  /\ AllRequestsNumbered(num, toBroker)
  /\ AllAcksNumbered(num, toClient)
  /\ AckNumbered(num, rmsg)
  /\ \A q \in Queues : AllAcksNumbered(num, queue[q]) /\ AllOfType(queue[q], q)
  /\ queue["UNSUBACK"] = <<>>
  /\ app = "call" => cur.n = num[cur.call]

\* From the moment a join of the reader has returned there is no reader, until
\* start() makes one; and only a reader inside read() holds the mutex, if no
\* early return has leaked it.
LifeInv ==
  /\ ReaderUsesOpenSocket
  /\ app \in {"joinKeepAlive", "gone"} => reader = "none"
  /\ MinusOne = {FALSE} => (sockMutex = "held" <=> reader = "read")

IsMessage(p) == p.type = "PUBLISH"

\* The messages in s are numbered upwards; between low and high; below those in t.
InOrder(s) ==
  \A i, j \in 1..Len(s) :
    i < j /\ IsMessage(s[i]) /\ IsMessage(s[j]) => s[i].n < s[j].n

Within(s, low, high) ==
  \A i \in 1..Len(s) : IsMessage(s[i]) => low < s[i].n /\ s[i].n <= high

Precedes(s, t) ==
  \A i \in 1..Len(s), j \in 1..Len(t) :
    IsMessage(s[i]) /\ IsMessage(t[j]) => s[i].n < t[j].n

\* The packet in the reader's hands.
Hand == IF reader = "analyze" THEN <<rmsg>> ELSE <<>>

\* The messages not yet handed out are numbered upwards from the front of their
\* queue, through the reader, to the end of the socket, between the last one
\* handed out and the last one published.
PipeInv ==
  /\ got <= nMsg
  /\ AllOfType(queue["PUBLISH"], "PUBLISH")
  /\ InOrder(queue["PUBLISH"]) /\ InOrder(toClient)
  /\ \A s \in {queue["PUBLISH"], Hand, toClient} : Within(s, got, nMsg)
  /\ Precedes(queue["PUBLISH"], Hand)
  /\ Precedes(queue["PUBLISH"], toClient)
  /\ Precedes(Hand, toClient)

=============================================================================
