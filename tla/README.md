# pablitto-client: a TLA+ model

Pablitto is a small MQTT 3.1.1 client in C++: a class `PablittoMQTT` that a
program uses to connect, publish and subscribe, and two command line programs
built on it. This directory models the client (its three threads, its queues,
its socket), the two programs from their command line to their end, the codec of
the packets in both directions, the way the TCP stream is cut into packets and
written by two threads, and the heartbeat against the clock; model-checks them
with TLC; and proves the safety properties with TLAPS for every value of the
constants.

Paths below are relative to the repository (`src/`). "The manual" is
`doc/pablitto.pdf`.

## 1. Inventory

| Component | State | Operations | Module |
|---|---|---|---|
| `SocketTCP` | descriptor, mutex, (unused) member buffer | `connectionTCP`, `closeTCP`, `sendByteTCP`, `readByteTCP`, destructor | `SocketTCP`; bytes: `Framing`, `Uplink` |
| `PablittoMQTT`, application side | five queues, `topics`, `stop_thread`, two `std::thread`s, the static id counters of the packet classes | `start`, `stop`, destructor, `connectMQTT`, `publish`, `subscribe`, `unsubscribe`, `disconnect`, `get_message`, `set_stop_thread` | `PablittoMQTT` |
| reader thread | `msg` | `reader_routine`, `analyze_packet`, `enqueue_packet` | `PablittoMQTT` |
| heartbeat thread | `count`, `seconds` | `keep_alive_routine` | `PablittoMQTT`; time: `KeepAlive` |
| `FixedHeader` | none kept between calls | encode and decode of the remaining length, `boxing`, `unboxing` | `FixedHeader` |
| packet classes | id counters (`static`) | `boxing`, `unboxing` | `Packets` (what a broker sends), `ClientPackets` (what the client sends), `PablittoMQTT` (counters) |
| the broker | sessions, messages | external | `Broker`, and its parser in `Uplink` |
| `is_valid_topic`, `split_string` | none | string scans | `Programs` |
| `pablitto_pub`, `pablitto_sub` | command line, options | `analyze_arguments_*`, `main`, `target`, the SIGINT handler | `Arguments`, `Programs` |

**How they interact.** The application's thread calls the API, one call at a
time. `start` connects and creates the reader; an accepted `connectMQTT` creates
the heartbeat. A call that expects an answer sends its packet and then polls a
queue, at most `MAX_ATTEMPTS` times, with sleeps between. The reader blocks in
`read()` *holding the socket's mutex*, analyses one packet, pushes it on a queue
and sleeps. The heartbeat sends a PINGREQ every so many sleeps, without that
mutex. The two threads look at the plain bool `stop_thread` after each round;
`stop` sets it, joins both and closes the socket; the destructor joins and closes
without setting it.

**Hard behaviours.** Answers arrive after the call that waited for them has
given up, or never; queues outlive the connections whose answers they hold;
several packets arrive together, or one arrives in pieces; the connection goes
down while a thread is inside `read()` or about to `send()`; stopping races all
of that; `error_code` is read without having been written.

**What makes each component correct.**

* Calls: an acknowledgement confirms the request it answers and no other
  until all ids have been used in between (`PublishConfirmed`, `TopicsAfterGrant`); a call always returns
  (`CallReturns`); it reports what the broker said (`AcceptedMeansSession`, which
  holds in the programs and fails in general; `UnsubscribeAnswers`: fails).
* Reader: messages come out in order and at most once (`MessagesInOrder`);
  what has arrived is read (`ArrivalsRead`), unless the mutex has leaked, and then never
  again (`LeakIsFinal`); it never uses a closed descriptor (`ReaderUsesOpenSocket`); nothing is discarded (`ReaderDiscardsNothing`: fails).
* Lifecycle: `stop` ends when the connection does (`StopEndsWhenDown`), and
  otherwise (`StopReturns`: fails); `start` is not kept waiting after it
  (`RestartNotBlocked`).
* Heartbeat: it goes on while the reader is blocked (`HeartbeatGoesOn`), keeps
  the session (`SessionKept`), keeps its PINGREQs five sleeps apart, which is nothing but
  their lateness below ten seconds (`PingsApart`), does not hold up `stop` for more than a
  tenth of its interval (`StopDelayed`), and survives a connection that is down (`DownIsReported`: fails).
* Codec and framing: every remaining length is read back (`LengthDecoded`); the
  header is taken off, except at the lengths where it is not (`HeaderErased`); a
  packet found whole is analysed as sent (`WholePacketAnalyzed`), or cut to a known
  length (`LongMessageCut`), and of one that comes in pieces the first piece is kept right
  (`PartMessage`); the broker makes out what two threads wrote (`RequestsIntact`,
  `IsPacketStream`) until one splits the other's packet, which takes a backlog
  (`SplitNeedsBacklog`); and a packet's optional parts are announced right (`UnboxingInverts`).
* Programs: no command line makes the parser leave its vector (`ArgsInBounds`);
  options are in range (`ProgramTypeOK`); no thread is overwritten
  (`NeverTerminated`); an accepted publisher ends (`PublisherEnds`), a subscriber
  prints what was read (`SubscriberDrains`), a refused program does not end
  (`RefusedHangs`).

The hazards behind these, each at its line, are listed in `PROJECT.json`.

## 2. The modules

    SocketTCP  <-  Broker  <-  PablittoMQTT  -- refines -->  Delivery
                                  ^      ^
                   MCPablittoMQTT |      +-- Programs (and Arguments) <- MCPrograms
                 PablittoMQTTProofs <- DeliveryProofs
                                    <- ProgramsProofs (and Programs)

    FixedHeader <- Packets <- Framing <- MCFraming
                           <- ClientPackets <- Uplink  -- refines -->  PacketStream
                                                  ^
                                                  +-- MCUplink
                           <- PacketsProofs <- FramingProofs (and Framing)
                                            <- ClientPacketsProofs <- UplinkProofs
                                               (and ClientPackets)    (and Uplink)

    KeepAlive <- MCKeepAlive, KeepAliveProofs

(`<-`: is extended by; the EXTENDS lines are authoritative.)

### SocketTCP
The stream of each direction is a sequence of *whole packets*; byte level is
`Framing`'s. `conn` says what the descriptor is: never opened (`none`, the initial
0), the -1 of a failed `socket()` (`invalid`), a socket that failed to connect
(`unconnected`), `open`, closed by the peer (`eof`), `reset`, or `closed` by us.
`readByteTCP` is two steps, because the mutex is held across the blocking
`read()`: `readEnter`, then `readData` or `readNothing`. `readData(k, p)` takes
the first `k` packets that have arrived and hands out the first one; the others
are lost, as the code copies `2 + buffer[1]` bytes of what it read.

`error_code` is compared with -1 without ever having been written: `getsockopt`
gets `sizeof(error_code)` *cast to a pointer* as `optlen` and fails with EFAULT.
The constant `MinusOne` is the set of outcomes of that comparison. `{FALSE}` is
what a build whose stack slot never holds -1 does; `{TRUE, FALSE}` is every
outcome, including the early return of `readByteTCP` that leaves the mutex locked
(`readLeak`).

`kernelSend` follows POSIX: a full buffer blocks; a socket that was reset or never
connected raises SIGPIPE (nothing in the code sets MSG_NOSIGNAL or a handler) and
the process is `killed`; a reset that has not been reported yet makes `send`
return -1, which is why `reset` has two outcomes. `proc = "terminated"` is
`std::terminate`, from assigning to a joinable `std::thread`.

### Broker (external)
Only what the client's code relies on. It answers a session's requests in order or
leaves one unanswered, sends a CONNACK with a code of `ReturnCodes`, publishes
messages when it likes, hangs up on protocol errors, and closes at any time. A
connection that `start` replaces is dropped with all that was in it. Packets carry
a ghost number `n` that only properties read: the k-th request of a kind, or the
k-th message, and an acknowledgement has its request's number.

### PablittoMQTT
One action per call that does not wait; for calls that do, an action that sends
(`Connect`, `Publish`, `Subscribe`, `Unsubscribe`) and one per round of the
do-while loop (`PollEmpty`, `PollThrows`, `PollConnack`, `PollPuback`,
`PollSuback`); `stop` and the destructor are `Stop` or `Destroy`, then
`JoinReader`, `JoinKeepAlive`. The reader is `ReaderEnter`, `ReaderReads` or
`ReaderReadsNothing`, `ReaderAnalyzes`, `ReaderSleeps`; the heartbeat
`HeartbeatTicks`, `HeartbeatChecks`.

| Variable | Code |
|---|---|
| `app`, `cur` | where the application's thread is; the call it is in, `left` being `attemps` |
| `ret` | what the last call that waits, or throws, returned (`Thrown` = an exception) |
| `num` | the `static uint16_t id_static` counters, not wrapped; `MessageId` wraps them |
| `topics`, `queue`, `stop_thread` | the members of these names |
| `reader`, `keep_alive` | the program counters of the threads; `none` = not joinable |
| `rmsg`, `count` | locals `msg` and `count` of the two routines |
| `got` | ghost: the number of the last message handed out |

What is abstracted:

* `queue.empty()` is called outside the mutex. On the `std::deque` underneath it
  compares two pointers of which the reader's push changes one, and only the
  application pops; a test reads the state before or after a push, and the opaque
  calls to `sleep_for` and `send` in every loop keep the compiler from hoisting it.
  The plain bool `stop_thread` is treated likewise. Both are data races in the
  letter of the standard; their outcomes in the builds there are, a stale or a fresh
  value, are orders of steps the model has.
* Sleeps have no length: a thread that sleeps wakes up some time. So a timeout may
  be as short or as long, relative to the broker, as one likes, and every race of an
  answer with the end of a call happens in the model.
* Payloads, topics and client ids are not kept: no property tells them apart. The
  order of a message among the messages is its `n`.
* A "message" is a PUBLISH packet the broker sent. The client never acknowledges a
  QoS 1 message, so a broker may send one again; the second is a new packet, as
  `Delivery` says.
* `debug` output is left out. It changes no state.

### Delivery
What the client promises of messages: each handed out at most once, in order; any
may be lost. `MessagesInOrder == D!Spec` is the refinement, with `sent <- nMsg`,
`last <- got`.

### FixedHeader, Packets, Framing
Pure codec operators over sequences of bytes, and the machine that feeds
`readByteTCP`: the broker sends packets, TCP segments end anywhere, `read()` takes
what has arrived, up to `MAX_LEN`, and the second byte of the buffer is believed.
Bytes of the buffer that `read()` did not write hold `Garbage`. A method that reads
past the end of its vector yields `Undefined` and the model stops there. The
fixed header's QoS is decoded as the code does, `(msg[0>>1])&0x03`, which is the two
low bits of the first byte: nothing uses it.

### ClientPackets, Uplink, PacketStream
The packets the client sends, as their constructors and `boxing` make them, and
what `unboxing` of the same classes makes of the bytes. `Uplink` is the path of those
bytes to the broker: `send` on a blocking socket hands the kernel what there is
room for and waits for more, and `sendByteTCP` takes no mutex, so the heartbeat's
PINGREQ may come into the middle of a packet that is waiting. The variable `split`
remembers that it did. The broker's parser (`Parse`) takes one packet at a time off
what the broker has read; it is written from the MQTT standard and shares the length
decoder with `FixedHeader`. A packet longer than MQTT's four digits can say is outside
`UplinkAssumption`: `encode_remaining_len` has no code for it that a broker could read.

The loops over topics are recursive functions: `Concat` puts the encoded pieces one
behind the other as `boxing` does, `Payload` is what each round of `unboxing`'s
`while (payload_len > 0)` leaves, `Passes` the rounds it makes.

`PacketStream` is what the two writers and the broker may rely on: packets are begun,
and the broker makes them out one by one in that order, whole, until one packet is
split by another, after which nothing is promised. `IsPacketStream` is the refinement.
Its `MakeOut` is one step, of a packet; in `Uplink` a packet is several writes and
reads, of which only the last completes a frame.

### KeepAlive
`keep_alive_routine` against the clock, in units of 200 ms: five sleeps of
`seconds/10` seconds, each up to `Lag` units late, then a PINGREQ, then a look at
`stop_thread`. `silent` is the time since the broker last received anything,
including the polls of `connectMQTT` before the thread existed (`Polls`: the CONNACK
is found by the last of `MAX_ATTEMPTS` polls at the latest, so up to four have slept,
200 ms and up to `Lag` more each); any packet of the
application resets it. The other threads are left to `PablittoMQTT`, which has no
time. `send` takes no time here: a connection that blocks is not silent by the
heartbeat's fault.

### Arguments, Programs
`Arguments` is the loop of `analyze_arguments_pub` and `analyze_arguments_sub`, one
step per `if`, since `*++element` moves the iterator in the middle of a round: in
`-t -m x` the value `-m` is taken by `-t`, seen by the next `if`, and takes `x`. Words
are opaque; `Numerals` are those that match `[0-9]*` (the empty one too),
`Atoi` gives the outcomes of `atoi`, several where it overflows, and `Levels` what
`split_string` makes of a word. Reading past the end would yield any word; the proof
is that it does not happen.

`Programs` composes the parser, `main` and `target` with the whole client and
broker. `main` is a program counter, `MainStarts`, `MainConnects`, `TargetPublishes`
and so on are calls of `PablittoMQTT`'s actions, and the client's threads go on
between them (`Meanwhile`). `exit(1)` and the return of `main` end the process with all
its threads; the return runs the destructor first. `Interrupted` is the SIGINT handler.
`ProgramsAreClients` proves that every behaviour of the programs is one of the
client's specification.

## 3. The runs

The largest, `requests`, `keepalive` and `delivery`, have one to two and a half million
states; `requests` takes a minute and a half, the others a minute or less. `MaxAttempts` is 2 (5 in the code): one
poll that fails and a last one are the two cases of the loop. `SendBuf = 1`,
`RecvBuf = 2`: full and not full, and two packets that arrive together.
In `requests` `RecvBuf = 1`: packets lost in a read are `delivery`'s, and to a call that
waits a lost acknowledgement is one the broker never sent
(`BrokerSilent`). `PingTicks = 2` where the tick without a PINGREQ matters, 1 elsewhere.
`IdMod` is the code's 65536, which no run exhausts, but for `requests`, where it is 2: the
ids come round at the third publish, whose call the PUBACK of the first one may
end, as in the code after 65536 of them. `Program` is the set of calls the application may make, in any order; in
`programs` the order is that of `main` and `target`.

| Run | Question | Bounds | Result |
|---|---|---|---|
| `requests` | does a late acknowledgement confirm another request? | 1 connect, 3 publishes, 2 subscribes, 1 unsubscribe, 2 ids: a call that timed out, a later one of its kind, and one that has its id again | `TypeOK`, `AckInv`, `PublishConfirmed`, `TopicsAfterGrant` hold |
| `delivery` | order, at-most-once, descriptor lifetime | 2 connects, 2 messages, any number of starts, stops, disconnects, `set_stop_thread`; both outcomes of `error_code` | `MessagesInOrder`, `PipeInv`, `ReaderUsesOpenSocket`, `LeakIsFinal` hold |
| `liveness` | does everything that should happen happen? | 1 connect, 1 publish, 1 message, any number of starts and stops | `CallReturns`, `StopEndsWhenDown`, `ArrivalsRead`, `HeartbeatGoesOn`, `RestartNotBlocked` hold |
| `framing` | are packets cut and decoded right? | 2 packets out of 12, segments ending at each of the first six bytes or at a packet's end, lengths on both sides of 127, 128 and 256 | `TypeOK`, `WholePacketAnalyzed`, `PartMessage`, `LongMessageCut`, `LengthDecoded`, `HeaderErased` hold |
| `keepalive` | is the session kept, at what price? | intervals 0, 1, 2, 3, 9, 10, 20, 39: every rounding; each sleep up to 5 units, a second, late, which at ten seconds takes up the room `SessionKept` leaves but for one unit | `TypeOK`, `TimeInv`, `SessionKept`, `PingsApart`, `StopDelayed` hold |
| `programs` | what becomes of the two programs? | every command line of up to 3 words out of the options and 6 values, and 6 longer ones; accepted, refused, no answer; 1 message | `ProgramTypeOK`, `ArgsInBounds`, `NeverTerminated`, `RefusedHangs`, `AcceptedMeansSession`, `PublisherEnds`, `SubscriberDrains` hold |
| `uplink` | does the broker make out what is sent? | 2 requests out of 13, of every kind, and 2 PINGREQs; room for 48 bytes, so that a long packet waits several times | `TypeOK`, `RequestsIntact`, `SplitNeedsBacklog`, `UnboxingInverts`, `IsPacketStream` hold |
| `unsubscribe_throws` | `UnsubscribeAnswers` | 1 of each call | violated |
| `down_kills` | `DownIsReported` | 1 connect | violated |
| `stale_connack` | `AcceptedMeansSession` | 2 connects | violated |
| `discarded_packets` | `ReaderDiscardsNothing` | 2 messages | violated |
| `stop_hangs` | `StopReturns` | start and stop | violated |

Deadlock checking is off throughout: a program that makes no further call, or whose
process has died or ended, legitimately stops; that nobody waits for ever is the
subject of the liveness properties. `MAX_LEN` is 260 in `framing` instead of 2048 so
that two packets fill the buffer, and it stays above `2 + 255`, the most the code
copies out. `keepalive` needs no bound on time: the counters of silence and waiting are
bounded by the sleeps, which is `TimeInv`.

**Fairness** (`FairSpec`): weak fairness of the application *inside* a call, of the
reader, of the heartbeat, and of a broker that reads its connection. The first three
say the operating system runs runnable threads; every sleep in the code is finite.
The last is needed only where a full send buffer would block. Nobody has to make
another call, publish, answer or close: `BrokerSilent` satisfies the broker's
fairness. So `CallReturns` rests on `MAX_ATTEMPTS` and not on an answer.
`ArrivalsRead` is conditional on nobody stopping the client. `liveness` has
`MinusOne = {FALSE}`; with both outcomes the reader may leave its mutex locked and wait
for it for good, which is `LeakIsFinal`.

`FairProgram` adds strong fairness of `MainNext`: the main thread goes on, and a
`send` of its that waits for room is not passed over for ever by the PINGREQs of the
heartbeat, as waiters on a Linux socket are not. SIGINT need not come. Here too
nobody has to answer: `PublisherEnds` rests on `MAX_ATTEMPTS`, `SubscriberDrains` on the
loop alone. Both give up when SIGPIPE has killed the process.

Each property of a passing run has a mutant of the code, in `PROJECT.json`, that
breaks it: a forgotten unlock, a lock only tried, a PINGREQ not sent or of the wrong type, a header sent
apart from its packet, a forgotten `attemps--`, any acknowledgement accepted,
a heartbeat that takes the mutex, a reader that is detached instead of joined, a
look at the last argument that is left out, a destructor that stops the threads, and
so on.

### Findings

Shown by a run, with the text they contradict quoted in `PROJECT.json`:

1. `unsubscribe` tests `queue_suback_packet` and dequeues `queue_unsuback_packet`,
   which nothing fills (`lib/pablittoMQTT.cpp:424`): after a late SUBACK it throws.
2. A PINGREQ (any send) on a connection that was reset kills the process
   (`:107`; lines 108-110 expect -1).
3. `connectMQTT` may return the CONNACK of an earlier connection (`:190`). In the two
   programs, which connect once, it cannot: `AcceptedProgramHasSession`.
4. Packets that arrive together: the first is kept, the others lost
   (`lib/SocketTCP.cpp:83-92`).
5. `stop` waits for a reader that waits for the broker (`:21`).
Stated by properties that hold of the code as it is, or by an action:

6. If the unwritten `error_code` holds -1, `readByteTCP` returns with its mutex locked:
   the reader waits for itself, and nothing is read again (`lib/SocketTCP.cpp:99`;
   `LeakIsFinal`).
7. After 65536 publishes the ids come again, and a PUBACK still in the queue confirms a
   publish it does not answer (`lib/publish_packet.cpp:23`; the second case of
   `Confirms`, which `requests` reaches).
8. `start` after `stop` creates a reader that ends after one read, because nothing
   resets `stop_thread` (`lib/pablittoMQTT.cpp:63`; `Start`, `ReaderSleeps`).
9. With a keep alive interval below ten seconds the heartbeat does not sleep at all
   (`lib/pablittoMQTT.cpp:101`; `PingsApart`); in general it sends a PINGREQ after five
   rounded tenths of the interval, not after its half, as the manual says (p. 10).
10. A PINGREQ may come into the middle of a packet that waits for room
    (`lib/SocketTCP.cpp:64`; `Ping` of `Uplink`, `SplitNeedsBacklog` says when).
11. A packet of which only a part has arrived is completed with whatever the buffer
    holds, and its rest is taken for another one (`lib/SocketTCP.cpp:92`; `Buffer`,
    `Read`; `PartMessage` says what of a message is right).
12. A remaining length of 127, or of 16384 and more, leaves the fixed header in
    place (`include/fixed_header.hh:114`; `HeaderErased`, whose "not 127" is the
    exception the code makes; the comments there promise the header's bytes).
13. Of a message with a remaining length `n` in 128..16383 the client sees
    `127 + n % 128` bytes (`lib/SocketTCP.cpp:90`; `LongMessageCut`).
14. A QoS 1 message keeps its message id in front of its payload
    (`lib/publish_packet.cpp:59`; `Received` in `WholePacketAnalyzed`).
15. A program that the broker refuses or does not answer never ends: its destructor
    joins a reader nobody stops (`lib/pablittoMQTT.cpp:14`; `RefusedHangs`).

## 4. The proofs

TLAPS checks every theorem from the named assumptions on the constants
(`SocketAssumption`, `BrokerAssumption`, `ClientAssumption`, `FramingAssumption`,
`UplinkAssumption`, `KeepAliveAssumption`, `ArgumentsAssumption`, `ProgramsAssumption`), which say no more
than that bounds are naturals, sets are sets of the right things, a buffer holds at
least one packet, a packet's remaining length has at most four digits, `atoi` reads "0" and "1" right, and each call of the programs is
allowed once. So the theorems hold for any number of requests, messages, retries and
topics, any buffer size, any packets and segments, any interval and any command line.

| Module | Theorem | Argument |
|---|---|---|
| `PablittoMQTTProofs` | `TypeCorrect`: `Spec => []TypeOK` | inductive as it stands; one lemma per action group |
| `PablittoMQTTProofs` | `AcksNumbered`: `[]AckInv` | inductive with `TypeOK` |
| `PablittoMQTTProofs` | `PublishIsConfirmed`, `TopicsAreGranted` | from `AckInv` |
| `PablittoMQTTProofs` | `ReaderSocketOpen`, `MutexFreeAfterStop` | from `LifeInv` |
| `PablittoMQTTProofs` | `LeaksAreFinal`: `Spec => LeakIsFinal` | step by step |
| `DeliveryProofs` | `PipeInvariant`: `[]PipeInv` | inductive with `TypeOK` |
| `DeliveryProofs` | `DeliveredInOrder`: `Spec => D!Spec` | refinement, from `PipeInv` |
| `PacketsProofs` | `LengthRoundTrip` | `decode_remaining_len` inverts `encode_remaining_len` up to 268435455 |
| `PacketsProofs` | `StringRoundTrip` | `decode_bytes` inverts `encode_bytes`, and leaves the rest |
| `FramingProofs` | `StreamInvariant`: `[]StreamInv` | inductive |
| `FramingProofs` | `FramingTypeCorrect`, `WholePacketsAnalyzed`, `LongMessagesCut`, `HeadersErased`, `LengthsDecoded` | from `StreamInv` and the round trips |
| `ClientPacketsProofs` | `UnboxingRoundTrip` | `unboxing` inverts `boxing` for every packet but a PUBLISH, where the header is erased; by induction over pieces and rounds |
| `UplinkProofs` | `UplinkTypeCorrect` | inductive as it stands |
| `UplinkProofs` | `ThreadsPacketsUnboxed` | from `UnboxingRoundTrip` and the types |
| `UplinkProofs` | `PacketsArriveIntact`: `[]RequestsIntact` | from `UplinkInv`, which is inductive |
| `UplinkProofs` | `SplitsNeedBacklog`: `[]SplitNeedsBacklog` | from `Backlog`, inductive with `UplinkInv` |
| `UplinkProofs` | `ThreadsMakeOneStream`: `Spec => Stream!Spec` | refinement, from `UplinkInv` |
| `KeepAliveProofs` | `TimeInvariant`: `[]TimeInv` | inductive |
| `KeepAliveProofs` | `KeepAliveTypeCorrect`, `SessionIsKept`, `PingsAreApart`, `StopIsBounded` | from `TimeInv` |
| `ProgramsProofs` | `ArgInvariant`, `ArgumentsInBounds` | `ArgInv` is inductive |
| `ProgramsProofs` | `ProgramsAreClients`: `ProgramSpec => Spec` | step by step |
| `ProgramsProofs` | `ProgramTypeCorrect` | from the two above and `TypeCorrect` |
| `ProgramsProofs` | `CallInvariant`, `ProgramsNeverTerminate`, `RefusedProgramsHang` | `CallInv` is inductive with the types |
| `ProgramsProofs` | `SessionInvariant`, `AcceptedProgramHasSession` | `SessionInv` is inductive with `CallInv` |

**AckInv.** `PublishConfirmed` speaks of the moment a call returns, and is not
inductive: to know that the acknowledgement with our id is ours, one must know of
every acknowledgement anywhere, in the socket, in the reader's hands or in a queue,
that its id is that of the request it answers, and of every request on its way that
its number is one already given out. Two numbers with the same id are equal or a multiple
of `IdMod` apart (`SameIdApart`), and the request of a call that waits is the last of its
kind, so an acknowledgement with its id is its own or at least `IdMod` older, which is
`Confirms`.

**LifeInv.** `ReaderUsesOpenSocket` needs that between the two joins of a `stop`
there is no reader; `RestartNotBlocked` needs that only a reader inside `read()`
holds the mutex.

**PipeInv.** The messages not yet handed out are numbered upwards from the front of
their queue, through the reader's hands, to the end of the socket, and lie between
`got` and `nMsg`. Handing out the head of the queue then is a step of `Delivery`;
everything else changes neither `got` nor `nMsg`, or only counts a new message.

**StreamInv.** What a read returns is a part of the stream, so one must know where in
it each packet lies: the bytes between `Start(j)` and `ends[j]` are those of the j-th
packet, the ends grow, and `last` is what `analyze_packet` makes of the bytes
`[from + 1..to]`. A read that begins at `Start(j)` and reaches `ends[j]` then has the
packet at its front, whatever follows it; the rest is arithmetic on the header.

**TimeInv.** `silent` is at most the polls before the thread, the sleeps that have been
counted, each of them late by at most `Lag`, and the part of the current one that is
over. At the fifth sleep the count starts again, so `silent` never exceeds
`Polls + 5 * Lag`, for which `SessionKept` asks that an interval have room, and five
sleeps, which are at most half an interval by arithmetic on `seconds \div 10`. Without
that room the session may be lost: at 4 seconds, with sleeps 3 units late, 31 units may
pass, and one and a half intervals are 30. `sincePing` is bounded from both sides in the
same way, without the polls, which gives `PingsApart`.

**ArgInv, CallInv, SessionInv.** The iterator stays in the vector because the last
argument, which `Refused` has looked at, takes no value. `CallInv` says of each place of
`main` which threads exist, that nobody sets `stop_thread`, and which call returned last:
hence no thread is assigned twice, and the join in the destructor of a refused program
has nothing to end it. `SessionInv` says that while the connection is up without a
session no accepting CONNACK is in the socket, in the reader's hands or in the queue:
true of a program that starts its client once, false in general (finding 3).

**UplinkInv.** `RequestsIntact` compares what the broker has made out with what was
sent, and says nothing of the bytes in between, so it is not inductive. `UplinkInv`
adds: what a thread has left to hand over is the end of its packet (`Ends`); every call
has begun its packet or is about to (`Counted`); and, unless a packet was split
(`Streams`), there are numbers `e[0] = 0, e[1], ...`, where the packets begun end, such
that the bytes the kernel has taken, in the broker's hands or in the buffer, are those
of the packets at these places, all but what the one thread inside its packet still has
(`Whole`), and that the broker has taken off exactly the first `Len(frames)` of them
(`Made`). A write then either begins a packet behind whole ones (`BeginLaid`) or goes on
with the last (`GoOnLaid`), and what `Parse` finds in front is the next packet and
nothing shorter, because a packet's own digits say how long it is (`FrontParsed`). `e`
exists and is not computed: the proof extends it by hand at each packet. With `e`
computed from `order`, the same invariant was model-checked on the instance of the run
`uplink` before it was proved.

**Backlog.** A thread that is inside its packet, with some of it handed over and some
not, has filled the kernel's room with its last write; what the broker reads leaves the
number of bytes carried as it is, and the write that splits the packet adds at least one.
That rests on one `send` for each packet.

**Induction over data.** The library's induction theorems have an operator for a
parameter, which the provers here cannot instantiate. `SetInduction` in
`ClientPacketsProofs` says the same of a *set* of numbers and follows from the library's
well-foundedness of `<` on the naturals, which is first-order. A recursive function of
the model is `CHOOSE`n as a solution of its equation; the proofs exhibit one solution
(`Behind` for `Concat`, the function `K` for `Payload`), which makes the equation hold of
the chosen one too, and then show by `SetInduction` that it takes the values of the first.
So `UnboxingRoundTrip` holds for any number of topics.

**Only model-checked.** The liveness properties, since liveness under fairness is out
of the prover's reach; all the violations; and `PartMessage`. Every other invariant and
action property of a passing run is a theorem.

## 5. Not modelled

* The second close in `~SocketTCP`, after which the model of the object ends.
* `info()` and `debug` output, help texts, build files, logo: no property is about them.
* Callers that the repository does not have: a `subscribe` with fewer QoS values than
  topics (reads past its vector), several threads that call one `PablittoMQTT`.
* What `exit` and the SIGINT handler do to a stream or a mutex that is in use, and
  what the kernel does with unread data when the process ends: outside the code.
* The address lookup in `connectionTCP` beyond whether it connects.
* Redelivery of the QoS 1 messages that the client never acknowledges: to the client a
  second copy is a new PUBLISH, which `Broker` and `Framing` may send at any time.
* The id 255, which is also `NOTHING_RESPONSE`, claimed by no property: nothing in the
  repository looks at the ids.

## 6. How the project grew, and what is left

In this order: `SocketTCP`, `Broker`, `PablittoMQTT`, `Delivery`, their runs and proofs;
`FixedHeader`, `Packets`, `Framing`; then `KeepAlive`, `Arguments`, `Programs` and their
proofs, the proofs of `Framing`, `ClientPackets` and `Uplink`; then `PacketStream` and
the proofs of the client's packets and of `Uplink`.

Left, for whoever takes it up:

1. A proof of `PartMessage`: what a read has kept of a message, with garbage for its end,
   is the bytes of another message, of the same topic and length, so it needs the lemmas of
   `WholePacketsAnalyzed` for messages outside `Sendable`.
2. A proof that `SocketTCP`'s stream of whole packets abstracts the bytes of `Framing`
   and `Uplink` while no read begins in the middle of a packet. It is true only then,
   so the refinement needs the condition in its statement.
