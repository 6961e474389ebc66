------------------------------ MODULE Programs ------------------------------
(***************************************************************************)
(* The programs pablitto_pub and pablitto_sub: main and target, which make *)
(* the calls of one PablittoMQTT object, from the analysis of the command  *)
(* line to the end of the process.  A return of main and an exit(1) both   *)
(* end it, with whatever threads it has.                                   *)
(***************************************************************************)
EXTENDS PablittoMQTT, Arguments

ASSUME ProgramsAssumption ==
  /\ {"start", "connect", "publish", "subscribe", "disconnect", "get_message",
      "destroy"} \subseteq Program
  /\ \A c \in Calls : MaxCalls[c] > 0
  /\ NothingResponse # 0

VARIABLE
  main  \* what main does next

progVars == <<vars, argVars, main>>

MainTypeOK ==
  main \in {"refuse", "analyze", "validate", "start", "connect", "target", "disconnect",
            "exit", "loop", "destroy", "return", "ended", "interrupted"}

\* Every variable has its type.
ProgramTypeOK == TypeOK /\ ArgTypeOK /\ MainTypeOK

ProgramInit ==
  /\ Init
  /\ ArgInit
  /\ main = "refuse"

At(here, next) ==
  /\ main = here
  /\ main' = next

Ends(here) ==
  /\ At(here, "ended")
  /\ UNCHANGED <<vars, argVars>>

-----------------------------------------------------------------------------
(* Before the client exists.  A throw here is main's first return -1.      *)

MainRefuses ==
  /\ Refused
  /\ Ends("refuse")

MainAccepts ==
  /\ ~Refused
  /\ At("refuse", "analyze")
  /\ UNCHANGED <<vars, argVars>>

MainAnalyzes ==
  /\ At("analyze", "analyze")
  /\ ArgStep
  /\ UNCHANGED vars

MainThrows ==
  /\ Throws
  /\ Ends("analyze")

\* The end of the loop.  From here on nothing but a publisher's topic and QoS is
\* told apart: the keep alive interval is KeepAlive's.
MainConstructs ==
  /\ ~Looping
  /\ At("analyze", IF prog = "pub" THEN "validate" ELSE "start")
  /\ args' = <<>>
  /\ element' = 1
  /\ opt' = IF prog = "pub" THEN [opt EXCEPT !.keep_alive = 60] ELSE Defaults
  /\ UNCHANGED <<vars, prog, test>>

-----------------------------------------------------------------------------
(* The calls of the client.  A throw goes to the destructor.               *)

\* is_valid_topic, over the levels that split_string finds.
is_valid_topic(topic) == \A i \in 1..Len(topic) : topic[i] # "wildcard"

MainValidates ==
  /\ At("validate", IF is_valid_topic(opt.topic) THEN "start" ELSE "destroy")
  /\ UNCHANGED <<vars, argVars>>

MainStarts ==
  /\ \E ok \in BOOLEAN :
       /\ Start(ok)
       /\ At("start", IF ok THEN "connect" ELSE "destroy")
  /\ UNCHANGED argVars

MainConnects ==
  /\ Connect
  /\ At("connect", "target")
  /\ UNCHANGED argVars

\* CONNECTION_ACCEPTED.
Accepted == ret.val = 0

TargetPublishes ==
  /\ prog = "pub"
  /\ Accepted
  /\ Publish(opt.qos)
  /\ At("target", "disconnect")
  /\ UNCHANGED argVars

TargetDisconnects ==
  /\ Disconnect
  /\ At("disconnect", "exit")
  /\ UNCHANGED argVars

TargetExits == Ends("exit")

\* From here on SIGINT is handled.
TargetSubscribes ==
  /\ prog = "sub"
  /\ Accepted
  /\ \E tv \in TopicVectors : Subscribe(tv)
  /\ At("target", "loop")
  /\ UNCHANGED argVars

\* Mutant of TargetLoops: the loop ends when there is no message.
TargetLoopsOnce ==
  /\ app = "idle"
  /\ IF queue["PUBLISH"] # <<>>
     THEN GetMessage /\ At("loop", "loop")
     ELSE UNCHANGED vars /\ At("loop", "exit")
  /\ UNCHANGED argVars

\* while(true): a round without a message changes nothing.
TargetLoops ==
  /\ GetMessage
  /\ At("loop", "loop")
  /\ UNCHANGED argVars

\* signal_callback_handler, wherever the thread is.
Interrupted ==
  /\ proc = "running"
  /\ At("loop", "interrupted")
  /\ UNCHANGED <<vars, argVars>>

\* Mutant of TargetRefused: target tries again.
TargetReconnects ==
  /\ app = "idle"
  /\ ~Accepted
  /\ At("target", "start")
  /\ UNCHANGED <<vars, argVars>>

\* target returns -1, and so does main.
TargetRefused ==
  /\ app = "idle"
  /\ ~Accepted
  /\ At("target", "destroy")
  /\ UNCHANGED <<vars, argVars>>

MainDestroys ==
  /\ Destroy
  /\ At("destroy", "return")
  /\ UNCHANGED argVars

MainReturns ==
  /\ app = "gone"
  /\ Ends("return")

-----------------------------------------------------------------------------

MainNext ==
  \/ MainRefuses
  \/ MainAccepts
  \/ MainAnalyzes
  \/ MainThrows
  \/ MainConstructs
  \/ MainValidates
  \/ MainStarts
  \/ MainConnects
  \/ TargetPublishes
  \/ TargetDisconnects
  \/ TargetExits
  \/ TargetSubscribes
  \/ TargetLoops
  \/ TargetRefused
  \/ MainDestroys
  \/ MainReturns

\* The process goes on: the client's threads and the broker take a step.
Meanwhile(A) ==
  /\ main \notin {"ended", "interrupted"}
  /\ A
  /\ UNCHANGED <<argVars, main>>

ProgramNext ==
  \/ MainNext
  \/ Interrupted
  \/ Meanwhile(AppWorks)
  \/ Meanwhile(ReaderNext)
  \/ Meanwhile(HeartbeatNext)
  \/ Meanwhile(BrokerActs)

ProgramSpec == ProgramInit /\ [][ProgramNext]_progVars

\* As for the client alone, and main goes on; SIGINT need not come.  Strongly: a
\* send() that waits for room is not passed over for ever by the PINGREQs.
FairProgram ==
  /\ ProgramSpec
  /\ SF_progVars(MainNext)
  /\ WF_progVars(Meanwhile(AppWorks))
  /\ WF_progVars(Meanwhile(ReaderNext))
  /\ WF_progVars(Meanwhile(HeartbeatNext))
  /\ WF_progVars(Meanwhile(BrokerServes /\ UNCHANGED <<appVars, queue, threadVars>>))

-----------------------------------------------------------------------------
(* Properties.                                                             *)

\* Neither program ever assigns to a std::thread that is still joinable, which
\* would call std::terminate: each starts and connects its client once.
NeverTerminated == proc # "terminated"

\* A program that the broker refuses, or does not answer, never ends by itself:
\* the destructor that main's return runs joins a reader nobody has stopped.
RefusedHangs == main = "ended" /\ ret.call = "connect" => Accepted

\* A publisher that is accepted ends, unless SIGPIPE ends it.
PublisherEnds ==
  prog = "pub" /\ ret.call = "connect" /\ Accepted
  ~> main = "ended" \/ proc # "running"

\* Message m is in the reader's hands or in the queue.
Read(m) ==
  LET s == queue["PUBLISH"] \o Hand
  IN  \E i \in 1..Len(s) : s[i].type = "PUBLISH" /\ s[i].n = m

\* The subscriber prints every message its reader has got, unless SIGINT or
\* SIGPIPE ends it.
SubscriberDrains ==
  \A m \in 1..MaxMsgs :
    main = "loop" /\ Read(m)
    ~> got >= m \/ main = "interrupted" \/ proc # "running"

-----------------------------------------------------------------------------
(* Inductive invariants, from which the proofs derive the properties.      *)

\* While the loop runs the last argument takes no value.
ArgInv ==
  /\ ArgTypeOK
  /\ ArgsInBounds
  /\ main = "analyze" => args # <<>> /\ args[Len(args)] \notin WithValue[prog]

BeforeStart == {"refuse", "analyze", "validate", "start"}

\* Where main is tells which threads there are, which call is in progress and
\* which returned last.  Nobody sets stop_thread, so no thread returns.
CallInv ==
  /\ NeverTerminated
  /\ ~stop_thread
  /\ reader # "done"
  /\ main \in BeforeStart =>
       reader = "none" /\ queue["CONNACK"] = <<>> /\ ret.call = "none"
  /\ main \in BeforeStart \cup {"connect"} =>
       app = "idle" /\ keep_alive = "none" /\ cur.call = "none"
  /\ main \in {"connect", "target", "loop", "disconnect", "exit"} => reader # "none"
  /\ main \notin {"return", "ended", "interrupted"} => app \in {"idle", "call"}
  /\ cur.call = "connect" => main = "target" /\ app = "call" /\ keep_alive = "none"
  /\ main = "target" => (IF app = "call" THEN cur.call ELSE ret.call) = "connect"
  /\ main \in {"loop", "disconnect", "exit", "ended"} /\ ret.call = "connect" => Accepted
  /\ main \in {"destroy", "return"} /\ ret.call = "connect" =>
       reader # "none" /\ app \in {"idle", "joinReader"}

Accepts(p) == p.type = "CONNACK" /\ p.id = 0

\* While the connection is up, a CONNACK that accepts is this connection's.
SessionInv ==
  conn = "open" /\ ~session =>
    /\ \A i \in 1..Len(toClient) : ~Accepts(toClient[i])
    /\ reader = "analyze" => ~Accepts(rmsg)
    /\ \A i \in 1..Len(queue["CONNACK"]) : queue["CONNACK"][i].id # 0

ProgramInv == ArgInv /\ CallInv /\ SessionInv

=============================================================================
