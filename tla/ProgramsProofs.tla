--------------------------- MODULE ProgramsProofs ---------------------------
(***************************************************************************)
(* The programs, for every command line: they are clients as PablittoMQTT  *)
(* specifies them, so that all that is proved of a client holds of theirs, *)
(* and what they promise beyond that.                                      *)
(***************************************************************************)
EXTENDS Programs, PablittoMQTTProofs

-----------------------------------------------------------------------------
(* The command line.                                                       *)

\* An option whose if takes a value is among those refused as last argument.
LEMMA TestTakesValue ==
  ASSUME NEW p \in {"pub", "sub"}, NEW k \in 1..Len(Tests[p]),
         Tests[p][k] \in {"-p", "-h", "-t", "-m", "-q", "-id", "-k"}
  PROVE  Tests[p][k] \in WithValue[p]
<1>1. CASE p = "pub"
  BY <1>1 DEF WithValue
<1>2. CASE p = "sub"
  <2>1. Tests[p] = <<"--help", "-p", "-h", "-t", "-q", "-id", "-d", "-k">>
    BY <1>2 DEF Tests
  <2>2. k \in 1..8
    BY <2>1
  <2>3. \/ k = 1 \/ k = 2 \/ k = 3 \/ k = 4 \/ k = 5 \/ k = 6 \/ k = 7 \/ k = 8
    BY SMT, <2>2
  <2>4. Tests[p][k] # "-m"
    BY SMT, <2>1, <2>3
  <2>5. WithValue[p] = {"-p", "-h", "-t", "-q", "-id", "-k"}
    BY <1>2 DEF WithValue
  <2> QED
    BY <2>4, <2>5
<1> QED
  BY <1>1, <1>2

\* The iterator is inside the vector after a value has been taken.
LEMMA TakesInBounds ==
  ASSUME ArgInv, main = "analyze",
         NEW o \in {"-p", "-h", "-t", "-m", "-q", "-id", "-k"},
         NEW v, Takes(o, v)
  PROVE  /\ element' \in 1..Len(args) /\ test' \in 1..(Len(Tests[prog]) + 1)
         /\ v \in Words
         /\ UNCHANGED <<prog, args>>
<1>1. /\ prog \in {"pub", "sub"} /\ args \in Seq(Words)
      /\ element \in 1..(Len(args) + 1) /\ test \in 1..(Len(Tests[prog]) + 1)
      /\ args # <<>> /\ args[Len(args)] \notin WithValue[prog]
  BY DEF ArgInv, ArgTypeOK
<1>2. /\ element <= Len(args) /\ test <= Len(Tests[prog])
      /\ o = Tests[prog][test] /\ args[element] = o
      /\ v \in Value /\ element' = element + 1 /\ test' = test + 1
      /\ UNCHANGED <<prog, args>>
  BY DEF Takes, Hits, Testing, Looping
<1>3. Len(args) \in Nat /\ Len(Tests[prog]) \in Nat
  <2>1. Len(Tests[prog]) \in Nat
    BY <1>1 DEF Tests
  <2> QED
    BY <1>1, <2>1
<1>4. test \in 1..Len(Tests[prog])
  BY SMT, <1>1, <1>2, <1>3
<1>5. o \in WithValue[prog]
  BY <1>1, <1>2, <1>4, TestTakesValue
<1>6. element # Len(args)
  BY <1>1, <1>2, <1>5
<1>7. element \in Nat /\ element < Len(args) /\ element + 1 \in 1..Len(args)
  BY SMT, <1>1, <1>2, <1>3, <1>6
<1>8. v = args[element + 1]
  BY <1>2, <1>7 DEF Value
<1>9. v \in Words
  BY <1>1, <1>7, <1>8
<1>10. test' \in 1..(Len(Tests[prog]) + 1)
  BY SMT, <1>2, <1>3, <1>4
<1> QED
  BY <1>2, <1>7, <1>9, <1>10

\* A value taken leaves ArgInv to the options it sets.
LEMMA TakesArg ==
  ASSUME ArgInv, main = "analyze", main' = "analyze",
         NEW o \in {"-p", "-h", "-t", "-m", "-q", "-id", "-k"},
         NEW v, Takes(o, v), opt' \in Options
  PROVE  ArgInv'
<1>1. /\ element' \in 1..Len(args) /\ test' \in 1..(Len(Tests[prog]) + 1)
      /\ UNCHANGED <<prog, args>>
  BY TakesInBounds
<1>2. args \in Seq(Words) /\ Len(args) \in Nat
  BY DEF ArgInv, ArgTypeOK
<1>3. element' \in 1..(Len(args) + 1) /\ element' <= Len(args)
  BY SMT, <1>1, <1>2
<1> QED
  BY <1>1, <1>3 DEF ArgInv, ArgTypeOK, ArgsInBounds

\* A program starts before its analysis of the arguments.
LEMMA ArgInvInit == ProgramInit => ArgInv
<1> SUFFICES ASSUME ProgramInit PROVE ArgInv
  OBVIOUS
<1>1. prog \in {"pub", "sub"} /\ element = 1 /\ test = 1 /\ main = "refuse"
  BY DEF ProgramInit, ArgInit
<1>2. args \in Seq(Words)
  BY ArgumentsAssumption DEF ProgramInit, ArgInit
<1>3. Len(args) \in Nat /\ Len(Tests[prog]) \in Nat
  <2>1. Len(Tests[prog]) \in Nat
    BY <1>1 DEF Tests
  <2> QED
    BY <1>2, <2>1
<1>4. element \in 1..(Len(args) + 1) /\ test \in 1..(Len(Tests[prog]) + 1)
  BY SMT, <1>1, <1>3
<1>5. opt \in Options
  <2>1. <<>> \in Seq(Level)
    OBVIOUS
  <2>2. 60 \in KeepAlive
    BY SMT DEF KeepAlive
  <2> QED
    BY <2>1, <2>2 DEF ProgramInit, ArgInit, Defaults, Options
<1>6. ~(test > 1)
  BY SMT, <1>1
<1> QED
  BY <1>1, <1>2, <1>4, <1>5, <1>6 DEF ArgInv, ArgTypeOK, ArgsInBounds

\* Each `if` and each element++ keeps ArgInv.
LEMMA ArgStepInv ==
  ASSUME ArgInv, main = "analyze", main' = "analyze", ArgStep
  PROVE  ArgInv'
<1>1. /\ prog \in {"pub", "sub"} /\ args \in Seq(Words)
      /\ element \in 1..(Len(args) + 1) /\ test \in 1..(Len(Tests[prog]) + 1)
      /\ opt \in Options /\ (test > 1 => element <= Len(args))
  BY DEF ArgInv, ArgTypeOK, ArgsInBounds
<1>2. Len(args) \in Nat /\ Len(Tests[prog]) \in Nat
  <2>1. Len(Tests[prog]) \in Nat
    BY <1>1 DEF Tests
  <2> QED
    BY <1>1, <2>1
<1>3. CASE Passes
  <2>1. element <= Len(args) /\ test <= Len(Tests[prog]) /\ test' = test + 1
        /\ UNCHANGED <<prog, args, element, opt>>
    BY <1>3 DEF Passes, Testing, Looping
  <2>2. test' \in 1..(Len(Tests[prog]) + 1)
    BY SMT, <1>1, <1>2, <2>1
  <2> QED
    BY <1>1, <2>1, <2>2 DEF ArgInv, ArgTypeOK, ArgsInBounds
<1>4. CASE TakesText
  <2>1. PICK o \in {"-h", "-m", "-id"}, v \in Value : Takes(o, v)
    BY <1>4 DEF TakesText
  <2>2. opt' = opt
    BY <1>4 DEF TakesText
  <2> QED
    BY <1>1, <2>1, <2>2, TakesArg
<1>5. CASE TakesPort
  <2>1. PICK v \in Value \cap Numerals : Takes("-p", v)
    BY <1>5 DEF TakesPort
  <2>2. opt' = opt
    BY <1>5 DEF TakesPort
  <2> QED
    BY <1>1, <2>1, <2>2, TakesArg
<1>6. CASE TakesTopic
  <2>1. PICK v \in Value : Takes("-t", v) /\ opt' = [opt EXCEPT !.topic = Levels[v]]
    BY <1>6 DEF TakesTopic
  <2>2. v \in Words
    BY <2>1, TakesInBounds
  <2>3. Levels[v] \in Seq(Level)
    BY <2>2, ArgumentsAssumption
  <2>4. opt' \in Options
    BY <1>1, <2>1, <2>3 DEF Options
  <2> QED
    BY <2>1, <2>4, TakesArg
<1>7. CASE TakesQos
  <2>1. PICK v \in Value \cap {"0", "1"} :
          /\ Takes("-q", v)
          /\ \E q \in Atoi[v] : opt' = [opt EXCEPT !.qos = q]
    BY <1>7 DEF TakesQos
  <2>2. v \in Words
    BY <2>1, TakesInBounds
  <2>3. Atoi[v] \subseteq {0, 1}
    BY <2>1, <2>2, ArgumentsAssumption
  <2>4. opt' \in Options
    BY <1>1, <2>1, <2>3 DEF Options
  <2> QED
    BY <2>1, <2>4, TakesArg
<1>8. CASE TakesKeepAlive
  <2>1. PICK v \in Value \cap Numerals :
          /\ Takes("-k", v)
          /\ \E k \in Atoi[v] : k \in KeepAlive /\ opt' = [opt EXCEPT !.keep_alive = k]
    BY <1>8 DEF TakesKeepAlive
  <2>2. opt' \in Options
    BY <1>1, <2>1 DEF Options
  <2> QED
    BY <2>1, <2>2, TakesArg
<1>9. CASE NextElement
  <2>1. element <= Len(args) /\ element' = element + 1 /\ test' = 1
        /\ UNCHANGED <<prog, args, opt>>
    BY <1>9 DEF NextElement, Looping
  <2>2. element' \in 1..(Len(args) + 1) /\ test' \in 1..(Len(Tests[prog]) + 1)
        /\ ~(test' > 1)
    BY SMT, <1>1, <1>2, <2>1
  <2> QED
    BY <1>1, <2>1, <2>2 DEF ArgInv, ArgTypeOK, ArgsInBounds
<1> QED
  BY <1>3, <1>4, <1>5, <1>6, <1>7, <1>8, <1>9 DEF ArgStep

\* So does every step of a program.
LEMMA ArgInvNext ==
  ASSUME ArgInv, [ProgramNext]_progVars
  PROVE  ArgInv'
<1>1. ASSUME UNCHANGED argVars, main' = "analyze" => main = "analyze"
      PROVE  ArgInv'
  BY <1>1 DEF ArgInv, ArgTypeOK, ArgsInBounds, argVars
<1>2. CASE MainAccepts
  <2>1. UNCHANGED argVars /\ ~Refused
    BY <1>2 DEF MainAccepts
  <2>2. args # <<>> /\ args[Len(args)] \notin WithValue[prog]
    BY <2>1 DEF Refused
  <2> QED
    BY <2>1, <2>2 DEF ArgInv, ArgTypeOK, ArgsInBounds, argVars
<1>3. CASE MainAnalyzes
  BY <1>3, ArgStepInv DEF MainAnalyzes, At
<1>4. CASE MainConstructs
  <2>1. /\ main = "analyze" /\ main' # "analyze" /\ args' = <<>> /\ element' = 1
        /\ UNCHANGED <<prog, test>> /\ ~(element <= Len(args))
    BY <1>4 DEF MainConstructs, At, Looping
  <2>2. /\ args \in Seq(Words) /\ opt \in Options /\ prog \in {"pub", "sub"}
        /\ element \in 1..(Len(args) + 1) /\ test \in 1..(Len(Tests[prog]) + 1)
        /\ ~(test > 1)
    BY <2>1 DEF ArgInv, ArgTypeOK, ArgsInBounds
  <2>3. opt' \in Options
    <3>1. 60 \in KeepAlive
      BY SMT DEF KeepAlive
    <3>2. <<>> \in Seq(Level)
      OBVIOUS
    <3> QED
      BY <1>4, <2>2, <3>1, <3>2 DEF MainConstructs, Defaults, Options
  <2>4. args' \in Seq(Words) /\ element' \in 1..(Len(args') + 1)
    <3>1. args' \in Seq(Words) /\ Len(args') = 0
      BY <2>1
    <3> QED
      BY SMT, <2>1, <3>1
  <2> QED
    BY <2>1, <2>2, <2>3, <2>4 DEF ArgInv, ArgTypeOK, ArgsInBounds
<1>5. CASE MainRefuses \/ MainThrows \/ MainValidates \/ MainStarts \/ MainConnects
  BY <1>1, <1>5 DEF MainRefuses, MainThrows, MainValidates, MainStarts, MainConnects,
     Ends, At
<1>6. CASE \/ TargetPublishes \/ TargetDisconnects \/ TargetExits \/ TargetSubscribes
           \/ TargetLoops \/ TargetRefused \/ MainDestroys \/ MainReturns
           \/ Interrupted
  BY <1>1, <1>6 DEF TargetPublishes, TargetDisconnects, TargetExits, TargetSubscribes,
     TargetLoops, TargetRefused, MainDestroys, MainReturns, Interrupted, Ends, At
<1>7. CASE UNCHANGED <<argVars, main>>
  BY <1>1, <1>7
<1> QED
  BY <1>2, <1>3, <1>4, <1>5, <1>6, <1>7 DEF ProgramNext, MainNext, Meanwhile, progVars

\* ArgInv holds in every reachable state.
THEOREM ArgInvariant == ProgramSpec => []ArgInv
  BY ArgInvInit, ArgInvNext, PTL DEF ProgramSpec

\* For every command line, the analysis of the arguments stays inside the vector.
THEOREM ArgumentsInBounds == ProgramSpec => []ArgsInBounds
  BY ArgInvariant, PTL DEF ArgInv

-----------------------------------------------------------------------------
(* The programs are clients.                                               *)

\* A step of a program is a step of its client, or leaves the client alone.
LEMMA ProgramStep ==
  ASSUME ArgInv, [ProgramNext]_progVars
  PROVE  [Next]_vars
<1>1. opt.qos \in {0, 1}
  BY DEF ArgInv, ArgTypeOK, Options
<1>2. CASE \/ MainRefuses \/ MainAccepts \/ MainAnalyzes \/ MainThrows
           \/ MainConstructs \/ MainValidates \/ TargetExits \/ Interrupted
           \/ TargetRefused \/ MainReturns
  BY <1>2 DEF MainRefuses, MainAccepts, MainAnalyzes, MainThrows, MainConstructs,
     MainValidates, TargetExits, Interrupted, TargetRefused, MainReturns, Ends
<1>3. CASE \/ MainStarts \/ MainConnects \/ TargetPublishes \/ TargetDisconnects
           \/ TargetSubscribes \/ TargetLoops \/ MainDestroys
  <2>1. AppCalls
    BY <1>1, <1>3 DEF AppCalls, MainStarts, MainConnects, TargetPublishes,
       TargetDisconnects, TargetSubscribes, TargetLoops, MainDestroys
  <2> QED
    BY <2>1 DEF Next
<1>4. CASE \/ Meanwhile(AppWorks) \/ Meanwhile(ReaderNext)
           \/ Meanwhile(HeartbeatNext) \/ Meanwhile(BrokerActs)
  BY <1>4 DEF Meanwhile, Next
<1>5. CASE UNCHANGED progVars
  BY <1>5 DEF progVars
<1> QED
  BY <1>2, <1>3, <1>4, <1>5 DEF ProgramNext, MainNext

\* The programs use the client only as PablittoMQTT lets an application use it, so
\* that every theorem about Spec is one about them.
THEOREM ProgramsAreClients == ProgramSpec => Spec
<1>1. ProgramInit => Init
  BY DEF ProgramInit
<1>2. ArgInv /\ [ProgramNext]_progVars => [Next]_vars
  BY ProgramStep
<1> QED
  BY <1>1, <1>2, ArgInvariant, PTL DEF ProgramSpec, Spec

-----------------------------------------------------------------------------
(* One start, one connect, and nobody stops a thread.                      *)

\* The programs start with no call under way and nothing answered.
LEMMA CallInvInit == ProgramInit => CallInv
<1> SUFFICES ASSUME ProgramInit PROVE CallInv
  OBVIOUS
<1>1. /\ proc = "running" /\ stop_thread = FALSE /\ reader = "none" /\ app = "idle"
      /\ keep_alive = "none" /\ main = "refuse"
  BY DEF ProgramInit, Init, SocketInit
<1>2. cur.call = "none" /\ ret.call = "none"
  BY DEF ProgramInit, Init, NoCall
<1>3. queue["CONNACK"] = <<>>
  BY DEF ProgramInit, Init, Queues
<1> QED
  BY SMT, <1>1, <1>2, <1>3 DEF CallInv, NeverTerminated, BeforeStart

\* A step of main itself.
LEMMA CallInvMain ==
  ASSUME TypeOK, CallInv, MainNext \/ Interrupted
  PROVE  CallInv'
<1> USE DEF CallInv, NeverTerminated, BeforeStart, At, Ends
<1>1. CASE \/ MainRefuses \/ MainAccepts \/ MainAnalyzes \/ MainThrows
           \/ MainConstructs \/ MainValidates \/ Interrupted
  <2>1. UNCHANGED <<proc, stop_thread, reader, queue, ret, app, keep_alive, cur>>
    BY <1>1 DEF MainRefuses, MainAccepts, MainAnalyzes, MainThrows, MainConstructs,
       MainValidates, Interrupted, vars, socketVars, appVars, threadVars
  <2> QED
    BY SMT, <1>1, <2>1 DEF MainRefuses, MainAccepts, MainAnalyzes, MainThrows,
       MainConstructs, MainValidates, Interrupted, Accepted
<1>2. CASE MainStarts
  <2>1. PICK ok \in BOOLEAN : Start(ok) /\ At("start", IF ok THEN "connect" ELSE "destroy")
    BY <1>2 DEF MainStarts
  <2>2. UNCHANGED <<stop_thread, queue, app, keep_alive, cur>> /\ main = "start"
    BY <2>1 DEF Start
  <2>3. CASE ok
    <3>1. UNCHANGED <<ret, proc>> /\ reader' = "lock" /\ main' = "connect"
      BY <2>1, <2>2, <2>3 DEF Start
    <3> QED
      BY SMT, <2>2, <3>1
  <2>4. CASE ~ok
    <3>1. UNCHANGED <<proc, reader>> /\ ret'.call = "start" /\ main' = "destroy"
      BY <2>1, <2>4 DEF Start
    <3> QED
      BY SMT, <2>2, <3>1
  <2> QED
    BY <2>3, <2>4
<1>3. CASE MainConnects
  <2>1. /\ UNCHANGED <<stop_thread, reader, ret, keep_alive>>
        /\ app' = "call" /\ cur'.call = "connect"
        /\ main = "connect" /\ main' = "target"
    BY <1>3 DEF MainConnects, Connect, Issue, Wait, threadVars
  <2>2. proc' # "terminated"
    BY <1>3 DEF MainConnects, Connect, Issue, sendByteTCP, kernelSend
  <2> QED
    BY SMT, <2>1, <2>2
<1>4. CASE TargetPublishes
  <2>1. /\ UNCHANGED <<stop_thread, reader, ret, keep_alive>>
        /\ main = "target" /\ main' = "disconnect" /\ app = "idle" /\ Accepted
    BY <1>4 DEF TargetPublishes, Publish, Issue, Idle, Wait, threadVars
  <2>2. (app' = "call" /\ cur'.call = "publish") \/ UNCHANGED <<app, cur>>
    BY <1>4 DEF TargetPublishes, Publish, Wait
  <2>3. proc' # "terminated"
    BY <1>4 DEF TargetPublishes, Publish, Issue, sendByteTCP, kernelSend
  <2>4. Accepted'
    BY <2>1 DEF Accepted
  <2> QED
    BY SMT, <2>1, <2>2, <2>3, <2>4
<1>5. CASE TargetSubscribes
  <2>1. /\ UNCHANGED <<stop_thread, reader, ret, keep_alive>>
        /\ main = "target" /\ main' = "loop" /\ Accepted
        /\ app' = "call" /\ cur'.call = "subscribe"
    BY <1>5 DEF TargetSubscribes, Subscribe, Issue, Idle, Wait, threadVars
  <2>2. proc' # "terminated"
    BY <1>5 DEF TargetSubscribes, Subscribe, Issue, sendByteTCP, kernelSend
  <2>3. Accepted'
    BY <2>1 DEF Accepted
  <2> QED
    BY SMT, <2>1, <2>2, <2>3
<1>6. CASE TargetDisconnects
  <2>1. /\ UNCHANGED <<stop_thread, reader, ret, keep_alive, app, cur>>
        /\ main = "disconnect" /\ main' = "exit"
    BY <1>6 DEF TargetDisconnects, Disconnect, appVars, threadVars
  <2>2. proc' # "terminated"
    BY <1>6 DEF TargetDisconnects, Disconnect, sendByteTCP, kernelSend
  <2> QED
    BY SMT, <2>1, <2>2 DEF Accepted
<1>7. CASE TargetLoops
  <2>1. /\ UNCHANGED <<proc, stop_thread, reader, ret, keep_alive, app, cur>>
        /\ main = "loop" /\ main' = "loop"
    BY <1>7 DEF TargetLoops, GetMessage, socketVars, threadVars
  <2> QED
    BY SMT, <2>1 DEF Accepted
<1>8. CASE TargetExits \/ TargetRefused \/ MainReturns
  <2>1. UNCHANGED <<proc, stop_thread, reader, queue, ret, app, keep_alive, cur>>
    BY <1>8 DEF TargetExits, TargetRefused, MainReturns, vars, socketVars, appVars,
       threadVars
  <2> QED
    BY SMT, <1>8, <2>1 DEF TargetExits, TargetRefused, MainReturns, Accepted
<1>9. CASE MainDestroys
  <2>1. /\ UNCHANGED <<proc, stop_thread, reader, ret, keep_alive>>
        /\ main = "destroy" /\ main' = "return" /\ app' = "joinReader"
        /\ cur'.call = "destroy"
    BY <1>9 DEF MainDestroys, Destroy, Join, NoCall, socketVars
  <2> QED
    BY SMT, <2>1
<1> QED
  BY <1>1, <1>2, <1>3, <1>4, <1>5, <1>6, <1>7, <1>8, <1>9 DEF MainNext

\* A step of the application inside a call.
LEMMA CallInvWorks ==
  ASSUME TypeOK, CallInv, Meanwhile(AppWorks)
  PROVE  CallInv'
<1> USE DEF CallInv, NeverTerminated, BeforeStart
<1>1. main' = main /\ main \notin {"ended", "interrupted"} /\ AppWorks
  BY DEF Meanwhile
<1>2. ASSUME Polling, UNCHANGED <<stop_thread, reader>>, proc' # "terminated",
             UNCHANGED keep_alive \/ cur.call = "connect",
             UNCHANGED keep_alive \/ cur'.call # "connect",
             \/ UNCHANGED <<app, ret>> /\ cur'.call = cur.call
             \/ app' = "idle" /\ cur'.call = "none" /\ ret'.call = cur.call
      PROVE  CallInv'
  <2>1. app = "call" /\ main \notin BeforeStart \cup {"connect"}
    BY <1>2 DEF Polling
  <2>2. main \notin {"return", "destroy"} \/ ret.call # "connect" \/ app # "call"
    BY <2>1
  <2>3. CASE UNCHANGED <<app, ret>> /\ cur'.call = cur.call
    BY SMT, <1>1, <1>2, <2>1, <2>2, <2>3 DEF Accepted
  <2>4. CASE app' = "idle" /\ cur'.call = "none" /\ ret'.call = cur.call
    BY SMT, <1>1, <1>2, <2>1, <2>4
  <2> QED
    BY <1>2, <2>3, <2>4
<1>3. ASSUME Retry
      PROVE  \/ UNCHANGED <<app, ret>> /\ cur'.call = cur.call
             \/ app' = "idle" /\ cur'.call = "none" /\ ret'.call = cur.call
  <2>1. cur' = [cur EXCEPT !.left = @ - 1] => cur'.call = cur.call
    BY DEF TypeOK, AppTypeOK
  <2> QED
    BY <1>3, <2>1 DEF Retry, Return, NoCall
<1>4. CASE PollEmpty
  BY <1>2, <1>3, <1>4 DEF PollEmpty, socketVars, threadVars
<1>5. CASE PollThrows
  BY <1>2, <1>5 DEF PollThrows, Return, NoCall, socketVars, threadVars
<1>6. CASE PollPuback
  <2>1. Polling /\ UNCHANGED <<stop_thread, reader, proc, keep_alive>>
    BY <1>6 DEF PollPuback, Finds, socketVars, threadVars
  <2> QED
    BY <1>2, <1>3, <1>6, <2>1 DEF PollPuback, Return, NoCall
<1>7. CASE PollSuback
  BY <1>2, <1>7 DEF PollSuback, Finds, Return, NoCall, socketVars, threadVars
<1>8. CASE PollConnack
  <2>1. /\ Polling /\ cur.call = "connect" /\ UNCHANGED <<stop_thread, reader>>
        /\ app' = "idle" /\ cur'.call = "none" /\ ret'.call = cur.call
    BY <1>8 DEF PollConnack, Finds, Return, NoCall
  <2>2. keep_alive = "none"
    BY <2>1
  <2>3. proc' # "terminated"
    BY <1>8, <2>2 DEF PollConnack
  <2> QED
    BY <1>2, <2>1, <2>3
<1>9. CASE JoinReader
  <2>1. /\ app = "joinReader" /\ reader \in {"none", "done"} /\ reader' = "none"
        /\ app' = "joinKeepAlive" /\ UNCHANGED <<proc, stop_thread, ret, cur, keep_alive>>
    BY <1>9 DEF JoinReader, Joinable, socketVars
  <2>2. main = "return"
    BY SMT, <1>1, <2>1
  <2> QED
    BY SMT, <1>1, <2>1, <2>2
<1>10. CASE JoinKeepAlive
  <2>1. /\ app = "joinKeepAlive" /\ app' \in {"idle", "gone"} /\ cur'.call = "none"
        /\ UNCHANGED <<proc, stop_thread, ret, reader>>
    BY <1>10 DEF JoinKeepAlive, NoCall
  <2>2. main = "return" /\ ret.call # "connect"
    BY SMT, <1>1, <2>1
  <2> QED
    BY SMT, <1>1, <2>1, <2>2
<1> QED
  BY <1>1, <1>4, <1>5, <1>6, <1>7, <1>8, <1>9, <1>10 DEF AppWorks

\* A step of anybody else.
LEMMA CallInvOthers ==
  ASSUME TypeOK, CallInv,
         Meanwhile(ReaderNext) \/ Meanwhile(HeartbeatNext) \/ Meanwhile(BrokerActs)
  PROVE  CallInv'
<1> USE DEF CallInv, NeverTerminated, BeforeStart
<1>1. main' = main
  BY DEF Meanwhile
<1>2. CASE ReaderNext
  <2>1. UNCHANGED <<proc, app, cur, ret, stop_thread, keep_alive>>
    BY <1>2 DEF ReaderNext, ReaderEnter, ReaderReads, ReaderReadsNothing,
       ReaderAnalyzes, ReaderSleeps, socketVars, appVars
  <2>2. reader # "none" /\ reader' \notin {"none", "done"}
    BY <1>2 DEF ReaderNext, ReaderEnter, ReaderReads, ReaderReadsNothing,
       ReaderAnalyzes, ReaderSleeps
  <2> QED
    BY SMT, <1>1, <2>1, <2>2 DEF Accepted
<1>3. CASE HeartbeatNext
  <2>1. /\ UNCHANGED <<app, cur, ret, stop_thread, reader, queue>>
        /\ keep_alive # "none"
    BY <1>3 DEF HeartbeatNext, HeartbeatTicks, HeartbeatChecks, socketVars, appVars
  <2>2. proc' # "terminated"
    BY <1>3 DEF HeartbeatNext, HeartbeatTicks, HeartbeatChecks, Ping, sendByteTCP,
       kernelSend, socketVars
  <2> QED
    BY SMT, <1>1, <2>1, <2>2 DEF Accepted
<1>4. CASE BrokerActs
  <2>1. UNCHANGED <<proc, app, cur, ret, stop_thread, reader, queue, keep_alive>>
    BY <1>4 DEF BrokerActs, BrokerNext, BrokerServes, BrokerConnack, BrokerAck,
       BrokerSilent, BrokerHangsUp, BrokerCloses, BrokerPublishes, appVars, threadVars
  <2> QED
    BY SMT, <1>1, <2>1 DEF Accepted
<1> QED
  BY <1>2, <1>3, <1>4 DEF Meanwhile

\* Every step of main, reader, heartbeat and broker keeps what a call relies on.
LEMMA CallInvNext ==
  ASSUME TypeOK, CallInv, [ProgramNext]_progVars
  PROVE  CallInv'
<1>1. CASE UNCHANGED progVars
  BY <1>1 DEF CallInv, NeverTerminated, Accepted, progVars, vars, socketVars, appVars,
     threadVars
<1> QED
  BY <1>1, CallInvMain, CallInvWorks, CallInvOthers DEF ProgramNext

\* MainTypeOK is inductive by itself.
LEMMA MainTypeNext ==
  ASSUME MainTypeOK, [ProgramNext]_progVars
  PROVE  MainTypeOK'
  BY DEF MainTypeOK, ProgramNext, MainNext, Meanwhile, progVars, At, Ends, MainRefuses,
     MainAccepts, MainAnalyzes, MainThrows, MainConstructs, MainValidates, MainStarts,
     MainConnects, TargetPublishes, TargetDisconnects, TargetExits, TargetSubscribes,
     TargetLoops, TargetRefused, MainDestroys, MainReturns, Interrupted

\* Every variable of a program and of its client keeps its type: the QoS is 0 or 1
\* and the keep alive interval fits a uint16_t, whatever the command line.
THEOREM ProgramTypeCorrect == ProgramSpec => []ProgramTypeOK
<1>1. ProgramInit => MainTypeOK
  BY DEF ProgramInit, MainTypeOK
<1>2. ProgramSpec => []MainTypeOK
  BY <1>1, MainTypeNext, PTL DEF ProgramSpec
<1>3. TypeOK /\ ArgInv /\ MainTypeOK => ProgramTypeOK
  BY DEF ArgInv, ProgramTypeOK
<1> QED
  BY <1>2, <1>3, ArgInvariant, ProgramsAreClients, TypeCorrect, PTL

\* CallInv holds in every reachable state.
THEOREM CallInvariant == ProgramSpec => []CallInv
  BY CallInvInit, CallInvNext, ProgramsAreClients, TypeCorrect, PTL DEF ProgramSpec

\* No call of a program assigns to a joinable std::thread.
THEOREM ProgramsNeverTerminate == ProgramSpec => []NeverTerminated
  BY CallInvariant, PTL DEF CallInv

\* A program that is refused, or not answered, does not get past its destructor.
THEOREM RefusedProgramsHang == ProgramSpec => []RefusedHangs
<1>1. CallInv => RefusedHangs
  BY DEF CallInv, RefusedHangs
<1> QED
  BY <1>1, CallInvariant, PTL

-----------------------------------------------------------------------------
(* The answer to the only CONNECT.                                         *)

NoAccept(s) == \A i \in 1..Len(s) : ~Accepts(s[i])

\* Streams with no accepting CONNACK in them.
LEMMA NoAcceptDrop ==
  ASSUME NEW s \in Seq(Packet), NoAccept(s), NEW k \in 1..Len(s)
  PROVE  NoAccept(SubSeq(s, k + 1, Len(s))) /\ ~Accepts(Head(s))
<1>1. k + 1 \in Int /\ Len(s) \in Nat /\ 1 <= k /\ k <= Len(s)
  BY SMT
<1>2. s # <<>> /\ Head(s) = s[1] /\ 1 \in 1..Len(s)
  BY SMT, <1>1
<1>3. ASSUME NEW i \in 1..Len(SubSeq(s, k + 1, Len(s)))
      PROVE  ~Accepts(SubSeq(s, k + 1, Len(s))[i])
  <2>1. SubSeq(s, k + 1, Len(s))[i] = s[k + i] /\ k + i \in 1..Len(s)
    BY SMT, <1>1
  <2> QED
    BY <2>1 DEF NoAccept
<1> QED
  BY <1>2, <1>3 DEF NoAccept

NoZero(s) == \A i \in 1..Len(s) : s[i].id # 0

\* Taking the head of a stream without id 0 leaves none with id 0.
LEMMA NoZeroTail ==
  ASSUME NEW s \in Seq(Packet), NoZero(s), s # <<>>
  PROVE  NoZero(Tail(s)) /\ Head(s).id # 0
<1>1. Head(s) = s[1] /\ 1 \in 1..Len(s)
  BY SMT
<1>2. ASSUME NEW i \in 1..Len(Tail(s))
      PROVE  Tail(s)[i].id # 0
  <2>1. Tail(s)[i] = s[i + 1] /\ i + 1 \in 1..Len(s)
    BY SMT
  <2> QED
    BY <2>1 DEF NoZero
<1> QED
  BY <1>1, <1>2 DEF NoZero

\* Appending a packet whose id is not 0 leaves none with id 0.
LEMMA NoZeroAppend ==
  ASSUME NEW s \in Seq(Packet), NoZero(s), NEW p \in Packet, p.id # 0
  PROVE  NoZero(Append(s, p))
<1>1. ASSUME NEW i \in 1..Len(Append(s, p))
      PROVE  Append(s, p)[i].id # 0
  <2>1. (i \in 1..Len(s) /\ Append(s, p)[i] = s[i]) \/ Append(s, p)[i] = p
    BY SMT
  <2> QED
    BY <2>1 DEF NoZero
<1> QED
  BY <1>1 DEF NoZero

\* SessionInv in these terms.
LEMMA SessionParts ==
  SessionInv <=> (conn = "open" /\ ~session =>
                    /\ NoAccept(toClient)
                    /\ reader = "analyze" => ~Accepts(rmsg)
                    /\ NoZero(queue["CONNACK"]))
  BY DEF SessionInv, NoAccept, NoZero

\* No connection is open when a program starts, and nothing is received.
LEMMA SessionInit == ProgramInit => SessionInv
  BY DEF ProgramInit, Init, SocketInit, SessionInv

\* A step that leaves what SessionInv speaks of.
LEMMA SessionSame ==
  ASSUME SessionInv, conn' = "open" => conn = "open",
         UNCHANGED <<session, toClient, rmsg, queue>>,
         reader' = "analyze" => reader = "analyze"
  PROVE  SessionInv'
  BY DEF SessionInv

\* Sending opens no connection.
LEMMA SendOpensNothing ==
  ASSUME NEW p, sendByteTCP(p)
  PROVE  conn' = "open" => conn = "open"
  BY DEF sendByteTCP, kernelSend

\* start() opens the only connection, before anything has been received.
LEMMA SessionStarts ==
  ASSUME TypeOK, CallInv, MainStarts
  PROVE  SessionInv'
<1>1. reader = "none" /\ queue["CONNACK"] = <<>>
  BY DEF CallInv, BeforeStart, MainStarts, At
<1>2. toClient' = <<>> /\ queue' = queue /\ reader' # "analyze"
  BY <1>1 DEF MainStarts, Start, connectionTCP
<1> QED
  BY <1>1, <1>2 DEF SessionInv

\* The calls that main makes on the library keep the session invariant.
LEMMA SessionMain ==
  ASSUME TypeOK, CallInv, SessionInv, MainNext \/ Interrupted
  PROVE  SessionInv'
<1>1. CASE MainStarts
  BY <1>1, SessionStarts
<1>2. CASE UNCHANGED vars
  BY <1>2, SessionSame DEF vars, socketVars, brokerVars, threadVars
<1>3. CASE MainConnects \/ TargetPublishes \/ TargetSubscribes
  <2>1. \E c, p : Issue(c, p)
    BY <1>3 DEF MainConnects, Connect, TargetPublishes, Publish, TargetSubscribes, Subscribe
  <2> QED
    BY <2>1, SendOpensNothing, SessionSame DEF Issue, brokerVars, threadVars
<1>4. CASE TargetDisconnects
  BY <1>4, SendOpensNothing, SessionSame
  DEF TargetDisconnects, Disconnect, brokerVars, threadVars
<1>5. CASE TargetLoops
  <2>1. queue'["CONNACK"] = queue["CONNACK"]
    BY <1>5 DEF TargetLoops, GetMessage, TypeOK, ThreadTypeOK, Queues
  <2> QED
    BY <1>5, <2>1 DEF SessionInv, TargetLoops, GetMessage, socketVars, brokerVars, threadVars
<1>6. CASE MainDestroys
  BY <1>6, SessionSame DEF MainDestroys, Destroy, Join, socketVars, brokerVars
<1> QED
  BY <1>1, <1>2, <1>3, <1>4, <1>5, <1>6
  DEF MainNext, MainRefuses, MainAccepts, MainAnalyzes, MainThrows, MainConstructs,
      MainValidates, TargetExits, Interrupted, TargetRefused, MainReturns, Ends

\* So do the steps of main that stay in the program.
LEMMA SessionWorks ==
  ASSUME TypeOK, CallInv, SessionInv, AppWorks
  PROVE  SessionInv'
<1>1. CASE PollEmpty \/ PollThrows \/ JoinReader
  BY <1>1, SessionSame DEF PollEmpty, PollThrows, JoinReader, Joinable, socketVars,
     brokerVars, threadVars
<1>2. CASE JoinKeepAlive
  BY <1>2 DEF JoinKeepAlive, closeTCP, SessionInv
<1>3. ASSUME Finds, Dequeue, UNCHANGED <<conn, toClient, session, reader, rmsg>>
      PROVE  SessionInv'
  <2> DEFINE q == QueueTaken[cur.call]
  <2>1. q \in Queues /\ queue[q] # <<>>
    BY <1>3 DEF Finds, Polling, TypeOK, AppTypeOK, Calls, QueueTaken, Queues
  <2>2. queue["CONNACK"] \in Seq(Packet) /\ queue \in [Queues -> Seq(Packet)]
    BY DEF TypeOK, ThreadTypeOK, Queues
  <2>3. queue' = [queue EXCEPT ![q] = Tail(@)]
    BY <1>3 DEF Dequeue
  <2> HIDE DEF q
  <2>4. \/ queue'["CONNACK"] = queue["CONNACK"]
        \/ queue["CONNACK"] # <<>> /\ queue'["CONNACK"] = Tail(queue["CONNACK"])
    BY <2>1, <2>2, <2>3
  <2>5. NoZero(queue["CONNACK"]) => NoZero(queue'["CONNACK"])
    BY <2>2, <2>4, NoZeroTail
  <2> QED
    BY <1>3, <2>5 DEF SessionInv, NoZero
<1>4. CASE PollConnack
  BY <1>3, <1>4 DEF PollConnack, brokerVars
<1>5. CASE PollPuback \/ PollSuback
  BY <1>3, <1>5 DEF PollPuback, PollSuback, socketVars, brokerVars, threadVars
<1> QED
  BY <1>1, <1>2, <1>4, <1>5 DEF AppWorks

\* So does the reader, which moves what it reads to the answers or the messages.
LEMMA SessionReader ==
  ASSUME TypeOK, SessionInv, ReaderNext
  PROVE  SessionInv'
<1>1. toClient \in Seq(Packet) /\ rmsg \in Packet /\ queue \in [Queues -> Seq(Packet)]
  BY DEF TypeOK, SocketTypeOK, ThreadTypeOK
<1>2. CASE ReaderEnter \/ ReaderReadsNothing \/ ReaderSleeps
  BY <1>2, SessionSame DEF ReaderEnter, ReaderReadsNothing, readNothing, ReaderSleeps,
     socketVars, brokerVars
<1>3. CASE ReaderReads
  <2>1. PICK k \in 1..Len(toClient) :
          readData(k, Head(toClient)) /\ rmsg' = Head(toClient)
    BY <1>3 DEF ReaderReads
  <2>2. toClient' = SubSeq(toClient, k + 1, Len(toClient))
    BY <2>1 DEF readData
  <2>3. NoAccept(toClient) => NoAccept(toClient') /\ ~Accepts(rmsg')
    BY <1>1, <2>1, <2>2, NoAcceptDrop DEF NoAccept, Accepts
  <2>4. UNCHANGED <<conn, session, queue>>
    BY <1>3 DEF ReaderReads, brokerVars
  <2> QED
    BY <2>3, <2>4 DEF SessionInv, NoAccept, Accepts
<1>4. CASE ReaderAnalyzes
  <2>1. reader = "analyze" /\ reader' = "sleep" /\ UNCHANGED <<conn, session, toClient>>
    BY <1>4 DEF ReaderAnalyzes, socketVars, brokerVars
  <2>2. \/ queue'["CONNACK"] = queue["CONNACK"]
        \/ rmsg.type = "CONNACK" /\ queue'["CONNACK"] = Append(queue["CONNACK"], rmsg)
    BY <1>1, <1>4 DEF ReaderAnalyzes, Analyzed, Queues
  <2>3. queue["CONNACK"] \in Seq(Packet)
    BY <1>1 DEF Queues
  <2>4. NoZero(queue["CONNACK"]) /\ ~Accepts(rmsg) => NoZero(queue'["CONNACK"])
    BY <1>1, <2>2, <2>3, NoZeroAppend DEF Accepts
  <2> QED
    BY <2>1, <2>4 DEF SessionInv, NoZero
<1> QED
  BY <1>2, <1>3, <1>4 DEF ReaderNext

\* So does the broker, which answers with the id it was given.
LEMMA SessionBroker ==
  ASSUME TypeOK, SessionInv, BrokerActs
  PROVE  SessionInv'
<1>1. toClient \in Seq(Packet) /\ session \in BOOLEAN /\ toBroker \in Seq(Packet)
      /\ UNCHANGED <<reader, rmsg, queue>>
  BY DEF TypeOK, SocketTypeOK, BrokerTypeOK, BrokerActs, threadVars
<1>2. CASE BrokerConnack
  <2>1. PICK rc \in ReturnCodes :
          /\ Reply(MkPacket("CONNACK", 0, rc, Request.n))
          /\ IF rc = 0
             THEN session' = TRUE
             ELSE HangUp(Tail(toBroker))
    BY <1>2 DEF BrokerConnack
  <2> QED
    BY <2>1 DEF HangUp, SessionInv
<1>3. CASE BrokerSilent
  BY <1>1, <1>3, SessionSame DEF BrokerSilent
<1>4. CASE BrokerHangsUp \/ BrokerCloses
  BY <1>4 DEF BrokerHangsUp, BrokerCloses, HangUp, SessionInv
<1>5. CASE BrokerAck \/ BrokerPublishes
  <2>1. session /\ session' = session
    BY <1>5 DEF BrokerAck, BrokerPublishes
  <2> QED
    BY <2>1 DEF SessionInv
<1> QED
  BY <1>2, <1>3, <1>4, <1>5 DEF BrokerActs, BrokerNext, BrokerServes

\* Together: every step of the program keeps the session invariant.
LEMMA SessionNext ==
  ASSUME TypeOK, CallInv, SessionInv, [ProgramNext]_progVars
  PROVE  SessionInv'
<1>1. CASE HeartbeatNext
  <2>1. UNCHANGED <<session, toClient, rmsg, queue, reader>>
    BY <1>1 DEF HeartbeatNext, HeartbeatTicks, HeartbeatChecks, socketVars, brokerVars
  <2>2. conn' = "open" => conn = "open"
    BY <1>1, SendOpensNothing DEF HeartbeatNext, HeartbeatTicks, HeartbeatChecks, Ping,
       socketVars
  <2> QED
    BY <2>1, <2>2, SessionSame
<1>2. CASE UNCHANGED progVars
  BY <1>2, SessionSame DEF progVars, vars, socketVars, brokerVars, threadVars
<1> QED
  BY <1>1, <1>2, SessionMain, SessionWorks, SessionReader, SessionBroker
  DEF ProgramNext, Meanwhile

\* SessionInv holds in every reachable state.
THEOREM SessionInvariant == ProgramSpec => []SessionInv
<1>1. TypeOK /\ CallInv /\ SessionInv /\ [ProgramNext]_progVars => SessionInv'
  BY SessionNext
<1> QED
  BY <1>1, SessionInit, CallInvariant, ProgramsAreClients, TypeCorrect, PTL DEF ProgramSpec

\* connectMQTT returns 0 only with a CONNACK from its queue.
LEMMA AcceptedStep ==
  ASSUME TypeOK, CallInv, SessionInv, [Next]_vars,
         cur.call = "connect", cur'.call = "none", ret'.val = 0, conn = "open"
  PROVE  session
<1>1. app = "call" /\ cur'.call # cur.call
  BY DEF CallInv
<1>2. ~AppCalls
  BY <1>1 DEF AppCalls, Start, SetStopThread, Disconnect, GetMessage, Connect, Publish,
     Subscribe, Unsubscribe, Issue, Stop, Destroy, Idle
<1>3. ~ReaderNext /\ ~HeartbeatNext /\ ~BrokerActs /\ ~UNCHANGED vars
  BY <1>1 DEF ReaderNext, ReaderEnter, ReaderReads, ReaderReadsNothing, ReaderAnalyzes,
     ReaderSleeps, HeartbeatNext, HeartbeatTicks, HeartbeatChecks, BrokerActs, vars, appVars
<1>4. AppWorks
  BY <1>2, <1>3 DEF Next
<1>5. ~JoinReader /\ ~JoinKeepAlive /\ ~PollPuback /\ ~PollSuback
  BY <1>1 DEF JoinReader, JoinKeepAlive, PollPuback, PollSuback
<1>6. ~PollThrows
  BY DEF PollThrows, QueueTested, QueueTaken
<1>7. ~PollEmpty
  <2> SUFFICES ASSUME PollEmpty PROVE FALSE
    OBVIOUS
  <2>1. CASE cur.left = 1
    <3>1. ret'.val = NothingResponse
      BY <2>1 DEF PollEmpty, Retry, Return
    <3> QED
      BY <3>1, ProgramsAssumption
  <2>2. CASE cur.left # 1
    <3>1. cur' = [cur EXCEPT !.left = @ - 1]
      BY <2>2 DEF PollEmpty, Retry
    <3>2. cur'.call = cur.call
      BY <3>1 DEF TypeOK, AppTypeOK
    <3> QED
      BY <1>1, <3>2
  <2> QED
    BY <2>1, <2>2
<1>8. PollConnack
  BY <1>4, <1>5, <1>6, <1>7 DEF AppWorks
<1>9. queue["CONNACK"] # <<>> /\ ret'.val = Head(queue["CONNACK"]).id
  BY <1>8 DEF PollConnack, Finds, Taken, QueueTaken, Return
<1>10. queue["CONNACK"] \in Seq(Packet)
  BY DEF TypeOK, ThreadTypeOK, Queues
<1>11. ~NoZero(queue["CONNACK"])
  BY <1>9, <1>10, NoZeroTail
<1> QED
  BY <1>11, SessionParts

\* When connectMQTT returns 0 to a program, on a connection that is up, the broker
\* has accepted the CONNECT of that connection.
THEOREM AcceptedProgramHasSession == ProgramSpec => AcceptedMeansSession
<1>1. TypeOK /\ CallInv /\ SessionInv /\ [Next]_vars
      => [cur.call = "connect" /\ cur'.call = "none" /\ ret'.val = 0 /\ conn = "open"
          => session]_vars
  BY AcceptedStep
<1>2. ProgramSpec => [][Next]_vars
  BY ProgramsAreClients, PTL DEF Spec
<1> QED
  BY <1>1, <1>2, SessionInvariant, CallInvariant, ProgramsAreClients, TypeCorrect, PTL
  DEF AcceptedMeansSession

=============================================================================
