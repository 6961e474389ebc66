----------------------------- MODULE Arguments -----------------------------
(***************************************************************************)
(* The command lines of pablitto_pub and pablitto_sub                      *)
(* (analyze_arguments_pub, analyze_arguments_sub): one loop over the       *)
(* arguments, and in each round one `if` per option.  An option with a     *)
(* value moves the iterator in the middle of a round by ++element, and the *)
(* ifs that follow see the value.  A step is one `if`.                     *)
(***************************************************************************)
EXTENDS Integers, Sequences

CONSTANTS
  Words,         \* the arguments
  CommandLines,  \* the argument vectors a program is started with
  Numerals,      \* the arguments that match [0-9]*
  Atoi,          \* what atoi may return for each: a choice where it overflows
  Levels         \* what split_string makes of each argument

Level == {"plain", "wildcard"}  \* a level of a topic: whether + or # is in it

ASSUME ArgumentsAssumption ==
  /\ CommandLines \subseteq Seq(Words)
  /\ Atoi \in [Numerals -> SUBSET Int]
  /\ {"0", "1"} \subseteq Numerals /\ Atoi["0"] = {0} /\ Atoi["1"] = {1}
  /\ Levels \in [Words -> Seq(Level)]

VARIABLES
  prog,     \* the program
  args,     \* its arguments, until they have been analysed
  element,  \* the iterator
  test,     \* the `if` of this round that comes next
  opt       \* the options that main passes to the client and the model tells apart

argVars == <<prog, args, element, test, opt>>

KeepAlive == {n \in Nat : n < 65536}
Options == [topic : Seq(Level), qos : {0, 1}, keep_alive : KeepAlive]

Defaults == [topic |-> <<>>, qos |-> 0, keep_alive |-> 60]

\* The order of the ifs.
Tests ==
  [pub |-> <<"--help", "-p", "-h", "-t", "-m", "-q", "-id", "-r", "-d", "-k">>,
   sub |-> <<"--help", "-p", "-h", "-t", "-q", "-id", "-d", "-k">>]

WithValue == [pub |-> {"-p", "-h", "-t", "-m", "-q", "-id", "-k"},
              sub |-> {"-p", "-h", "-t", "-q", "-id", "-k"}]

ArgTypeOK ==
  /\ prog \in {"pub", "sub"}
  /\ args \in Seq(Words)
  /\ element \in 1..(Len(args) + 1)
  /\ test \in 1..(Len(Tests[prog]) + 1)
  /\ opt \in Options

ArgInit ==
  /\ prog \in {"pub", "sub"}
  /\ args \in CommandLines
  /\ element = 1
  /\ test = 1
  /\ opt = Defaults

Looping == element <= Len(args)
Testing == Looping /\ test <= Len(Tests[prog])
Hits(o) == Testing /\ o = Tests[prog][test] /\ args[element] = o

\* What is read through the iterator: past the end, anything.
Value == IF element < Len(args) THEN {args[element + 1]} ELSE Words

\* Mutant of Refused: the last argument is not looked at.
Refused_empty == args = <<>>

\* The two throws before the loop.
Refused == args # <<>> => args[Len(args)] \in WithValue[prog]

\* The ifs that do not match, and the flags -r and -d.
Passes ==
  /\ Testing
  /\ \/ args[element] # Tests[prog][test]
     \/ Tests[prog][test] \in {"-r", "-d"}
  /\ test' = test + 1
  /\ UNCHANGED <<prog, args, element, opt>>

\* An option whose value v is taken.
Takes(o, v) ==
  /\ Hits(o)
  /\ v \in Value
  /\ element' = element + 1
  /\ test' = test + 1
  /\ UNCHANGED <<prog, args>>

TakesText ==
  /\ \E o \in {"-h", "-m", "-id"}, v \in Value : Takes(o, v)
  /\ UNCHANGED opt

TakesPort ==
  /\ \E v \in Value \cap Numerals : Takes("-p", v)
  /\ UNCHANGED opt

TakesTopic ==
  \E v \in Value :
    /\ Takes("-t", v)
    /\ opt' = [opt EXCEPT !.topic = Levels[v]]

\* Mutant of TakesQos: 2 is let through.
TakesQos2 ==
  \E v \in Value \cap {"0", "1", "2"} :
    /\ Takes("-q", v)
    /\ \E q \in Atoi[v] : opt' = [opt EXCEPT !.qos = q]

TakesQos ==
  \E v \in Value \cap {"0", "1"} :
    /\ Takes("-q", v)
    /\ \E q \in Atoi[v] : opt' = [opt EXCEPT !.qos = q]

TakesKeepAlive ==
  \E v \in Value \cap Numerals :
    /\ Takes("-k", v)
    /\ \E k \in Atoi[v] :
         /\ k \in KeepAlive
         /\ opt' = [opt EXCEPT !.keep_alive = k]

\* The throws inside the loop.
Throws ==
  \/ Hits("--help")
  \/ \E v \in Value :
       \/ Hits("-p") /\ v \notin Numerals
       \/ Hits("-q") /\ v \notin {"0", "1"}
       \/ Hits("-k") /\ (v \in Numerals => \E k \in Atoi[v] : k \notin KeepAlive)

NextElement ==
  /\ Looping
  /\ ~Testing
  /\ element' = element + 1
  /\ test' = 1
  /\ UNCHANGED <<prog, args, opt>>

ArgStep ==
  \/ Passes
  \/ TakesText
  \/ TakesPort
  \/ TakesTopic
  \/ TakesQos
  \/ TakesKeepAlive
  \/ NextElement

-----------------------------------------------------------------------------

\* ++element never leaves the vector: the iterator reaches the end only in the
\* loop's own element++, whose next test is against end().  Only the look at the
\* last argument before the loop ensures it.
ArgsInBounds == test > 1 => element <= Len(args)

=============================================================================
