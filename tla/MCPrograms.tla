----------------------------- MODULE MCPrograms -----------------------------
(***************************************************************************)
(* Command lines of up to three arguments, made of every option of the two *)
(* programs and of values that are a topic, a wildcard, nothing at all, a  *)
(* numeral in range, above it, and above what an int holds; and longer     *)
(* ones in which a value is itself an option.                              *)
(***************************************************************************)
EXTENDS Programs

OneTopic == {<<"t">>}
OneEach == [c \in Calls |-> 1]

Values == {"+", "", "1", "2", "70000", "4294967297"}
AllWords == Values \cup {"--help", "-p", "-h", "-t", "-m", "-q", "-id", "-r", "-d", "-k"}

Lines ==
  {<<>>, <<"-h", "-t", "-q", "1">>, <<"-t", "-m", "-q", "1">>,
   <<"-t", "1", "-q", "1">>, <<"-t", "+", "-q", "1">>,
   <<"-t", "1", "-m", "-q", "-id", "-k", "1">>}
  \cup {<<a>> : a \in AllWords}
  \cup {<<a, b>> : a, b \in AllWords}
  \cup {<<a, b, c>> : a, b, c \in AllWords}

Numbers == {"", "0", "1", "2", "70000", "4294967297"}

AtoiValues == [n \in Numbers |->
  CASE n \in {"", "0"} -> {0}
    [] n = "1" -> {1}
    [] n = "2" -> {2}
    [] n = "70000" -> {70000}
    [] n = "4294967297" -> {1, 2147483647}]

TopicLevels == [a \in AllWords |->
  CASE a = "" -> <<>>
    [] a = "+" -> <<"wildcard">>
    [] OTHER -> <<"plain">>]

=============================================================================
