---------------------------- MODULE FixedHeader ----------------------------
(***************************************************************************)
(* The fixed header of an MQTT packet (include/fixed_header.hh), byte by   *)
(* byte.  A byte is a number in 0..255 and a std::vector<byte_t> a         *)
(* sequence of bytes; msg[i] of the code is msg[i + 1] here.               *)
(***************************************************************************)
EXTENDS Integers, Sequences

Byte == 0..255
Weight == <<1, 128, 16384, 2097152>>
MaxLength == 268435455   \* the longest remaining length four digits can hold

-----------------------------------------------------------------------------
(* The remaining length: base 128, least significant digit first, the top  *)
(* bit of a digit telling that another one follows.                        *)

\* The number of digits of a remaining length of at most MaxLength.
Digits(n) ==
  IF n < 128 THEN 1 ELSE IF n < 16384 THEN 2 ELSE IF n < 2097152 THEN 3 ELSE 4

\* Mutant of encode_remaining_len: byte |= 0x80 is forgotten.
encode_neverContinued(n) ==
  [i \in 1..Digits(n) |-> (n \div Weight[i]) % 128]

encode_remaining_len(n) ==
  [i \in 1..Digits(n) |->
     ((n \div Weight[i]) % 128) + (IF i < Digits(n) THEN 128 ELSE 0)]

\* The digits decode_remaining_len reads: up to one that no other follows, but
\* no more than four.
DigitsRead(msg) ==
  IF msg[2] < 128 THEN 1
  ELSE IF msg[3] < 128 THEN 2
  ELSE IF msg[4] < 128 THEN 3 ELSE 4

decode_remaining_len(msg) ==
  LET digit(i) == IF i <= DigitsRead(msg) THEN (msg[i + 1] % 128) * Weight[i] ELSE 0
  IN  digit(1) + digit(2) + digit(3) + digit(4)

-----------------------------------------------------------------------------
(* The header.                                                             *)

boxing(h) ==
  <<h.type * 16 + h.dup * 8 + h.qos * 2 + h.retain>>
  \o encode_remaining_len(h.remaining_length)

\* What unboxing reads from msg: its qos is (msg[0>>1])&0x03, the low bits of the
\* first byte.
header(msg) ==
  [type |-> msg[1] \div 16, dup |-> (msg[1] \div 8) % 2, qos |-> msg[1] % 4,
   retain |-> msg[1] % 2, remaining_length |-> decode_remaining_len(msg)]

\* Mutant of erased: the second digit is forgotten.
erased_oneDigit(n) == 2

\* The bytes unboxing erases in front of the rest.
erased(n) ==
  IF n < 127 THEN 2 ELSE IF n >= 128 /\ n <= 16383 THEN 3 ELSE 0

\* What unboxing leaves in msg.
rest(msg) ==
  SubSeq(msg, erased(decode_remaining_len(msg)) + 1, Len(msg))

=============================================================================
