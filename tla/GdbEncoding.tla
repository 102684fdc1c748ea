---------------------------- MODULE GdbEncoding ----------------------------
(***************************************************************************)
(* Numbers, registers, thread ids, memory bytes and paged responses in GDB *)
(* packets: GdbMessageParser and GdbMessageWriter                          *)
(* (gdb/gdb_communication.py) and the handlers of m, M, p, P and G in      *)
(* gdb/gdb_server.py.  A packet is a sequence of character codes; a parser *)
(* operation returns what it has read and the position it has come to.     *)
(***************************************************************************)
EXTENDS Integers, Sequences, SequencesExt

NoNumber == -2                 \* None

Digit0 == 48
UpperA == 65
LowerA == 97
Equals == 61
Point == 46
LetterP == 112

IsHexDigit(c) == c \in 48..57 \/ c \in 65..70 \/ c \in 97..102

\* Mutant of HexValue: lower-case letters are read as upper-case ones.
HexValueUpper(c) == IF c >= UpperA THEN c - 55 ELSE c - Digit0

HexValue(c) == IF c >= LowerA THEN c - 87 ELSE IF c >= UpperA THEN c - 55 ELSE c - Digit0

HexDigit(d) == IF d < 10 THEN Digit0 + d ELSE 55 + d

\* append_hex
Hex(number, min_digits) ==
  LET from[at \in Nat \X Int] ==
        (IF at[1] >= 16 \/ at[2] > 1 THEN from[<<at[1] \div 16, at[2] - 1>>] ELSE <<>>)
          \o <<HexDigit(at[1] % 16)>>
  IN from[<<number, min_digits>>]

\* GDB sends two digits for each byte of M.
BytesHex(bytes) ==
  LET upto[n \in 0..Len(bytes)] == IF n = 0 THEN <<>> ELSE upto[n - 1] \o Hex(bytes[n], 2)
  IN upto[Len(bytes)]

\* append_register_hex
RegisterHex(value) ==
  Hex(value % 256, 2) \o Hex((value \div 256) % 256, 2)
    \o Hex((value \div 65536) % 256, 2) \o Hex((value \div 16777216) % 256, 2)

\* GDB itself writes its digits in lower case.
LowerCase(text) == [i \in DOMAIN text |-> IF text[i] >= UpperA THEN text[i] + 32 ELSE text[i]]

Read(value, position) == [value |-> value, at |-> position]
At(data, position) == position <= Len(data)

\* parse, of one character: the position after it, or the same position.
Skip(data, position, c) ==
  IF At(data, position) /\ data[position] = c THEN position + 1 ELSE position

\* parse_hex
ParseHex(data, position) ==
  LET from[at \in Nat \X Int] ==
        LET p == at[1]
            number == at[2]
        IN IF At(data, p) /\ IsHexDigit(data[p])
           THEN from[<<p + 1, (IF number = NoNumber THEN 0 ELSE number * 16) + HexValue(data[p])>>]
           ELSE Read(number, p)
  IN from[<<position, NoNumber>>]

\* read_hex: exactly so many digits, and at least one character after them.
ReadHex(data, position, length) ==
  LET digit(i) == data[position + i - 1]
      upto[n \in 0..length] == IF n = 0 THEN 0 ELSE upto[n - 1] * 16 + HexValue(digit(n))
  IN IF position - 1 + length >= Len(data) \/ \E i \in 1..length : ~IsHexDigit(digit(i))
     THEN Read(NoNumber, position)
     ELSE Read(upto[length], position + length)

\* read_register_hex: four bytes, the lowest first.
ReadRegisterHex(data, position) ==
  LET byte(i) == ReadHex(data, position + 2 * i, 2).value IN
  IF \E i \in 0..3 : byte(i) = NoNumber THEN Read(NoNumber, position)
  ELSE Read(byte(0) + 256 * byte(1) + 65536 * byte(2) + 16777216 * byte(3), position + 8)

\* x or -1: nothing, and zero, stand for all.
OrAll(number) == IF number \in {NoNumber, 0} THEN -1 ELSE number

\* parse_thread_id, as <<process, thread>>.
ParseThreadId(data, position) ==
  LET p == Skip(data, position, LetterP)
      process == ParseHex(data, p)
      point == Skip(data, process.at, Point)
  IN IF p = position THEN <<-1, OrAll(process.value)>>
     ELSE <<OrAll(process.value),
            IF point = process.at THEN -1 ELSE OrAll(ParseHex(data, point).value)>>

\* append_thread_id
ThreadIdHex(process, thread) == <<LetterP>> \o Hex(process, 0) \o <<Point>> \o Hex(thread, 0)

\* M: the bytes of data, two digits each.
MemoryBytes(data) ==
  [i \in 1..(Len(data) \div 2) |-> HexValue(data[2 * i - 1]) * 16 + HexValue(data[2 * i])]

\* write_paged_message: "l" ends the message, after "m" there is more.
Page(message, offset, length) ==
  IF offset >= Len(message) THEN [last |-> TRUE, text |-> <<>>]
  ELSE IF offset + length >= Len(message)
  THEN [last |-> TRUE, text |-> SubSeq(message, offset + 1, Len(message))]
  ELSE [last |-> FALSE, text |-> SubSeq(message, offset + 1, offset + length)]

\* A client that asks on from where the last page ended.
Collected(message, length) ==
  LET from[offset \in Nat] ==
        LET page == Page(message, offset, length) IN
        page.text \o (IF page.last THEN <<>> ELSE from[offset + length])
  IN from[0]

\* P n=r (run by GdbServer.process_message): the register that is written, and the answer.
HandleP(data, count) ==
  LET register == ParseHex(data, 1)
      value == ReadHex(data, Skip(data, register.at, Equals), 8)
  IN IF register.value = NoNumber \/ value.value = NoNumber \/ register.value > count
     THEN [reply |-> "E01"]
     ELSE [reply |-> "OK", register |-> register.value, value |-> value.value]
============================================================================
