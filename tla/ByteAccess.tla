----------------------------- MODULE ByteAccess -----------------------------
(***************************************************************************)
(* Byte ranges over hardware that reads and writes 32-bit words: the loops *)
(* of RiscDebug (hardware/risc_debug.py), word by word, and those of       *)
(* UmdDevice (umd_device.py), which move the aligned middle in one piece.  *)
(*                                                                         *)
(* A memory is a function from addresses to bytes.  A write is a sequence  *)
(* of changes: bytes put into the words that begin at an address, from an  *)
(* offset, by reading the words first if the bytes do not fill them.       *)
(***************************************************************************)
EXTENDS Integers, Sequences, FiniteSets, SequencesExt

Word == 4
Aligned(address) == address - (address % Word)
AtMost(a, b) == IF a < b THEN a ELSE b

ReadBytes(memory, address, size) ==
  LET from[pos \in 0..size] ==
        LET addr == address + pos
            word == [i \in 0..(Word - 1) |-> memory[Aligned(addr) + i]]
            n    == AtMost(Word - (addr % Word), size - pos)
        IN IF pos = size THEN <<>>
           ELSE [i \in 1..n |-> word[(addr % Word) + i - 1]] \o from[pos + n]
  IN from[0]

Change(at, offset, bytes) == [at |-> at, offset |-> offset, bytes |-> bytes]

\* The bytes that share the word of an unaligned address.
PrefixSize(address, size) ==
  IF address % Word = 0 THEN 0 ELSE AtMost(Word - (address % Word), size)

\* Mutant of Edges: the suffix goes where the prefix would have left it.
EdgesUnmoved(address, data, middle) ==
  LET n == PrefixSize(address, Len(data))
      rest == (Len(data) - n) % Word
  IN (IF n = 0 THEN <<>>
      ELSE <<Change(Aligned(address), address % Word, SubSeq(data, 1, n))>>)
     \o middle
     \o (IF rest = 0 THEN <<>>
         ELSE <<Change(Aligned(address + Len(data) - rest - n), 0,
                       SubSeq(data, Len(data) - rest + 1, Len(data)))>>)

\* Unaligned prefix, aligned middle, unaligned suffix.
Edges(address, data, middle) ==
  LET n == PrefixSize(address, Len(data))
      rest == (Len(data) - n) % Word
  IN (IF n = 0 THEN <<>>
      ELSE <<Change(Aligned(address), address % Word, SubSeq(data, 1, n))>>)
     \o middle
     \o (IF rest = 0 THEN <<>>
         ELSE <<Change(address + Len(data) - rest, 0,
                       SubSeq(data, Len(data) - rest + 1, Len(data)))>>)

RiscChanges(address, data) ==
  LET n == PrefixSize(address, Len(data)) IN
  Edges(address, data,
        [k \in 1..((Len(data) - n) \div Word) |->
           Change(address + n + (k - 1) * Word, 0,
                  SubSeq(data, n + (k - 1) * Word + 1, n + k * Word))])

UmdChanges(address, data) ==
  LET n == PrefixSize(address, Len(data))
      words == (Len(data) - n) \div Word
  IN Edges(address, data,
           IF words = 0 THEN <<>>
           ELSE <<Change(address + n, 0, SubSeq(data, n + 1, n + words * Word))>>)

\* The words that a change covers.
Covered(c) == c.at..(Aligned(c.at + c.offset + Len(c.bytes) + Word - 1) - 1)

Put(memory, c) ==
  [a \in DOMAIN memory |->
     IF a \in Covered(c) /\ a - c.at - c.offset \in 0..(Len(c.bytes) - 1)
     THEN c.bytes[a - c.at - c.offset + 1] ELSE memory[a]]

WriteMemory(memory, changes) ==
  LET after[n \in 0..Len(changes)] == IF n = 0 THEN memory ELSE Put(after[n - 1], changes[n])
  IN after[Len(changes)]

\* UMD: after a failure that ETH reconfiguration cures the write starts over.
Retried(changes, done) == SubSeq(changes, 1, done) \o changes
============================================================================
