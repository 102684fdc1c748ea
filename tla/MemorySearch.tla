---------------------------- MODULE MemorySearch ----------------------------
(***************************************************************************)
(* The search command (cli_commands/search-memory.py): the ranges of       *)
(* consecutive blocks, the reads of a range in chunks that overlap, and    *)
(* the limit on the number of results.  The memory holds digits; a read    *)
(* that reaches the address bad raises a TTException.                      *)
(***************************************************************************)
EXTENDS Integers, Sequences, FiniteSets, SequencesExt, SafeAccess

Unlimited == 1000

\* _get_noc_search_ranges and _get_risc_search_ranges: intervals [from, to),
\* none if the start is in no block.  The end of the memory stands for None.
Ranges(map, start, end) ==
  LET from[current \in Nat] ==
        LET i == Find(map, 0, current) IN
        IF current >= end \/ i = 0 THEN <<>>
        ELSE <<[from |-> current, to |-> IF End(map[i]) < end THEN End(map[i]) ELSE end]>>
               \o from[End(map[i])]
  IN from[start]

MatchesAt(data, pattern, k) == SubSeq(data, k, k + Len(pattern) - 1) = pattern

\* _find_in_data: offsets, from 0, of the first occurrences.
FindInData(data, pattern, limit) ==
  LET from[at \in (1..(Len(data) + 1)) \X Nat] ==
        LET k == at[1]
            found == at[2]
        IN IF k + Len(pattern) - 1 > Len(data) \/ found = limit THEN <<>>
           ELSE IF MatchesAt(data, pattern, k) THEN <<k - 1>> \o from[<<k + 1, found + 1>>]
           ELSE from[<<k + 1, found>>]
  IN from[<<1, 0>>]

\* Mutant of KeptTail: one byte more is kept, and a match found twice.
TailTooLong(data, pattern) ==
  SubSeq(data, IF Len(data) > Len(pattern) THEN Len(data) - Len(pattern) + 1 ELSE 1, Len(data))

\* prev_tail: as many bytes as can begin a match that the next chunk ends.
KeptTail(data, pattern) ==
  SubSeq(data, IF Len(data) > Len(pattern) - 1 THEN Len(data) - Len(pattern) + 2 ELSE 1, Len(data))

\* _search_in_range
SearchInRange(memory, range, pattern, read_size, limit, bad) ==
  LET from[at \in (range.from..range.to) \X Seq(Nat) \X Nat] ==
        LET current == at[1]
            tail == at[2]
            found == at[3]
            size == IF read_size < range.to - current THEN read_size ELSE range.to - current
            data == tail \o [i \in 1..size |-> memory[current + i - 1]]
            offsets == FindInData(data, pattern, limit - found)
            new == [i \in DOMAIN offsets |-> current - Len(tail) + offsets[i]]
        IN IF current >= range.to \/ bad \in current..(current + size - 1) THEN <<>>
           ELSE IF found + Len(new) >= limit THEN new
           ELSE new \o from[<<current + size, KeptTail(data, pattern), found + Len(new)>>]
  IN from[<<range.from, <<>>, 0>>]

\* run: the ranges in turn, until there are enough results.
Search(memory, ranges, pattern, read_size, limit, bad) ==
  LET from[at \in (1..(Len(ranges) + 1)) \X Nat] ==
        LET r == at[1]
            found == at[2]
            new == SearchInRange(memory, ranges[r], pattern, read_size, limit - found, bad)
        IN IF r > Len(ranges) \/ found = limit THEN <<>>
           ELSE new \o from[<<r + 1, found + Len(new)>>]
  IN from[<<1, 0>>]

\* The end of what a range can be read to, in chunks, when bad fails.
Readable(range, read_size, bad) ==
  IF bad \in range.from..(range.to - 1)
  THEN bad - ((bad - range.from) % read_size) ELSE range.to

\* Where a match can be reported: within the readable part of one range.
Occurrences(memory, ranges, pattern, read_size, bad) ==
  {a \in DOMAIN memory :
     \E r \in ToSet(ranges) :
       /\ r.from <= a /\ a + Len(pattern) <= Readable(r, read_size, bad)
       /\ \A i \in DOMAIN pattern : memory[a + i - 1] = pattern[i]}

\* The lowest of them, in order, each once, as many as were asked for.
FirstOccurrences(occurrences, limit, result) ==
  /\ Len(result) = IF Cardinality(occurrences) < limit THEN Cardinality(occurrences) ELSE limit
  /\ ToSet(result) \subseteq occurrences
  /\ \A i, j \in DOMAIN result : i < j => result[i] < result[j]
  /\ Len(result) > 0 =>
       \A a \in occurrences : a <= result[Len(result)] => a \in ToSet(result)
============================================================================
