----------------------------- MODULE SafeAccess -----------------------------
(***************************************************************************)
(* What an access may touch: MemoryMap and IntervalMap (memory_map.py),    *)
(* the walk of Device._validate_noc_access_is_safe (device.py) over the    *)
(* blocks of the map, and the check of RiscDebugMemoryAccess               *)
(* (memory_access.py) against the L1 and private memory of a core.         *)
(*                                                                         *)
(* A block is [start, size, read, write, open]: its interval, the          *)
(* safe_to_read and safe_to_write it is declared with ("yes", "no" or      *)
(* "unset") and the value of its access_check, which the caller may not    *)
(* change during the walk.                                                 *)
(***************************************************************************)
EXTENDS Integers, Sequences, FiniteSets, SequencesExt

MapBlock == [start : Int, size : Nat \ {0}, read : {"yes", "no", "unset"},
             write : {"yes", "no", "unset"}, open : BOOLEAN]

End(block) == block.start + block.size
Within(address, block) == block.start <= address /\ address < End(block)

\* sorted(intervals, key = start), which keeps the order of equal starts.
SortByStart(blocks) ==
  LET Before(i, j) == \/ blocks[i].start < blocks[j].start
                      \/ blocks[i].start = blocks[j].start /\ i < j
      rank == [i \in DOMAIN blocks |-> 1 + Cardinality({j \in DOMAIN blocks : Before(j, i)})]
  IN [k \in DOMAIN blocks |-> blocks[CHOOSE i \in DOMAIN blocks : rank[i] = k]]

\* The assertion of IntervalMap.__init__, on the sorted intervals.
Overlapping(map) == \E i \in 1..(Len(map) - 1) : End(map[i]) > map[i + 1].start

\* bisect_right(starts, address) - 1, counted from 1.
FindIndex(map, address) == Cardinality({i \in DOMAIN map : map[i].start <= address})

\* Mutant of Find: the end of the cached interval belongs to it.
FindCachedEnd(map, last, address) ==
  LET i == FindIndex(map, address) IN
  IF last \in DOMAIN map /\ map[last].start <= address /\ address <= End(map[last]) THEN last
  ELSE IF i # 0 /\ address < End(map[i]) THEN i ELSE 0

\* find: the index of the block, 0 for None; last is the interval found last.
Find(map, last, address) ==
  LET i == FindIndex(map, address) IN
  IF last \in DOMAIN map /\ Within(address, map[last]) THEN last
  ELSE IF i # 0 /\ address < End(map[i]) THEN i ELSE 0

IsSafe(block, is_write) ==
  IF is_write THEN block.write = "yes" ELSE block.read # "no"

\* The walk does not raise; last0 is what an earlier lookup has cached.
Validated(map, last0, addr, num_bytes, is_write) ==
  LET from[at \in (0..num_bytes) \X (0..Len(map))] ==
        LET checked == at[1]
            i == Find(map, at[2], addr + checked)
        IN
        \/ checked = num_bytes
        \/ /\ i # 0 /\ map[i].open /\ IsSafe(map[i], is_write)
           /\ End(map[i]) > addr + checked
           /\ LET rest == num_bytes - checked
                  here == End(map[i]) - (addr + checked)
              IN from[<<checked + (IF rest < here THEN rest ELSE here), i>>]
  IN from[<<0, last0>>]

\* RiscDebugMemoryAccess._validate_access: L1, or the private data memory.
Restricted(blocks, address, size) ==
  \A b \in blocks : ~(Within(address, b) /\ Within(address + size - 1, b))

\* A map is refused if and only if two of its blocks share an address.
MapRefused(blocks) ==
  \E i, j \in DOMAIN blocks :
    i # j /\ blocks[i].start < End(blocks[j]) /\ blocks[j].start < End(blocks[i])

\* Every byte is in a block that is accessible and safe.
AllSafe(blocks, addr, num_bytes, is_write) ==
  \A a \in addr..(addr + num_bytes - 1) :
    \E b \in ToSet(blocks) : Within(a, b) /\ b.open /\ IsSafe(b, is_write)
============================================================================
