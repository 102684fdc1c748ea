--------------------------- MODULE RegisterAccess ---------------------------
(***************************************************************************)
(* RegisterStore.read_register and write_register (register_store.py): a   *)
(* register is the bits of mask in a word, moved down by shift, and the    *)
(* word is reached through BAR0, over the NOC, through the debug registers *)
(* that select a configuration register, or by a core's debug hardware.    *)
(* A word is the set of the bits that are one.                             *)
(***************************************************************************)
EXTENDS Integers, FiniteSets

Down(bits, shift) == {b - shift : b \in {c \in bits : c >= shift}}
Up(bits, shift) == {b + shift : b \in bits}

\* The state of the hardware: words by index, the register that is selected
\* for reading in CFGREG_RD_CNTL, and the paths used so far.
Select(hardware, index) == [hardware EXCEPT !.selected = index]
Word_(hardware, index) == hardware.words[index]

\* The paths of a register: "bar0" or "noc" when it has such an address, else
\* a configuration register is read through the debug registers; all others,
\* and every write, go through the debug hardware of a core.
ReadPath(r) == IF r.address # "none" THEN r.address
               ELSE IF r.is_config THEN "select" ELSE "risc"
\* read_register: the value, and the hardware after it.
ReadRegister(hardware, r) ==
  LET after == IF ReadPath(r) = "select" THEN Select(hardware, r.index) ELSE hardware
      index == IF ReadPath(r) = "select" THEN after.selected ELSE r.index
  IN [value |-> Down(Word_(after, index) \cap r.mask, r.shift), hardware |-> after]

\* The value that is refused: bits that the mask does not have.
Refused(r, value) == ~(Up(value, r.shift) \subseteq r.mask)

\* Mutant of Merge: the old bits are not cleared.
MergeOnto(old, r, value) == old \cup (Up(value, r.shift) \cap r.mask)

Merge(old, r, value) == (old \ r.mask) \cup (Up(value, r.shift) \cap r.mask)

\* write_register: a mask of the whole word needs no reading, and no shift.
WriteRegister(hardware, r, value, whole) ==
  [hardware EXCEPT !.words[r.index] = IF r.mask = whole THEN value ELSE Merge(@, r, value)]
============================================================================
