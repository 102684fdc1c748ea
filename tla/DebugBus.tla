------------------------------ MODULE DebugBus ------------------------------
(***************************************************************************)
(* The signals of a debug bus (debug_bus_signal_store.py).  The bus shows  *)
(* one group of signals at a time, 128 bits in four words.  A signal is a  *)
(* mask in one word; a combined signal has a part in each of several words *)
(* and is delivered whole only by a sample of its group.  A value is the   *)
(* set of its bits, each with the bit of the bus that it comes from.       *)
(***************************************************************************)
EXTENDS Integers, FiniteSets

\* A description: group (daisy_sel, sig_sel), name without the part, part, word
\* (rd_sel), mask (a set of the bits of the word), across_groups.

Lowest(mask) == CHOOSE b \in mask : \A x \in mask : b <= x
OnBus(word, mask) == {32 * word + b : b \in mask}

\* (data & mask) >> shift, where the shift is the lowest bit of the mask.
Masked(bits) == {<<b - Lowest(bits), b>> : b \in bits}

\* read_signal: the word is selected and read, then masked.
ReadSignal(d) == Masked(OnBus(d.word, d.mask))

\* Mutant of InGroup: the mark of a signal across groups is not looked at.
InGroupAll(signals, group) == {d \in signals : d.group = group}

\* create_initialization: the parts of a signal in a group share its mask;
\* signals across groups are in none.
InGroup(signals, group) == {d \in signals : ~d.across_groups /\ d.group = group}
CreateInitialization(group_map, signals) ==
  [g \in group_map |->
     LET members == InGroup(signals, g) IN
     [name \in {d.name : d \in members} |->
        UNION {OnBus(d.word, d.mask) : d \in {x \in members : x.name = name}}]]

\* SignalGroupSample: the value of a signal in a sample of its group.
Sampled(signal_groups, group, name) == Masked(signal_groups[group][name])

\* The value that the parts of a signal make up one after another.
Joined(parts) ==
  UNION {LET below == UNION {OnBus(x.word, x.mask) : x \in {y \in parts : y.part < d.part}} IN
         {<<v[1] + Cardinality(below), v[2]>> : v \in ReadSignal(d)} : d \in parts}
=============================================================================
