----------------------------- MODULE ElfLoading -----------------------------
(***************************************************************************)
(* ElfLoader.run_elf (elf_loader.py) and the start address of a core       *)
(* (hardware/baby_risc_info.py): the sections are written where the loader *)
(* maps them, the core is told to start at .init, by its start address     *)
(* register or a jump at its default start address, and leaves reset.      *)
(*                                                                         *)
(* A core is [l1, data, code, data_noc, default, wired]: its memories by   *)
(* private address, whether the data memory has a NOC address, the default *)
(* start address and whether there is no other.  An ELF file is a function *)
(* from section names to [address, size].  A place of the memory is        *)
(* reached over the NOC or is private to the core.                         *)
(***************************************************************************)
EXTENDS Integers, Sequences, FiniteSets, SequencesExt, SafeAccess

\* SECTIONS_TO_LOAD without .gcov_info and .thread_local, which are loaded as
\* .text is.
SectionsToLoad == <<".init", ".text", ".ldm_data">>

\* The bits of offset & 0x1FFFFF.
Bits21(offset) ==
  LET half[i \in 0..20] == IF i = 0 THEN offset ELSE half[i - 1] \div 2
  IN {i \in 0..20 : half[i] % 2 = 1}

\* get_jump_to_offset_instruction: the immediate bits of a JAL.
Jump(offset) ==
  LET o == Bits21(offset) IN
  {31 : i \in {20} \cap o} \cup {i : i \in (12..19) \cap o}
    \cup {20 : i \in {11} \cap o} \cup {i + 20 : i \in (1..10) \cap o}

\* Where the core goes: imm[20|10:1|11|19:12] in bits 31..12, of which the
\* highest counts as negative.
Target(jump, from) ==
  LET imm(b) == CASE b = 31 -> 20 [] b = 20 -> 11 [] b \in 21..30 -> b - 20 [] OTHER -> b
      bits == {imm(b) : b \in jump}
      upto[n \in 0..20] == IF n = 0 THEN IF 20 \in bits THEN -1 ELSE 0
                           ELSE 2 * upto[n - 1] + IF 20 - n \in bits THEN 1 ELSE 0
  IN from + upto[20]

\* loader.data and loader.code: Stay where there is no such section.
Stay == -1
Moved(block, to, address) == IF to = Stay THEN address ELSE address - block.start + to

\* remap_address: private memories move to the load address of the loader's
\* copy, where there is one (.loader_init for data, .loader_code for code).
Remapped(core, loader, address) ==
  IF Within(address, core.data) THEN Moved(core.data, loader.data, address)
  ELSE IF Within(address, core.code) THEN Moved(core.code, loader.code, address)
  ELSE address

\* write_block and read_block: the debug interface, L1, or the address as it
\* is over the NOC.
Route(core, address) ==
  IF (Within(address, core.data) /\ ~core.data_noc) \/ Within(address, core.code) THEN "debug"
  ELSE IF Within(address, core.l1) THEN "l1" ELSE "noc"

\* RestrictedMemoryAccessError: the code memory is always refused.
Permitted(core, address, size) ==
  CASE Route(core, address) = "debug" -> ~Restricted({core.l1, core.data}, address, size)
    [] Route(core, address) = "l1" -> address + size <= End(core.l1)
    [] Route(core, address) = "noc" -> TRUE

Reached(core, address, i) ==
  <<IF Route(core, address) = "debug" THEN "private" ELSE "noc", address + i>>

\* The place that the core itself finds at an address.
Seen(core, address) ==
  <<IF Within(address, core.data) \/ Within(address, core.code) THEN "private" ELSE "noc",
    address>>

\* The places where the core looks for a section.
Places(core, loader, elf, name) ==
  {Seen(core, Remapped(core, loader, elf[name].address) + i) : i \in 0..(elf[name].size - 1)}

\* The places of the sections are apart, the jump of a core that starts at no
\* other address than its default is written over none of them, and the
\* private memories are reached and are entered at the start of a section only.
Sound(core, loader, elf) ==
  LET private(address) == Within(address, core.data) \/ Within(address, core.code) IN
  /\ \A n, m \in DOMAIN elf :
       n # m => Places(core, loader, elf, n) \cap Places(core, loader, elf, m) = {}
  /\ \A n \in DOMAIN elf :
       LET address == Remapped(core, loader, elf[n].address) IN
       /\ Within(address, core.data) => ~core.data_noc
       /\ \A i \in 0..(elf[n].size - 1) : private(address + i) => private(address)
       /\ core.wired => \/ <<"noc", core.default>> \notin Places(core, loader, elf, n)
                        \/ n = ".init" /\ address = core.default

\* The memories of a core do not meet and begin at whole words, as the copies
\* of the loader do.
WellPlaced(core, loader) ==
  /\ \A b \in {core.l1, core.data, core.code} : b.start \in Int /\ b.size \in Nat
  /\ \A b \in {core.data, core.code} : End(b) <= core.l1.start \/ End(core.l1) <= b.start
  /\ End(core.data) <= core.code.start \/ End(core.code) <= core.data.start
  /\ core.default \in Int /\ loader.data \in Int /\ loader.code \in Int
  /\ core.default % 4 = 0 /\ core.data.start % 4 = 0 /\ core.code.start % 4 = 0
  /\ loader.data = Stay \/ loader.data % 4 = 0
  /\ loader.code = Stay \/ loader.code % 4 = 0

\* One section: the write, and the verification, which logs a difference and
\* goes on.  A fault is [name, what]: that access raises, or its data is lost.
LoadSection(core, loader, elf, fault, load, name) ==
  LET address == Remapped(core, loader, elf[name].address)
      size == elf[name].size
      faulty(what) == fault.name = name /\ fault.what = what
      written == {Reached(core, address, i) : i \in 0..(size - 1)}
  IN IF load.raised \/ name \notin DOMAIN elf THEN load
     ELSE IF elf[name].address % 4 # 0 \/ ~Permitted(core, address, size) \/ faulty("raises")
     THEN [load EXCEPT !.raised = TRUE]
     ELSE [memory |-> [p \in DOMAIN load.memory \cup (IF faulty("lost") THEN {} ELSE written) |->
                         IF p \in written /\ ~faulty("lost") THEN <<name, p[2] - address>>
                         ELSE load.memory[p]],
           init |-> IF name = ".init" THEN address ELSE load.init,
           raised |-> faulty("verify")]

LoadSections(core, loader, elf, fault) ==
  LET upto[n \in 0..Len(SectionsToLoad)] ==
        IF n = 0 THEN [memory |-> <<>>, init |-> -1, raised |-> FALSE]
        ELSE LoadSection(core, loader, elf, fault, upto[n - 1], SectionsToLoad[n])
  IN upto[Len(SectionsToLoad)]

\* set_code_start_address: start is the register and its enable bit.
SetStart(core, memory, start, address) ==
  IF ~core.wired THEN [memory |-> memory, start |-> [register |-> address, enabled |-> TRUE]]
  ELSE IF address = core.default THEN [memory |-> memory, start |-> start]
  ELSE [memory |-> [p \in DOMAIN memory \cup {<<"noc", core.default>>} |->
                      IF p = <<"noc", core.default>>
                      THEN <<"jump", Jump(address - core.default)>> ELSE memory[p]],
        start |-> start]

\* The offsets that get_jump_to_offset_instruction does not refuse.
Jumpable(offset) == -1048576 <= offset /\ offset < 1048576
Startable(core, address) == core.wired => Jumpable(address - core.default)

\* Mutant of RunElf: a file that could not be loaded is started.
RunElfAnyway(core, loader, elf, fault, start) ==
  LET load == LoadSections(core, loader, elf, fault)
      set == SetStart(core, load.memory, start, load.init)
  IN IF load.init = -1
     THEN [memory |-> load.memory, start |-> start, in_reset |-> TRUE, raised |-> TRUE,
           init |-> load.init]
     ELSE [memory |-> set.memory, start |-> set.start, in_reset |-> FALSE, raised |-> FALSE,
           init |-> load.init]

\* run_elf: the core is put in reset, and leaves it when all is done.
RunElf(core, loader, elf, fault, start) ==
  LET load == LoadSections(core, loader, elf, fault)
      set == SetStart(core, load.memory, start, load.init)
  IN IF load.raised \/ load.init = -1
        \/ ~Startable(core, load.init)
     THEN [memory |-> load.memory, start |-> start, in_reset |-> TRUE, raised |-> TRUE,
           init |-> load.init]
     ELSE [memory |-> set.memory, start |-> set.start, in_reset |-> FALSE, raised |-> FALSE,
           init |-> load.init]

\* Where the core runs from when it leaves reset.
StartsAt(core, result) ==
  LET word == <<"noc", core.default>> IN
  IF ~core.wired THEN (IF result.start.enabled THEN result.start.register ELSE core.default)
  ELSE IF word \in DOMAIN result.memory /\ result.memory[word][1] = "jump"
  THEN Target(result.memory[word][2], core.default) ELSE core.default
============================================================================
