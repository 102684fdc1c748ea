----------------------------- MODULE HostLogic -----------------------------
(***************************************************************************)
(* The data path of the host, one job at a time: bytes over words, checks  *)
(* of accesses, the search command, the encoding of GDB packets, registers,*)
(* ELF files and debug bus signals.  A job is a call with the state of the *)
(* hardware that it finds; its answer is what the call returns and the     *)
(* state that it leaves.                                                   *)
(***************************************************************************)
EXTENDS ByteAccess, MemorySearch, GdbEncoding, RegisterAccess, ElfLoading,
        DebugBus

CONSTANTS
  AccessJobs,    \* memory, address, data to write, UMD or not, failure after
  CheckJobs,     \* blocks, address, size, is_write, interval found last, declared:
                 \* a map of a chip, or a register of a block
  SearchJobs,    \* memory, blocks, pattern, start, end, read_size, limit, bad
  CodeJobs,      \* text or number, by what
  RegisterJobs,  \* hardware, register, value, all bits of a word, other masks in it
  LoadJobs,      \* core, loader, elf, fault, start
  SignalJobs     \* group_map, signals

\* Memories hold bytes at addresses.
ASSUME AccessJobsAssumption ==
  \A x \in AccessJobs :
    /\ DOMAIN x.memory \subseteq Nat /\ x.memory \in [DOMAIN x.memory -> Int]
    /\ x.address \in Nat /\ x.data \in Seq(Int) /\ x.umd \in BOOLEAN

\* Blocks are not empty, the interval found last is none or one of the map, no
\* map of a chip is refused, and the registers that a block reads over the NOC
\* lie in blocks of its map that are safe to read.
ASSUME CheckJobsAssumption ==
  \A x \in CheckJobs :
    /\ x.blocks \in Seq(MapBlock) /\ x.last \in 0..Len(x.blocks)
    /\ x.address \in Int /\ x.size \in Nat
    /\ x.declared # "no" => ~MapRefused(x.blocks)
    /\ x.declared = "register" => AllSafe(x.blocks, x.address, x.size, x.is_write)

\* The addresses of a search are in memory, which holds digits as the pattern
\* does; the map is not refused, and the command has checked its options.
ASSUME SearchJobsAssumption ==
  \A x \in SearchJobs :
    /\ x.memory \in [DOMAIN x.memory -> Nat] /\ DOMAIN x.memory \subseteq Nat
    /\ x.pattern \in Seq(Nat) \ {<<>>}
    /\ x.start \in Nat /\ x.end \in Nat /\ x.start..(x.end - 1) \subseteq DOMAIN x.memory
    /\ x.blocks \in Seq(MapBlock) /\ ~MapRefused(x.blocks)
    /\ x.read_size \in Nat \ {0} /\ x.limit \in Nat /\ x.bad \in Int

\* What follows a number does not go on with it; something follows a register,
\* which has 32 bits; threads are counted from one, and a client asks for pages
\* that are not empty.
ASSUME CodeJobsAssumption ==
  \A x \in CodeJobs :
    /\ x.what \in {"number", "lowercase", "thread"} =>
         x.rest \in Seq(Nat) /\ (x.rest # <<>> => ~IsHexDigit(x.rest[1]))
    /\ x.what \in {"number", "lowercase"} =>
         x.number \in Nat /\ x.length = Len(Hex(x.number, 0))
    /\ x.what = "register" => /\ x.number \in Nat /\ x.number \div 16777216 \in 0..255
                             /\ x.rest \in Seq(Nat) \ {<<>>} /\ x.length = 8
    /\ x.what = "thread" => x.process \in Nat \ {0} /\ x.thread \in Nat \ {0}
    /\ x.what = "bytes" => x.bytes \in Seq(0..255)
    /\ x.what = "pages" => x.text \in Seq(Nat) /\ x.length \in Nat \ {0}

\* Words and masks are sets of bits, the registers that share a word share no
\* bit of it, and a register that fills its word is not shifted.
ASSUME RegisterJobsAssumption ==
  \A x \in RegisterJobs :
    /\ x.hardware \in [words : [DOMAIN x.hardware.words -> SUBSET Nat], selected : Nat]
    /\ x.register.index \in DOMAIN x.hardware.words
    /\ x.hardware.words[x.register.index] \subseteq x.whole
    /\ x.register.mask \subseteq Nat /\ x.register.shift \in Nat /\ x.value \subseteq Nat
    /\ x.register.mask = x.whole => x.register.shift = 0
    /\ \A mask \in x.others : mask \cap x.register.mask = {}

\* The cores and the files are as ElfLoading says.
ASSUME LoadJobsAssumption ==
  \A x \in LoadJobs :
    /\ DOMAIN x.elf \subseteq {".init", ".text", ".ldm_data"}
    /\ \A n \in DOMAIN x.elf : x.elf[n].address \in Int /\ x.elf[n].size \in Nat
    /\ WellPlaced(x.core, x.loader) /\ Sound(x.core, x.loader, x.elf)

\* The parts of a signal are in consecutive words, in one group or across
\* groups; each part but the last reaches to the end of its word, and each but
\* the first begins with its word.
ASSUME SignalJobsAssumption ==
  \A x \in SignalJobs : \A d \in x.signals :
    LET parts == {e \in x.signals : e.group = d.group /\ e.name = d.name} IN
    /\ d.part \in Nat /\ d.word \in Nat /\ d.mask \subseteq 0..31 /\ d.mask # {}
    /\ \A k \in 0..(d.part - 1) : \E e \in parts : e.part = k
    /\ \A e \in parts :
         /\ e.across_groups = d.across_groups
         /\ e.word - d.word = e.part - d.part
         /\ e.part = d.part => e = d
         /\ e.part < d.part => 0 \in d.mask /\ \A b \in e.mask : b..31 \subseteq e.mask

VARIABLES job, answer
hostVars == <<job, answer>>

Kinds == {"access", "check", "search", "code", "register", "load", "signal"}
JobsOf(kind) == CASE kind = "access" -> AccessJobs [] kind = "check" -> CheckJobs
                  [] kind = "search" -> SearchJobs [] kind = "code" -> CodeJobs
                  [] kind = "register" -> RegisterJobs [] kind = "load" -> LoadJobs
                  [] kind = "signal" -> SignalJobs

HostInit ==
  /\ \E kind \in Kinds : \E call \in JobsOf(kind) : job = [kind |-> kind, call |-> call]
  /\ answer = [done |-> FALSE]

Is(kind) == ~answer.done /\ job.kind = kind
Answer(value) == answer' = [done |-> TRUE, value |-> value] /\ UNCHANGED job
c == job.call
a == answer.value

AccessBytes ==
  /\ Is("access")
  /\ LET changes == IF c.umd THEN UmdChanges(c.address, c.data)
                             ELSE RiscChanges(c.address, c.data)
     IN \E done \in 0..(IF c.umd THEN Len(changes) ELSE 0) :
          LET all == Retried(changes, done) IN
          Answer([read |-> ReadBytes(c.memory, c.address, Len(c.data)),
                  changes |-> all, memory |-> WriteMemory(c.memory, all)])

Check ==
  /\ Is("check")
  /\ LET map == SortByStart(c.blocks) IN
     Answer([refused |-> Overlapping(map),
             valid |-> Validated(map, c.last, c.address, c.size, c.is_write)])

SearchMemory ==
  /\ Is("search")
  /\ LET ranges == Ranges(SortByStart(c.blocks), c.start, c.end) IN
     Answer([ranges |-> ranges,
             found |-> Search(c.memory, ranges, c.pattern, c.read_size, c.limit, c.bad)])

Encode ==
  /\ Is("code")
  /\ Answer(CASE c.what = "number" -> ParseHex(Hex(c.number, 0) \o c.rest, 1)
              [] c.what = "lowercase" -> ParseHex(LowerCase(Hex(c.number, 0)) \o c.rest, 1)
              [] c.what = "register" -> ReadRegisterHex(RegisterHex(c.number) \o c.rest, 1)
              [] c.what = "thread" -> ParseThreadId(ThreadIdHex(c.process, c.thread) \o c.rest, 1)
              [] c.what = "bytes" -> MemoryBytes(BytesHex(c.bytes))
              [] c.what = "pages" -> Collected(c.text, c.length)
              [] c.what = "P" -> HandleP(Hex(c.register, 0) \o <<Equals>> \o RegisterHex(c.number),
                                         33))

Register ==
  /\ Is("register")
  /\ IF Refused(c.register, c.value)
     THEN Answer([refused |-> TRUE])
     ELSE LET written == WriteRegister(c.hardware, c.register, c.value, c.whole) IN
          Answer([refused |-> FALSE, written |-> written,
                  read |-> ReadRegister(written, c.register)])

Load ==
  /\ Is("load")
  /\ Answer(RunElf(c.core, c.loader, c.elf, c.fault, c.start))

Signal ==
  /\ Is("signal")
  /\ Answer(CreateInitialization(c.group_map, c.signals))

HostNext == AccessBytes \/ Check \/ SearchMemory \/ Encode \/ Register \/ Load \/ Signal

HostSpec == HostInit /\ [][HostNext]_hostVars
---------------------------------------------------------------------------
(* Properties.                                                             *)

Answered(kind) == answer.done /\ job.kind = kind

\* A read returns the bytes of its range, and a write changes these alone,
\* also when a UMD write fails halfway and starts over after the repair of
\* the link; neither touches a word that the range is not in
\* (risc_debug.py 184-255, umd_device.py 185-292).
BytesExact ==
  Answered("access") =>
    /\ a.read = [i \in DOMAIN c.data |-> c.memory[c.address + i - 1]]
    /\ a.memory = [x \in DOMAIN c.memory |->
                     IF x - c.address \in 0..(Len(c.data) - 1)
                     THEN c.data[x - c.address + 1] ELSE c.memory[x]]
    /\ \A change \in ToSet(a.changes) :
         /\ change.at = Aligned(change.at)
         /\ {Aligned(x) : x \in Covered(change)}
              \subseteq {Aligned(c.address + i - 1) : i \in DOMAIN c.data}

\* A map is refused if and only if two of its blocks share an address, and an
\* access is let through if and only if each of its bytes lies in a block that
\* is accessible and safe, whatever an earlier lookup has left in the cache.
\* The maps of the chips are not refused, and the registers that a block reads
\* over the NOC are in its map.
ValidatedExactly ==
  Answered("check") =>
    /\ a.refused <=> MapRefused(c.blocks)
    /\ ~a.refused => (a.valid <=> AllSafe(c.blocks, c.address, c.size, c.is_write))
    /\ c.declared # "no" => ~a.refused
    /\ c.declared = "register" => a.valid

\* The search reports the first matches in the ranges, each once and as many
\* as asked for, however the reads divide the ranges, and up to a failing read.
FoundExactly ==
  Answered("search") =>
    FirstOccurrences(Occurrences(c.memory, a.ranges, c.pattern, c.read_size, c.bad),
                     c.limit, a.found)

\* What the writer encodes the parser reads back: numbers, registers that more
\* text follows, thread ids, the bytes of M; and the pages of a response make
\* up the response, whatever length the client asks for.
EncodingReversed ==
  Answered("code") =>
    CASE c.what \in {"number", "lowercase", "register"} -> a.value = c.number /\ a.at = c.length + 1
      [] c.what = "thread" -> a = <<c.process, c.thread>>
      [] c.what = "bytes" -> a = c.bytes
      [] c.what = "pages" -> a = c.text
      [] OTHER -> TRUE

\* A value that a register accepts is read back, and the bits of the word
\* outside the register, those of other registers among them, keep their
\* values, by whichever paths it is reached.
RegisterWritten ==
  Answered("register") /\ ~a.refused =>
    /\ a.read.value = c.value
    /\ a.written.words[c.register.index] \ c.register.mask =
         c.hardware.words[c.register.index] \ c.register.mask
    /\ \A mask \in c.others :
         a.written.words[c.register.index] \cap mask = c.hardware.words[c.register.index] \cap mask
    /\ \A i \in DOMAIN c.hardware.words \ {c.register.index} :
         a.read.hardware.words[i] = c.hardware.words[i]

\* A core leaves reset only when no access has raised, and starts at .init;
\* then each section is where the core looks for it, unless its data was lost,
\* which the loader only logs.
StartsWhatIsLoaded ==
  Answered("load") =>
    IF a.in_reset THEN a.raised /\ a.start = c.start
    ELSE /\ c.fault.what \notin {"raises", "verify"} \/ c.fault.name \notin DOMAIN c.elf
         /\ StartsAt(c.core, a) = Remapped(c.core, c.loader, c.elf[".init"].address)
         /\ \A name \in DOMAIN c.elf \ {c.fault.name} : \A i \in 0..(c.elf[name].size - 1) :
              LET place == Seen(c.core, Remapped(c.core, c.loader, c.elf[name].address) + i) IN
              place \in DOMAIN a.memory /\ a.memory[place] = <<name, i>>

\* A sample of a group holds exactly the signals of the group that are not
\* marked across groups, and the value that it gives for a signal is the
\* direct reads of the parts of the signal, one after another.
SignalsAgree ==
  Answered("signal") =>
    \A g \in c.group_map :
      LET members == {d \in c.signals : d.group = g}
          parts(name) == {d \in members : d.name = name}
      IN \A d \in members :
           IF d.across_groups THEN d.name \notin DOMAIN a[g]
           ELSE /\ d.name \in DOMAIN a[g]
                /\ Sampled(a, g, d.name) = Joined(parts(d.name))

\* "Write register n... with value r" (gdb_server.py 461): a packet that names
\* a register and gives its eight digits is accepted.
RegisterWriteAccepted == Answered("code") /\ c.what = "P" => a.reply = "OK"
============================================================================
