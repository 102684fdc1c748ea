----------------------------- MODULE NocBlocks -----------------------------
(***************************************************************************)
(* The blocks of the chips (hardware/<architecture>/..._block.py): the     *)
(* memory maps of their NOC side and of their cores, where the registers   *)
(* of each class are, and the memories and start addresses of the cores.   *)
(*                                                                         *)
(* A map is a sequence of memory blocks [at, size, read, write, open]: at  *)
(* gives its addresses in the spaces "noc", "private" and "bar0" that it   *)
(* has one in.  Addresses and sizes count words of four bytes.             *)
(***************************************************************************)
EXTENDS RegisterMaps, SequencesExt, TLC

Bytes(n) == n \div 4
Address(page, offset) == 1024 * page + Bytes(offset)
PageAt(page) == Address(page, 0)
\* An address above 4 GB, where a map has one or two more ranges of 4 GB: they
\* keep apart when they are put below the first.
Above(address) == address - 2^30
AboveBoth(address) == Above(Above(address))

Noc(address) == [noc |-> address]
Private(address) == [private |-> address]
Both(address) == [noc |-> address, private |-> address]

Block(at, size, read, write) ==
  [at |-> at, size |-> Bytes(size), read |-> read, write |-> write, open |-> TRUE]
Memory(at, size) == Block(at, size, "unset", "yes")
Registers(at, size) == Block(at, size, "unset", "unset")
Unread(at, size) == Block(at, size, "no", "unset")
\* Data memory that answers only while its core is not in reset.
Guarded(at, size, running) == [Registers(at, size) EXCEPT !.open = running]

\* MemoryMap.initialize_blocks: the blocks with an address in a space.
Intervals(map, space) ==
  LET there == SelectSeq(map, LAMBDA b : space \in DOMAIN b.at) IN
  [i \in DOMAIN there |->
     [start |-> there[i].at[space], size |-> there[i].size, read |-> there[i].read,
      write |-> there[i].write, open |-> there[i].open]]

\* just_noc_address
JustNoc(blocks) == [i \in DOMAIN blocks |-> [blocks[i] EXCEPT !.at = Noc(@.noc)]]

NocRegisters ==
  << Registers(Both(PageAt(\hFFB20)), \h10000), Registers(Both(PageAt(\hFFB30)), \h10000) >>
Overlay == << Registers(Both(PageAt(\hFFB40)), \h40000) >>
---------------------------------------------------------------------------
(* What only a core reaches.                                               *)

Mailboxes ==
  [i \in 1..4 |-> Registers(Private(PageAt(\hFFEC0 + i - 1)), \h1000)]
    \o << Registers(Private(PageAt(\hFFEF0)), \h10000) >>

\* The registers and the buffers of all three threads of Tensix.
BriscPrivate ==
  [t \in 1..3 |-> Registers(Private(Address(\hFFE00, \h100 * (t - 1))), \h100)]
    \o [t \in 1..3 |-> Registers(Private(PageAt(\hFFE40 + 16 * (t - 1))), \h10000)]
    \o [t \in 1..3 |-> Registers(Private(PageAt(\hFFE80 + 16 * (t - 1))), \h10000)] \o Mailboxes

\* Those of its own thread, at the same addresses in each TRISC.
TriscPrivate ==
  << Registers(Private(PageAt(\hFFB14)), \h24), Registers(Private(PageAt(\hFFE00)), \h100),
     Registers(Private(PageAt(\hFFE40)), \h10000), Registers(Private(PageAt(\hFFE80)), 4),
     Registers(Private(Address(\hFFE80, 4)), \h1C),
     Registers(Private(Address(\hFFE80, \h20)), \hFFD0) >>
    \o Mailboxes

DataMemory(size) == << Memory(Private(PageAt(\hFFB00)), size) >>
---------------------------------------------------------------------------
(* Memory maps of Wormhole.                                                *)

WormholeWorkerMap ==
  << Memory(Both(0), \h16E000), Unread(Both(PageAt(\hFFB11)), \h1000),
     Memory(Both(PageAt(\hFFB12)), \h1000), Registers(Both(PageAt(\hFFB13)), \h1000) >>
    \o NocRegisters \o Overlay
WormholeBrisc == WormholeWorkerMap \o DataMemory(\h1000) \o BriscPrivate
WormholeTrisc0 == WormholeWorkerMap \o DataMemory(\h800) \o TriscPrivate
WormholeTrisc1 == WormholeTrisc0
WormholeTrisc2 == WormholeTrisc0
WormholeNcrisc ==
  WormholeWorkerMap \o DataMemory(\h1000) \o << Registers(Private(PageAt(\hFFC00)), \h4000) >>

WormholeEthMap ==
  << Memory(Both(0), \h40000), Memory(Both(PageAt(\hFFB12)), \h1000),
     Registers(Both(PageAt(\hFFB13)), \h1000) >> \o NocRegisters \o Overlay
    \o << Registers(Both(PageAt(\hFFB90)), \h2000), Registers(Both(PageAt(\hFFB92)), \h2000),
          Registers(Both(PageAt(\hFFB94)), \h54), Unread(Both(PageAt(\hFFBA0)), \h10000),
          Unread(Both(PageAt(\hFFBB0)), \h10000) >>
WormholeErisc == WormholeEthMap \o DataMemory(\h1000)

\* Two channels, three pairs of NOC registers, and the configuration of GDDR.
WormholeDramMap ==
  << [Memory(Both(0), 0) EXCEPT !.size = 2^29] >>
    \o [i \in 1..2 |-> Registers(Noc(Above(PageAt(64 * (i - 1)))), \h40000)]
    \o [i \in 1..6 |-> Registers(Noc(Above(PageAt(\h80 + 8 * (i - 1)))), \h8000)]
    \o << Registers(Noc(Above(PageAt(\hB0))), \h18000) >>

WormholeArcMap(local) ==
  << Memory(Noc(Above(PageAt(\h80030))), \h200), Memory(Noc(Above(PageAt(\h10000))), \h80000),
     Memory(Noc(Above(PageAt(\h80000))), \h30000),
     Registers([noc |-> AboveBoth(PageAt(\hFFB20)), private |-> AboveBoth(PageAt(\hFFB20))],
               \h10000) >>
    \o IF ~local THEN <<>>
       ELSE [i \in 1..2 |-> Registers([bar0 |-> PageAt(\h1FF50 + 8 * (i - 1))], \h8000)]

WormholePcieMap == << Registers(Both(AboveBoth(PageAt(\hFFB20))), \h10000) >>
WormholeHarvestedMap == NocRegisters
---------------------------------------------------------------------------
(* Memory maps of Blackhole.                                               *)

BlackholeWorkerBlocks ==
  << Memory(Both(0), \h180000), Memory(Both(PageAt(\hFFB12)), \h1000),
     Registers(Both(PageAt(\hFFB13)), \h38), Registers(Both(Address(\hFFB13, \h138)), \h14) >>
    \o NocRegisters \o Overlay

WorkerRiscs == <<"brisc", "ncrisc", "trisc0", "trisc1", "trisc2">>
PrivateSize(risc) == IF risc \in {"brisc", "ncrisc"} THEN \h2000 ELSE \h1000
\* The NOC address of the data memory of a core.
PrivateNoc(risc) == Address(\hFFB14 + 2 * (SelectInSeq(WorkerRiscs, LAMBDA r : r = risc) - 1), 0)
DataOverNoc(riscs, running) ==
  [i \in DOMAIN riscs |-> Guarded(Noc(PrivateNoc(riscs[i])), PrivateSize(riscs[i]),
                                  running[riscs[i]])]

BlackholeWorkerMap(running) == BlackholeWorkerBlocks \o DataOverNoc(WorkerRiscs, running)

\* A core finds its own data memory at its private address, and the others
\* over the NOC.
BlackholeCore(risc, running) ==
  BlackholeWorkerBlocks
    \o << Guarded([noc |-> PrivateNoc(risc), private |-> PageAt(\hFFB00)], PrivateSize(risc),
                  running[risc]) >>
    \o DataOverNoc(SelectSeq(WorkerRiscs, LAMBDA r : r # risc), running)
BlackholeTdma == << Unread(Private(PageAt(\hFFB11)), \h1000) >>

BlackholeBrisc(running) == BlackholeCore("brisc", running) \o BlackholeTdma \o BriscPrivate
BlackholeTrisc(risc, running) ==
  BlackholeCore(risc, running) \o BlackholeTdma
    \o << Registers(Private(PageAt(\hFFBD8)), \h8000) >> \o TriscPrivate
BlackholeTrisc0(running) == BlackholeTrisc("trisc0", running)
BlackholeTrisc1(running) == BlackholeTrisc("trisc1", running)
BlackholeTrisc2(running) == BlackholeTrisc("trisc2", running)
BlackholeNcrisc(running) == BlackholeCore("ncrisc", running)

BlackholeEthMap ==
  << Memory(Both(0), \h80000), Memory(Both(PageAt(\hFFB12)), \h2010),
     Registers(Both(Address(\hFFB14, \h20)), \h44) >> \o NocRegisters \o Overlay
    \o << Registers(Both(PageAt(\hFFB90)), \h3000), Registers(Both(PageAt(\hFFB94)), \h3000),
          Registers(Both(PageAt(\hFFB98)), \h200), Registers(Both(Address(\hFFB98, \h200)), \h500),
          Registers(Both(PageAt(\hFFB9C)), \h2A20), Unread(Both(PageAt(\hFFBA0)), \h10000) >>
BlackholeErisc0 == BlackholeEthMap \o DataMemory(\h2000)
BlackholeErisc1 == BlackholeErisc0

\* Of the DRAM blocks: private addresses, and NOC addresses 2^40 above them.
Mirrored(page, offset) ==
  [noc |-> AboveBoth(Address(page, offset)), private |-> Address(page, offset)]
DramRegisters(control) ==
  << Registers(Mirrored(\hFC000, 0), \h100), Registers(Mirrored(\hFC000, \h100), \h100),
     Registers(Mirrored(\hFC001, 0), \h1000), Registers(Mirrored(\hFC100, 0), \h10000),
     Registers(Mirrored(\hFC200, 0), \h100), Registers(Mirrored(\hFC300, 0), \h100),
     Registers(Mirrored(\hFC301, 0), \h1000), Registers(Mirrored(\hFC302, 0), \h1000),
     Unread(Mirrored(\hFC303, 0), \h1000), Unread(Mirrored(\hFC400, 0), \h20000),
     Memory(Mirrored(\hFFB12, 0), \h1000), Registers(Mirrored(\hFFB13, 0), \h1000),
     control >> \o [i \in 1..3 |-> Registers(Mirrored(\hFFB20 + 16 * (i - 1), 0), \h10000)]

DramBank == [Memory(Noc(0), 0) EXCEPT !.size = 2^30]
DramL1 == Memory([noc |-> Above(0), private |-> 0], \h20000)
BlackholeDramMap ==
  <<DramBank, DramL1>> \o JustNoc(DramRegisters(Memory(Mirrored(\hFFB14, 0), \h1000)))
BlackholeDrisc == <<DramL1>> \o DramRegisters(Registers(Mirrored(\hFFB14, 0), \h1000))
BlackholeDramSimMap ==
  << [DramBank EXCEPT !.write = "unset"] >>
    \o [i \in 1..3 |-> Registers(Noc(AboveBoth(PageAt(\hFFB20 + 16 * (i - 1)))), \h10000)]

\* The registers of the NOCs are declared longer on a remote device.
BlackholeArcMap(size) ==
  << Memory(Noc(PageAt(\h80030)), \h200), Memory(Noc(PageAt(\h10000)), \h80000),
     Memory(Noc(PageAt(\h80000)), \h30000), Registers(Noc(PageAt(\h80050)), size),
     Registers(Noc(PageAt(\h80058)), size) >>
BlackholeLocalArc == BlackholeArcMap(\h8000)

\* PCIe, L2 CPU and security blocks, and blocks that only route.
BlackholePcieMap == << Registers(Noc(AboveBoth(PageAt(\hFF000))), \h10000) >>
BlackholeRouterMap == << Registers(Noc(PageAt(\hFF000)), \h10000) >>
BlackholeHarvestedMap == NocRegisters
BlackholeHarvestedDramMap ==
  [i \in 1..2 |-> Registers(Noc(AboveBoth(PageAt(\hFFB20 + 16 * (i - 1)))), \h10000)]
---------------------------------------------------------------------------
(* The memory map of a Quasar worker: L1, and four NEOs.                   *)

NeoBase(neo) == PageAt(\h1800 + 16 * neo)
NeoMap(neo) ==
  [t \in 1..4 |-> Memory(Noc(NeoBase(neo) + Bytes(\h2000 * t)), \h2000)]
    \o << Memory(Noc(NeoBase(neo)), \h400), Registers(Noc(NeoBase(neo) + Bytes(\h400)), \h400) >>
QuasarWorkerMap ==
  << Memory(Both(0), \h400000) >> \o NeoMap(0) \o NeoMap(1) \o NeoMap(2) \o NeoMap(3)
---------------------------------------------------------------------------
(* Where the registers of each class are.                                  *)

Displaced(at, offset) == [space \in DOMAIN at |-> at[space] + Bytes(offset)]
NiuBase(at) ==
  ("control" :> at) @@ ("niu config" :> Displaced(at, \h100)) @@ ("status" :> Displaced(at, \h200))

DebugBase == "debug" :> Both(PageAt(\hFFB12))
ConfigBase == "config" :> Private(PageAt(\hFFEF0))
\* The NOC whose NIU registers the store has: 0 or 1.
WormholeWorkerBase(noc) ==
  NiuBase(Both(PageAt(\hFFB20 + 16 * noc))) @@ ConfigBase @@ DebugBase
    @@ ("gpr" :> Private(PageAt(\hFFE00)))
BlackholeWorkerBase(noc) == WormholeWorkerBase(noc)
WormholeEthBase(noc) == NiuBase(Both(PageAt(\hFFB20 + 16 * noc))) @@ ConfigBase @@ DebugBase
BlackholeEthBase(noc) == WormholeEthBase(noc) @@ ("risc control" :> Both(PageAt(\hFFB14)))
BlackholeDramBase(noc) ==
  NiuBase(Mirrored(\hFFB20 + 16 * noc, 0))
    @@ ("debug" :> Mirrored(\hFFB12, 0)) @@ ("risc control" :> Mirrored(\hFFB14, 0))

\* The ARC is reached through BAR0 on a local device.
ArcBase(at, local) ==
  [class \in {"arc reset", "arc csm", "arc rom"} |->
     IF local THEN [bar0 |-> CASE class = "arc reset" -> PageAt(\h1FF30)
                               [] class = "arc csm" -> PageAt(\h1FE80)
                               [] class = "arc rom" -> PageAt(\h1FF00)]
     ELSE Noc(at[class])]
WormholeArcBase(noc, local) ==
  LET niu == Noc(AboveBoth(PageAt(\hFFB20))) IN
  NiuBase(IF local THEN niu @@ [bar0 |-> PageAt(\h1FF50 + 8 * noc)] ELSE niu)
    @@ ArcBase(("arc reset" :> Above(PageAt(\h80030))) @@ ("arc csm" :> Above(PageAt(\h10000)))
                 @@ ("arc rom" :> Above(PageAt(\h80000))), local)
BlackholeArcBase(noc, local) ==
  NiuBase(Noc(PageAt(\h80050 + 8 * noc)))
    @@ ArcBase(("arc reset" :> PageAt(\h80030)) @@ ("arc csm" :> PageAt(\h10000))
                 @@ ("arc rom" :> PageAt(\h80000)), local)

\* Each DRAM block has three pairs of NOC interfaces.
WormholeDramBase(location, noc) == NiuBase(Noc(Above(PageAt(\h80 + 16 * location + 8 * noc))))
WormholePcieBase == NiuBase(Noc(AboveBoth(PageAt(\hFFB20))))
BlackholePcieBase(noc) ==
  NiuBase(Noc(AboveBoth(PageAt(\hFF000))) @@ [bar0 |-> PageAt(\h1FD04 + 16 * noc)])
BlackholeRouterBase == NiuBase(Noc(PageAt(\hFF000)))
HarvestedBase(noc) == NiuBase(Noc(PageAt(\hFFB20 + 16 * noc)))

QuasarNeoBase(neo) == "debug" :> Noc(NeoBase(neo))
QuasarOverlayBase ==
  ("cluster" :> Noc(PageAt(\h3000))) @@ ("csr" :> Noc(Address(\h3000, \h200)))
    @@ ("tile counters" :> Noc(PageAt(\h3003))) @@ ("debug" :> Noc(PageAt(\h300A)))
    @@ ("smn" :> Noc(PageAt(\h3010)))

\* RegisterStore.create_initialization: the registers at their addresses.
RegisterStore(registers, base) ==
  {[mask |-> r.mask, at |-> Displaced(base[r.class], r.offset), is_config |-> r.class = "config"] :
     r \in registers}
---------------------------------------------------------------------------
(* The cores, for the loader: here an address is a byte address, and those *)
(* of the upper 2 GB are negative.                                         *)

Upper(page) == (page - \h100000) * \h1000
NoMemory == [start |-> Upper(\hFFB00), size |-> 0]
Span(start, size) == [start |-> start, size |-> size]
\* A core that no register can send elsewhere is wired to its start address.
Core(l1, data, code, data_noc, default, wired) ==
  [l1 |-> Span(0, l1), data |-> Span(Upper(\hFFB00), data), code |-> code,
   data_noc |-> data_noc, default |-> default, wired |-> wired]

WormholeCore(data, default, wired) == Core(\h16E000, data, NoMemory, FALSE, default, wired)
WormholeBriscCore == WormholeCore(\h1000, 0, TRUE)
WormholeTrisc0Core == WormholeCore(\h800, \h6000, FALSE)
WormholeTrisc1Core == WormholeCore(\h800, \hA000, FALSE)
WormholeTrisc2Core == WormholeCore(\h800, \hE000, FALSE)
WormholeNcriscCore ==
  Core(\h16E000, \h1000, Span(Upper(\hFFC00), \h4000), FALSE, Upper(\hFFC00), FALSE)
WormholeEriscCore == Core(\h40000, \h1000, Span(Upper(\hFFC00), \h4000), FALSE, 0, TRUE)

BlackholeWorkerCore(data, default, wired) == Core(\h180000, data, NoMemory, TRUE, default, wired)
BlackholeBriscCore == BlackholeWorkerCore(\h2000, 0, TRUE)
BlackholeTrisc0Core == BlackholeWorkerCore(\h1000, \h6000, FALSE)
BlackholeTrisc1Core == BlackholeWorkerCore(\h1000, \hA000, FALSE)
BlackholeTrisc2Core == BlackholeWorkerCore(\h1000, \hE000, FALSE)
BlackholeNcriscCore == BlackholeWorkerCore(\h2000, \h12000, FALSE)
\* These have a start address register without an enable bit, and no default.
BlackholeErisc0Core == Core(\h80000, \h2000, NoMemory, FALSE, 0, FALSE)
BlackholeErisc1Core == BlackholeErisc0Core
BlackholeDriscCore == Core(\h20000, \h2000, NoMemory, FALSE, 0, FALSE)
============================================================================
