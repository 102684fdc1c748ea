---------------------------- MODULE MCHostLogic ----------------------------
(***************************************************************************)
(* Jobs for HostLogic.  The code moves bytes and sections without looking  *)
(* at them, so that one content with distinct bytes is enough; the search  *)
(* and the checks get every content of small memories and maps, and the    *)
(* maps, the registers and the cores of the chips.                         *)
(***************************************************************************)
EXTENDS HostLogic, NocBlocks, SignalTables

Accesses ==
  [memory : {[x \in 0..23 |-> x]}, address : 0..7, umd : BOOLEAN,
   data : {[i \in 1..n |-> 100 + i] : n \in 0..9}]

Blocks(safe, sizes) ==
  {[start |-> s, size |-> n, read |-> r, write |-> r, open |-> o] :
     s \in 0..3, n \in sizes, r \in safe, o \in BOOLEAN}

SmallChecks ==
  [blocks : Blocks({"yes", "no", "unset"}, {2}) \X Blocks({"yes", "unset"}, {1, 2}),
   address : 0..3, size : 0..4, is_write : BOOLEAN, last : 0..2, declared : {"no"}]

Stores(registers, Base(_)) == {RegisterStore(registers, Base(n)) : n \in 0..1}
WorkerRunning == [ToSet(WorkerRiscs) -> {TRUE}] \cup [ToSet(WorkerRiscs) -> {FALSE}]

\* The NOC maps of the chips with the stores of their registers.  Left out are
\* the stores that are not in the map of their block: those of a harvested
\* DRAM block, a simulated DRAM block and the overlay and the NOCs of Quasar.
ChipMaps ==
  {[map |-> WormholeWorkerMap,
    stores |-> Stores(WormholeWorker \cup WormholeNiu, WormholeWorkerBase)],
   [map |-> WormholeEthMap, stores |-> Stores(WormholeEth \cup WormholeNiu, WormholeEthBase)],
   [map |-> WormholeDramMap,
    stores |-> {RegisterStore(WormholeNiu, WormholeDramBase(l, n)) : l \in 0..2, n \in 0..1}],
   [map |-> WormholePcieMap, stores |-> {RegisterStore(WormholeNiu, WormholePcieBase)}],
   [map |-> WormholeHarvestedMap, stores |-> Stores(WormholeNiu, HarvestedBase)],
   [map |-> BlackholeEthMap, stores |-> Stores(BlackholeEth \cup BlackholeNiu, BlackholeEthBase)],
   [map |-> BlackholeDramMap,
    stores |-> Stores(BlackholeDram \cup BlackholeNiu, BlackholeDramBase)],
   [map |-> BlackholeDramSimMap, stores |-> {}], [map |-> BlackholeHarvestedDramMap, stores |-> {}],
   [map |-> BlackholeLocalArc,
    stores |-> {RegisterStore(BlackholeArc \cup BlackholeNiu, BlackholeArcBase(n, l)) :
                  n \in 0..1, l \in BOOLEAN}],
   [map |-> BlackholePcieMap, stores |-> Stores(BlackholeNiu, BlackholePcieBase)],
   [map |-> BlackholeRouterMap, stores |-> {RegisterStore(BlackholeNiu, BlackholeRouterBase)}],
   [map |-> BlackholeHarvestedMap, stores |-> Stores(BlackholeNiu, HarvestedBase)],
   [map |-> QuasarWorkerMap, stores |-> {RegisterStore(QuasarNeo, QuasarNeoBase(n)) : n \in 0..3}]}
  \cup {[map |-> WormholeArcMap(l),
         stores |-> {RegisterStore(WormholeArc \cup WormholeNiu, WormholeArcBase(n, l)) :
                       n \in 0..1}] : l \in BOOLEAN}
  \cup {[map |-> BlackholeWorkerMap(running),
         stores |-> Stores(BlackholeWorker \cup BlackholeNiu, BlackholeWorkerBase)] :
           running \in WorkerRunning}

CoreMaps ==
  {WormholeBrisc, WormholeTrisc0, WormholeTrisc1, WormholeTrisc2, WormholeNcrisc, WormholeErisc,
   BlackholeErisc0, BlackholeErisc1, BlackholeDrisc}
  \cup UNION {{BlackholeBrisc(r), BlackholeTrisc0(r), BlackholeTrisc1(r), BlackholeTrisc2(r),
               BlackholeNcrisc(r)} : r \in WorkerRunning}

\* Accesses around the ends of the blocks of a map, and to its registers.
EdgeChecks(blocks) ==
  {[blocks |-> blocks, address |-> x, size |-> n, is_write |-> w, last |-> l, declared |-> "map"] :
     x \in UNION {{b.start - 1, b.start, End(b) - 1} : b \in ToSet(blocks)}, n \in 1..2,
     w \in BOOLEAN, l \in 0..1}
RegisterChecks(chip) ==
  {[blocks |-> Intervals(chip.map, "noc"), address |-> r.at.noc, size |-> 1, is_write |-> FALSE,
    last |-> 0, declared |-> "register"] :
     r \in {x \in UNION chip.stores : "noc" \in DOMAIN x.at /\ "bar0" \notin DOMAIN x.at}}

Checks ==
  SmallChecks \cup UNION {EdgeChecks(Intervals(chip.map, "noc")) \cup RegisterChecks(chip) :
                            chip \in ChipMaps}
    \cup UNION {EdgeChecks(Intervals(map, space)) : map \in CoreMaps, space \in {"noc", "private"}}

Plain(start, size) == [start |-> start, size |-> size, read |-> "yes", write |-> "yes",
                       open |-> TRUE]

Searches ==
  [memory : [0..5 -> {0, 1}],
   blocks : {<<Plain(0, 6)>>, <<Plain(2, 4), Plain(0, 2)>>, <<Plain(4, 2), Plain(0, 3)>>},
   pattern : {<<1>>, <<0, 0>>, <<0, 1, 0>>, <<1, 1, 1>>},
   start : {0, 1}, end : {4, 6}, read_size : {1, 2, 4}, limit : {1, 2, Unlimited},
   bad : {3, Unlimited}]

Numbers == {0, 9, 10, 15, 16, 171, 255, 256, 4095, 65535, 16777216, 305419896, 2147483647}

Codes ==
  {[what |-> w, number |-> n, rest |-> r, length |-> Len(Hex(n, 0))] :
     w \in {"number", "lowercase"}, n \in Numbers, r \in {<<>>, <<Equals>>}}
  \cup {[what |-> "register", number |-> n, rest |-> <<Digit0>>, length |-> 8] : n \in Numbers}
  \cup {[what |-> "thread", process |-> p, thread |-> t, rest |-> r] :
          p \in {1, 16, 300}, t \in {1, 300}, r \in {<<>>, <<Point>>}}
  \cup {[what |-> "bytes", bytes |-> b] : b \in {<<>>, <<0>>, <<171, 15>>, <<255, 0, 16>>}}
  \cup {[what |-> "pages", text |-> t, length |-> n] :
          t \in {<<>>, <<1>>, <<1, 2>>, <<1, 2, 3, 4, 5>>}, n \in 1..6}
  \cup {[what |-> "P", register |-> r, number |-> n] : r \in {0, 32}, n \in {0, 305419896}}

ThreeBits == 0..2
SmallRegisters ==
  {[mask |-> m, shift |-> s, address |-> d, is_config |-> g, index |-> i] :
     m \in SUBSET ThreeBits, s \in 0..2, d \in {"none", "noc", "bar0"}, g \in BOOLEAN,
     i \in {0, 1}}

\* A whole word is not shifted when it is written: such registers are not
\* declared, and cfg(index, 0xFFFFFFFF, shift) does not read back.
SmallAccesses ==
  [register : {r \in SmallRegisters : r.mask = ThreeBits => r.shift = 0},
   value : SUBSET ThreeBits, whole : {ThreeBits}, others : {{}},
   hardware : {[words |-> w, selected |-> 1] : w \in [0..1 -> {{}, {0, 2}, ThreeBits}]}]

\* Each register of a chip is set and cleared in a word of the opposite bits;
\* others are the masks of the registers that it shares the word with.
WordOf(r) == CASE "bar0" \in DOMAIN r.at -> r.at.bar0 [] "noc" \in DOMAIN r.at -> r.at.noc
             [] OTHER -> r.at.private
ChipAccesses(store) ==
  {LET lowest == CHOOSE b \in r.mask : \A x \in r.mask : b <= x IN
   [register |-> [mask |-> r.mask, shift |-> lowest, index |-> WordOf(r), is_config |-> r.is_config,
                  address |-> CASE "bar0" \in DOMAIN r.at -> "bar0"
                                [] "noc" \in DOMAIN r.at -> "noc" [] OTHER -> "none"],
    value |-> IF set THEN Down(r.mask, lowest) ELSE {}, whole |-> AllBits,
    others |-> {x.mask : x \in {y \in store : y.at = r.at /\ y # r}},
    hardware |-> [words |-> (WordOf(r) :> IF set THEN {} ELSE AllBits), selected |-> 1]] :
   r \in store, set \in BOOLEAN}

RegisterAccesses ==
  SmallAccesses \cup UNION {ChipAccesses(store) : store \in
    UNION {chip.stores : chip \in ChipMaps} \cup {RegisterStore(QuasarOverlay, QuasarOverlayBase)}}

\* L1 at 0, data memory at 100, code memory at 200 or none.
Cores ==
  {[l1 |-> Plain(0, 64), data |-> Plain(100, 16), code |-> Plain(200, n), data_noc |-> v,
    default |-> 0, wired |-> w] : n \in {0, 16}, v \in BOOLEAN, w \in BOOLEAN}

Section(address, size) == [address |-> address, size |-> size]
Elfs ==
  [{".init", ".text", ".ldm_data"} ->
     {Section(4, 4), Section(8, 6), Section(60, 8), Section(100, 4), Section(200, 4),
      Section(6, 4)}]
  \cup {[s \in {".text"} |-> Section(8, 4)], [s \in {".init", ".text"} |-> Section(16, 4)]}

LoadsOf(cores, data, code, elfs) ==
  {l \in [core : cores, loader : [data : {Stay, data}, code : {Stay, code}], elf : elfs,
          fault : [name : {".init", ".ldm_data"}, what : {"raises", "lost", "verify"}]
                  \cup {[name |-> "none", what |-> "none"]},
          start : {[register |-> 0, enabled |-> FALSE]}] : Sound(l.core, l.loader, l.elf)}

ChipCores ==
  {WormholeBriscCore, WormholeTrisc0Core, WormholeTrisc1Core, WormholeTrisc2Core,
   WormholeNcriscCore, WormholeEriscCore, BlackholeBriscCore, BlackholeTrisc0Core,
   BlackholeTrisc1Core, BlackholeTrisc2Core, BlackholeNcriscCore, BlackholeErisc0Core,
   BlackholeErisc1Core, BlackholeDriscCore}
ChipElfs ==
  {[s \in {".init", ".text", ".ldm_data"} |->
      CASE s = ".init" -> Section(i, 8) [] s = ".text" -> Section(t, 8)
        [] s = ".ldm_data" -> Section(d, 4)] :
     i \in {\h6000, \h12340, Upper(\hFFC00)}, t \in {\h4000, Upper(\hFFC00) + 64},
     d \in {\h2000, Upper(\hFFB00), Upper(\hFFB00) + \h7FC}}

Loads == LoadsOf(Cores, 24, 40, Elfs) \cup LoadsOf(ChipCores, \h8000, \h9000, ChipElfs)

BusJob(table, group_map) == [group_map |-> group_map, signals |-> Descriptions(table)]
Buses ==
  {BusJob(table, DOMAIN table) :
     table \in {WormholeWorkerBus, WormholeEthBus, BlackholeWorkerBus, BlackholeEthBus,
                BlackholeDramBus}}
  \cup {BusJob(QuasarNeoBus, {})}
============================================================================
