---------------------------- MODULE RegisterMaps ----------------------------
(***************************************************************************)
(* The register maps of the blocks of Wormhole, Blackhole and Quasar chips *)
(* (register_map and niu_register_map of hardware/<architecture>/).  A map *)
(* is a set of registers; a register is the class of its description, the  *)
(* offset in bytes of its word from the base of its class, and its mask as *)
(* a set of bits.  Its shift is the lowest bit of the mask throughout, and *)
(* two names of the same bits are one register.                            *)
(***************************************************************************)
EXTENDS Integers, Sequences, FiniteSets

AllBits == 0..31

\* The offsets from first to last, step apart.
Every(step, first, last) == {o \in first..last : (o - first) % step = 0}
Words(first, last) == Every(4, first, last)

\* Registers that are words, and registers that share consecutive words: the
\* words from a configuration index on, each divided into bit ranges.
Whole(class, offsets) == {[class |-> class, offset |-> o, mask |-> AllBits] : o \in offsets}
Bits(class, offset, mask) == {[class |-> class, offset |-> offset, mask |-> mask]}
Layout(index, words) ==
  UNION {UNION {Bits("config", 4 * (index + i - 1), words[i][j]) : j \in DOMAIN words[i]} :
           i \in DOMAIN words}
Layouts(indices, words) == UNION {Layout(i, words) : i \in indices}

\* ConfigurationRegisterDescription and TensixGeneralPurposeRegisterDescription
\* compute their offsets: 64 registers of four bytes for each thread.
Gprs(thread_id) == Whole("gpr", {4 * (index + 64 * thread_id) : index \in 0..63})
---------------------------------------------------------------------------
(* Layouts of configuration words that Wormhole and Blackhole share.       *)

TileDescriptor ==
  << <<0..3, 4..4, 5..7, 8..11, 12..15, 16..31>>, <<0..15, 16..31>>, <<0..15, 16..31>>,
     <<0..15, 16..23, 24..31>> >>

UnpackConfig ==
  << <<0..3, 4..5, 6..7, 8..8, 9..9, 10..10, 11..11, 12..13, 14..14, 15..15, 16..31>>,
     <<0..3, 4..7, 8..8, 9..15, 16..19, 20..23, 24..31>>, <<0..16, 17..31>>, <<0..16, 17..31>> >>

AluConfig ==
  << <<0..0, 1..1, 2..2, 3..12, 13..13, 14..14, 15..15, 16..16, 17..20, 21..24, 25..28,
       29..29, 30..30, 31..31>> >>

ReluConfig ==
  << <<0..0, 1..1, 2..5, 6..21, 22..22, 23..25, 26..26, 27..27, 28..30, 31..31>> >>

DestRdCtrl == << <<0..0, 1..1, 2..2, 3..3, 4..31>> >>
EdgeOffset == << <<0..15, 16..16, 17..18, 19..20, 21..22, 23..24, 25..31>> >>
PackCounters == << <<0..7, 8..15, 16..22, 23..23, 24..31>> >>
---------------------------------------------------------------------------
(* Wormhole workers.                                                       *)

WormholePackConfig ==
  << <<0..15, 16..31>>, <<AllBits>>,
     <<0..0, 1..1, 2..3, 4..7, 8..11, 12..15, 16..16, 17..23, 24..31>>,
     <<0..15, 16..18, 19..19, 20..20, 21..22, 23..23, 24..31>> >>

WormholeTileDescriptors == Layouts({52, 92}, TileDescriptor)
WormholeUnpackConfigs == Layouts({60, 100}, UnpackConfig)
WormholePackers == Layouts({56, 84, 96, 124}, WormholePackConfig)

WormholeEdgeOffsets == Layout(20, EdgeOffset \o << <<0..15>>, <<0..15>>, <<0..15>> >>)
WormholePackCounters == Layouts(24..27, PackCounters)
WormholePackStrides == Layouts({8, 10}, << <<0..11, 12..23>>, <<0..11, 12..27>> >>)

WormholeMath ==
  Layout(1, AluConfig) \cup Layout(2, ReluConfig) \cup Layout(14, DestRdCtrl)
    \cup WormholeEdgeOffsets \cup WormholePackCounters \cup WormholePackStrides

\* Branch prediction and the start addresses of the cores.
WormholeResetConfig ==
  Layout(157, << <<0..4>>, <<AllBits>>, <<AllBits>>, <<AllBits>>, <<0..2>>, <<AllBits>>,
                 <<0..0>> >>)

WormholeDebug ==
  Whole("debug", Words(\h0, \h20) \cup Words(\h30, \h3C) \cup Words(\h48, \h90)
                   \cup Words(\hA0, \hA8) \cup {\hB4} \cup Words(\hF0, \hF8)
                   \cup Words(\h100, \h124) \cup {\h1B0} \cup Words(\h1C0, \h1C8)
                   \cup Words(\h1E0, \h1E8) \cup {\h1F0, \h1F8, \h1FC, \h204, \h218})

\* Of the threads that unpack, compute and pack.
WormholeUnpackGprs == Gprs(0)
WormholeMathGprs == Gprs(1)
WormholePackGprs == Gprs(2)

WormholeWorker ==
  WormholeTileDescriptors \cup WormholeUnpackConfigs \cup WormholePackers \cup WormholeMath
    \cup WormholeUnpackGprs \cup WormholeMathGprs \cup WormholePackGprs
    \cup WormholeResetConfig \cup WormholeDebug
---------------------------------------------------------------------------
(* Blackhole workers.                                                      *)

BlackholePackConfig ==
  << <<0..15, 16..31>>, <<AllBits>>,
     <<0..0, 1..1, 2..2, 3..3, 4..7, 8..11, 12..12, 13..13, 14..14, 15..15, 16..16, 17..20,
       21..21, 22..22, 23..23, 24..31>> >>

BlackholeTileDescriptors == Layouts({64, 112}, TileDescriptor)
BlackholeUnpackConfigs == Layouts({72, 120}, UnpackConfig)
BlackholePackers ==
  Layout(68, BlackholePackConfig) \cup Layout(24, EdgeOffset) \cup Layout(28, PackCounters)
    \cup Layout(12, [i \in 1..4 |-> <<0..15, 16..31>>])
BlackholeMath == Layout(1, AluConfig) \cup Layout(2, ReluConfig) \cup Layout(18, DestRdCtrl)

BlackholeUnpackGprs == Gprs(0)
BlackholeMathGprs == Gprs(1)
BlackholePackGprs == Gprs(2)

\* Start addresses of the cores are debug registers here.
BlackholeDebug ==
  Layout(185, << <<0..4>> >>) \cup Bits("debug", \h234, 0..2) \cup Bits("debug", \h23C, 0..0)
  \cup Whole("debug", Words(\h0, \h20) \cup Words(\h30, \h3C) \cup Words(\h48, \h94)
                        \cup Words(\hA0, \hB4) \cup Words(\hF0, \hF8) \cup Words(\h100, \h124)
                        \cup {\h1B0} \cup Words(\h1C0, \h1C8) \cup {\h1D0, \h1D4}
                        \cup Words(\h1E0, \h1E8) \cup Words(\h1F0, \h230) \cup {\h238}
                        \cup Words(\h240, \h248))

BlackholeWorker ==
  BlackholeTileDescriptors \cup BlackholeUnpackConfigs \cup BlackholePackers \cup BlackholeMath
    \cup BlackholeUnpackGprs \cup BlackholeMathGprs \cup BlackholePackGprs \cup BlackholeDebug
---------------------------------------------------------------------------
(* Network interface units, and the other blocks.                          *)

WormholeNiu ==
  Whole("status", Words(0, \h40) \cup {\h80} \cup Words(\hC0, \hF4))
  \cup Whole("niu config", Words(0, \h38))
  \cup Whole("control", Words(\h40, \h50)
                          \cup UNION {Words(b, b + \h30) : b \in Every(\h400, 0, \hC00)})

\* The four command buffers are 0x800 apart, and have gaps.
CommandBuffers ==
  UNION {Words(b, b + \h34) \cup Words(b + \h40, b + \h48) : b \in Every(\h800, 0, \h1800)}

NiuOf(control) ==
  Whole("status", Words(0, \h40) \cup {\h80} \cup Words(\hC0, \hF4))
  \cup Whole("niu config", Words(0, \h7C))
  \cup Whole("control", Words(\h50, \h60) \cup {\h400, \h480} \cup Words(\h4A0, \h4A8)
                          \cup Every(\h40, \h500, \h5C0) \cup control)
BlackholeNiu == NiuOf(CommandBuffers)
QuasarNiu == NiuOf(CommandBuffers)

WormholeEth ==
  Layout(157, << <<0..4>>, <<AllBits>>, <<AllBits>>, <<AllBits>>, <<0..2>>, <<AllBits>>,
                 <<0..0>> >>)
  \cup Whole("debug", Words(\h48, \h64) \cup {\h6C, \h78} \cup Words(\h80, \h8C)
                        \cup Words(\hA0, \hA8) \cup {\h1B0})

BlackholeEth ==
  Layout(185, << <<0..4>> >>)
  \cup Whole("debug", Words(\h48, \h64) \cup {\h6C, \h78} \cup Words(\h80, \h8C)
                        \cup Words(\hA0, \hA8) \cup {\h1B0})
  \cup Whole("risc control", Words(0, \hC) \cup Words(\h20, \h30) \cup Words(\h40, \h50)
                               \cup {\h60})

BlackholeDram ==
  Whole("debug", Words(0, \h20) \cup Words(\h30, \h3C) \cup Words(\h48, \h94)
                   \cup Words(\hA0, \hBC) \cup {\h1B0, \h1D0, \h1D4} \cup Words(\h1E0, \h1E8)
                   \cup Words(\h1F0, \h21C))
  \cup Whole("risc control", {0, 4} \cup Words(\h10, \h24) \cup Words(\h40, \h58)
                               \cup Words(\h60, \h78))

ArcOffsets == Words(\h60, \h7C) \cup {\h100, \h104, \h10C}
WormholeArc == Whole("arc reset", ArcOffsets) \cup Whole("arc csm", {0}) \cup Whole("arc rom", {0})
BlackholeArc == Whole("arc reset", ArcOffsets) \cup Whole("arc csm", {0}) \cup Whole("arc rom", {0})
---------------------------------------------------------------------------
(* Quasar: a NEO, and the overlay of a worker.                             *)

QuasarNeo ==
  Whole("debug", Words(\h28, \h88) \cup Words(\hB8, \h10C) \cup Words(\h114, \h11C))
  \cup UNION {Bits("debug", o, 0..3) : o \in {\h110, \h258, \h270}}

ClusterControl ==
  Whole("cluster", Every(8, 0, \h38) \cup Words(\h40, \hD0) \cup Every(8, \hD8, \h118)
                     \cup Words(\h11C, \h130) \cup Every(8, \h138, \h170) \cup Words(\h174, \h1C4))
ControlStatus == Whole("csr", Words(0, \h134))
ClusterBounds == Whole("cluster", Words(\h338, \h350))

\* Two interfaces of 16 tile counter groups, here in three parts each.
TileCounters(base, groups) ==
  UNION {LET g == base + \h40 * n IN
         Whole("tile counters", Words(g + 4, g + \h1C) \cup {g + \h38, g + \h3C}) : n \in groups}
LlkInterfaceLow == TileCounters(0, 0..4)
LlkInterfaceMiddle == TileCounters(0, 5..9)
LlkInterfaceHigh == TileCounters(0, 10..15)
LlkInterface1Low == TileCounters(\h400, 0..4)
LlkInterface1Middle == TileCounters(\h400, 5..9)
LlkInterface1High == TileCounters(\h400, 10..15)

DebugModule ==
  Whole("debug", {\h10, \h14, \h80, \h84, \hF0, \hF4, \h100} \cup Words(\h40, \h4C)
                   \cup Words(\h54, \h60) \cup Words(\hE0, \hE8))
  \cup Whole("smn", {\h79B0})

QuasarOverlay ==
  ClusterControl \cup ControlStatus \cup ClusterBounds \cup LlkInterfaceLow
    \cup LlkInterfaceMiddle \cup LlkInterfaceHigh \cup LlkInterface1Low
    \cup LlkInterface1Middle \cup LlkInterface1High \cup DebugModule
============================================================================
