---------------------------- MODULE SignalTables ----------------------------
(***************************************************************************)
(* The debug bus signals of the blocks (debug_bus_signal_map, group_map).  *)
(* A group is given by layouts, each of up to four words of 32 bits.  A    *)
(* word lists the widths of its signals from bit 0 on; a negative width is *)
(* a gap.  Words in joined end with a signal that goes on as the first of  *)
(* the next word: a combined signal.  Where two signals of a group share   *)
(* bits, the group has several layouts.  A table is a function from the    *)
(* selection of a group (daisy_sel, sig_sel) to its layouts.               *)
(***************************************************************************)
EXTENDS Integers, Sequences, SequencesExt, TLC

Rep(n, item) == [i \in 1..n |-> item]
Ones(n) == Rep(n, 1)
Full == <<32>>
None == <<>>

LayoutOf(words, joined, across) == [words |-> words, joined |-> joined, across_groups |-> across]
Signals(words, joined) == <<LayoutOf(words, joined, FALSE)>>
AcrossGroups(words, joined) == <<LayoutOf(words, joined, TRUE)>>
AllOf(daisy_sel, sig_sels, layouts) == [g \in {daisy_sel} \X sig_sels |-> layouts]

Abs(n) == IF n < 0 THEN -n ELSE n
BitsBefore(widths, i) == FoldLeft(LAMBDA n, width : n + Abs(width), 0, SubSeq(widths, 1, i - 1))

\* The word and item where the signal starts whose part comes first in word w.
Origins(layout) ==
  LET f[w \in 1..4] ==
        IF w - 1 \notin layout.joined THEN <<w, 1>>
        ELSE IF Len(layout.words[w - 1]) = 1 THEN f[w - 1]
        ELSE <<w - 1, Len(layout.words[w - 1])>>
  IN f

\* The descriptions of a table; a part is named for where its signal starts.
Descriptions(table) ==
  UNION {UNION {UNION {UNION {
    LET layout == table[g][l]
        widths == layout.words[w]
        origin == IF i = 1 THEN Origins(layout)[w] ELSE <<w, i>>
        from == BitsBefore(widths, i)
    IN IF widths[i] < 0 THEN {}
       ELSE {[group |-> g, name |-> <<l, origin>>, part |-> w - origin[1], word |-> w - 1,
              mask |-> from..(from + widths[i] - 1), across_groups |-> layout.across_groups]}
    : i \in DOMAIN table[g][l].words[w]} : w \in DOMAIN table[g][l].words}
    : l \in DOMAIN table[g]} : g \in DOMAIN table}
---------------------------------------------------------------------------
(* The debug bus of a core: a shows its fetch, its memory and the pc that  *)
(* it committed, b its decoder; c and d are of the threads of a Tensix.    *)

GroupA(memory) == Signals(<< <<31, 1>>, memory, <<30, 1, 1>>, <<31, 1>> >>, {})
GroupB(decoded) ==
  Signals(<< <<5, -3, 1, -1, 5, -3, 1, -1, 5, -3, 1>>, <<30, 1, 1>>, Full, decoded>>, {3})
GroupC == Signals(<< <<1, 1, -13, 1, 1, 13>>, None, <<-16, 16>>, <<6, 4, 4, 4, 4, 1>> >>, {3})
GroupD ==
  Signals(<< <<-23>> \o Ones(9), <<8, 8, -3, 13>>, <<19, 1, 1, 1, 10>>, <<22, 1, 3, 3, 1, 1>> >>,
          {2, 3})
PcInA == Signals(<< <<31>> >>, {})
PcInB == Signals(<<None, <<30>> >>, {})
Memory3 == <<30, 1, 1>>
Decoded == <<5, 1, -1, 1, 1, 1>>
DecodedBrisc == <<5, 1, 1, 1, 1, 1>>

\* The signal of the FIFO of a pc buffer goes on in another group.
FifoHigh == AcrossGroups(<< <<23>> >>, {})
FifoLow == AcrossGroups(<<None, None, None, <<-23, 9>> >>, {})

\* The address counters of an unpacker or of the packers on a channel.
AddressCounters == Signals(<< <<18, 14>>, <<4>>, <<13, -3, 13>>, <<8, 8, 8, 8>> >>, {1})
---------------------------------------------------------------------------
(* Wormhole.                                                               *)

WormholeBriscBus ==
  (<<7, 10>> :> GroupA(<<30, 1>>) \o PcInA) @@ (<<7, 11>> :> GroupB(DecodedBrisc))
  @@ (<<7, 1>> :> Signals(<< <<1, 1, 15, 1, 1, 13>>, <<2, 15, 15>>, <<15, 15, 2>>,
                             <<15, 4, 4, 4, 4, 1>> >>, {1, 3}))

WormholeTrisc0Bus ==
  (<<7, 12>> :> GroupA(Memory3) \o PcInA) @@ (<<7, 13>> :> GroupB(Decoded))
  @@ (<<7, 18>> :> GroupC \o FifoLow) @@ (<<7, 19>> :> GroupD)
WormholeTrisc1Bus ==
  (<<7, 14>> :> GroupA(Memory3) \o PcInA) @@ (<<7, 15>> :> GroupB(Decoded))
  @@ (<<7, 20>> :> GroupC) @@ (<<7, 21>> :> GroupD \o FifoHigh)
WormholeTrisc2Bus ==
  (<<7, 16>> :> GroupA(Memory3) \o PcInA) @@ (<<7, 17>> :> GroupB(Decoded))
  @@ (<<7, 22>> :> GroupC) @@ (<<7, 23>> :> GroupD \o FifoHigh)
WormholeNcriscBus ==
  (<<7, 24>> :> GroupA(Memory3) \o PcInA) @@ (<<7, 25>> :> GroupB(Decoded))

WormholeFrontendThread ==
  Signals(<< <<2, 1, 1, 2, 4, 8, 1, 1, 2, 4>> \o Ones(6),
             <<1, 1, 1, 2, 4, 1, 1, 1, 1, 2, 1, 1, 4, 1, 1, 9>>, <<23>> \o Ones(9)>>, {2})
WormholeFrontends == AllOf(1, {4, 8, 12}, WormholeFrontendThread)

WormholeCounters == AllOf(6, 0..5, AddressCounters)

RwcStatus ==
  Signals(<< <<-1, 6, 6, 6, 6, 7>>, <<5, 12, 12, 3>>, <<9, 3, -1, 3, 3, 3, -1, 1, -3, 2, 3>>,
             <<-1, 3, 3, 3, 3>> \o Ones(16)>>, {1, 2}) \o AcrossGroups(<< <<1>> >>, {})
RwcControl ==
  Signals(<< <<24, 1, 7>>, <<17, 8, 7>>, <<17, 8, 3>> >>, {})
  \o AcrossGroups(<<None, None, <<-29, 3>>, Full>>, {3})
WormholeRwc ==
  (<<3, 0>> :> RwcControl) @@ (<<3, 1>> :> RwcStatus)
  @@ (<<3, 2>> :> Signals(Rep(3, <<6, -2, 6, -2, 6, -2, 6>>) \o << <<10, -6, 10>> >>, {}))
  @@ (<<3, 3>> :> Signals(Rep(2, <<10, -6, 10>>), {}))
  @@ (<<3, 4>> :> Signals(<<None, <<-26, 2, 2, 2>> >>, {}))

WormholeLanes == <<7, 28>> :> Signals(<<Ones(32)>>, {})
WormholeL1Ports ==
  (<<8, 5>> :> Signals(<< <<17, 15>>, <<2, 17, 13>>, <<4, 17>> >>, {2}))
  @@ (<<8, 3>> :> Signals(<< <<8, 17, 7>>, <<10, 17, 5>>, <<12>> \o Ones(20), Ones(12)>>, {1, 2}))
  @@ (<<8, 2>> :> Signals(<< <<17, 15>>, <<2, 17, 13>>, <<4, 17, 11>>, <<6, 17, 9>> >>, {1, 2, 3}))
WormholeSourceAccess ==
  <<6, 9>> :> Signals(<<None, None, <<-20, 1, 1, -4, 1, 1, 1, -1, 1>>,
                        <<-4, 1, -8, 1, 1, 1, 1, -1, 1>> >>, {})

WormholeWorkerBus ==
  WormholeBriscBus @@ WormholeTrisc0Bus @@ WormholeTrisc1Bus @@ WormholeTrisc2Bus
  @@ WormholeNcriscBus @@ WormholeFrontends @@ WormholeCounters @@ WormholeRwc @@ WormholeLanes
  @@ WormholeL1Ports @@ WormholeSourceAccess

WormholeEthBus ==
  (<<7, 18>> :> GroupA(Memory3) \o PcInA) @@ (<<7, 19>> :> GroupB(Decoded))
---------------------------------------------------------------------------
(* Blackhole.                                                              *)

BlackholeBriscBus ==
  (<<7, 10>> :> GroupA(Memory3)) @@ (<<7, 11>> :> GroupB(DecodedBrisc) \o PcInB)
BlackholeTrisc0Bus == (<<7, 12>> :> GroupA(Memory3)) @@ (<<7, 13>> :> GroupB(Decoded) \o PcInB)
BlackholeTrisc1Bus == (<<7, 14>> :> GroupA(Memory3)) @@ (<<7, 15>> :> GroupB(Decoded) \o PcInB)
BlackholeTrisc2Bus == (<<7, 16>> :> GroupA(Memory3)) @@ (<<7, 17>> :> GroupB(Decoded) \o PcInB)
BlackholeNcriscBus == (<<7, 24>> :> GroupA(Memory3)) @@ (<<7, 25>> :> GroupB(Decoded) \o PcInB)

BlackholeThread0Bus ==
  (<<7, 18>> :> GroupC)
  @@ (<<7, 19>> :> Signals(<< <<-23>> \o Ones(9), <<8, 8, -3, 13>>, <<19, 1, 1, 1>>,
                              <<22, 1, 3, 3, 1, 1>> >>, {2}))
BlackholeThread1Bus == (<<7, 20>> :> GroupC) @@ (<<7, 21>> :> GroupD)
BlackholeThread2Bus == (<<7, 22>> :> GroupC) @@ (<<7, 23>> :> GroupD \o FifoHigh)

\* A counter is a word; the first two words have a second name in some groups.
PerfCounters == Signals(Rep(4, Full), {})
RawCounters == PerfCounters \o Signals(<<Full, None, Full, Full>>, {})
RawCounterPair == PerfCounters \o Signals(Rep(2, Full), {})

\* The frontend of a thread: third gives the start of the third word.
FrontendHigh ==
  Signals(<< <<-4, 1, 1, 1, 1>>, Full, Full, Full>>, {}) \o Signals(<<Full>>, {})
  \o AcrossGroups(<< <<4>> >>, {})
FrontendLow(third, joined, counters) ==
  Signals(<< <<2, 1, 1, 2, 1, 5, 1, 1, 2>> \o Ones(10) \o <<2, 1, 1, 1, 1>>,
             <<1, 2, 1, 1, 1, 1, 1, 24>>, third \o <<8, 1, 1, 2, 1>>,
             <<2, 1, 1, 1, 1, 1, 1, 8, 1, 1, 2, 3, 1, 1, 1, 1, 1>> >>, joined)
  \o counters \o AcrossGroups(<<None, None, None, <<-28, 4>> >>, {})
BlackholeFrontend0 ==
  (<<1, 13>> :> FrontendHigh)
  @@ (<<1, 12>> :> FrontendLow(<<8, -1>> \o Ones(10), {2, 3},
                               Signals(<<Full, Full, <<-24, 1>>, Full>>, {})
                               \o Signals(<<None, None, Full>>, {})))
BlackholeFrontend1 ==
  (<<1, 9>> :> FrontendHigh)
  @@ (<<1, 8>> :> FrontendLow(<<8>> \o Ones(11), {2}, PerfCounters))
BlackholeFrontend2 ==
  (<<1, 5>> :> FrontendHigh)
  @@ (<<1, 4>> :> FrontendLow(<<8>> \o Ones(11), {2, 3}, PerfCounters))

BlackholeStalls0 == (<<1, 11>> :> RawCounters) @@ (<<1, 10>> :> RawCounterPair)
BlackholeStalls1 == (<<1, 7>> :> RawCounters) @@ (<<1, 6>> :> RawCounterPair)
BlackholeStalls2 ==
  (<<1, 3>> :> RawCounters) @@ (<<1, 2>> :> RawCounterPair)
  @@ (<<1, 1>> :> Rep(2, LayoutOf(<<None, Full, Full, Full>>, {}, FALSE)))

BlackholeThcon ==
  (<<2, 16>> :> Signals(<< <<1, 16, 4, 2, 1, 1, 1, 6>> >>
                        \o Rep(2, <<10, 4, 2, 1, 1, 4, 2, 1, 1, 6>>)
                        \o << <<10, 4, 1, 1, 2>> >>, {}))
  @@ AllOf(2, {0, 2, 4, 6, 8, 10, 12, 14}, Signals(Rep(4, Full), {1, 2, 3}))

BlackholeRwcPipes ==
  (<<3, 7>> :> Signals(<< <<3, 1, 10, 10, 6, 2>>, <<4, 2, 3, 2, 21>>, <<11>> >>, {1, 2}))
  @@ (<<3, 6>> :> Signals(<< <<1, 4, 2, 1>>, <<4, 4, 2, 4, 14, 1, 1, 1, 1>>, <<4, 4, 4, 2, 4, 14>>,
                             Ones(5)>>, {}))
  @@ (<<3, 5>> :> Signals(<< <<-4, 1, 2>>, None, <<-6, 1, 1, 3, 3, 5, 5, 1, 1, -2, 4>>,
                             <<2, 1, 3, 6, 1>> >>, {3}))
  @@ (<<3, 4>> :> Signals(<< <<1, 2, 10, 6, 6, -1, 6>>, <<26, 2, 4>>,
                             <<2>> \o Ones(7) \o <<3, 3, 1, 2>> \o Ones(11),
                             <<-2, 4, 4, 4, 4, 1, 1>> >>, {1, 2}))

\* rwc0_dst/0 ends the group (3, 3) and rwc0_dst/1 starts (3, 2) without the
\* mark of a signal across groups: each is a signal of its group.
BlackholeRwcCoordinates ==
  (<<3, 3>> :> Signals(<< <<2, 10, 10, 10>>, <<10, 10>> >>, {}))
  @@ (<<3, 2>> :> Signals(<< <<6, -4, 6, -8, 6, 2>>, <<4, -4, 6, -4, 6, -4, 4>>,
                             <<2, -4, 6, -8, 6, 6>>, <<-4, 6, -4, 6, -4, 8>> >>, {1, 2}))
BlackholeRwcStatus == (<<3, 1>> :> RwcStatus) @@ (<<3, 0>> :> RwcControl)

BlackholeIssueHigh == AllOf(4, {2 * n : n \in 1..11}, PerfCounters)
BlackholeIssueLow == AllOf(5, {2 * n : n \in 0..7}, PerfCounters)

BlackholeAdcs ==
  (<<6, 11>> :> Signals(<< <<-1, 8>> >>, {}))
  @@ (<<6, 10>> :> Signals(<<None, None, <<-17, 1, 1, 1, 1, 1, 3, 3, 3, 1>>,
                             <<2, 1, 10, -2, 1, 1, 8>> >>, {3}))
  @@ (<<6, 9>> :> Signals(<< <<-28, 4>>, <<8, 8, 16>>, <<4, 4, 4, 4>>,
                             <<2, 2, 1, 1, 1, 2, 2, 1, 1, 2, 2, 2, 1, 1, 5, 1, 1, 2>> >>, {1})
                  \o AcrossGroups(<< <<28>> >>, {}))
  @@ (<<6, 8>> :> Signals(<< <<4, 28>>, Full, <<4, 24>> >>, {1, 2})
                  \o AcrossGroups(<<None, None, <<-28, 4>>, Full>>, {3}))
  @@ (<<6, 7>> :> Signals(<<None, <<-26, 6>>, <<4, 1>> >>, {2}))
  @@ (<<6, 6>> :> Signals(<<None, None, <<-31, 1>>, <<1, 1, 1, 2, 8, 4>> >>, {}))
BlackholeCounters == AllOf(6, 0..5, AddressCounters)

NocControl ==
  Signals(<< <<1, 1, -17, 1, 1, 11>>, <<6>>, None, <<-8, 7, 4, 4, 4, 4, 1>> >>, {1})
BlackholeSfpu ==
  (<<7, 28>> :> Signals(<<Rep(8, 4), <<-8, 4, 14, 6>>, <<10, -2, 1>> >>, {2}))
BlackholeNocControl == AllOf(7, {1, 27}, NocControl)
BlackholeInstructionCaches ==
  <<7, 26>> :> Signals(<<Ones(11) \o <<2>> \o Ones(5) \o <<-7>> \o Ones(7),
                         <<1, 1, 1, 1, 2, 1, 1, -2, 1, -7>> \o Ones(11) \o <<2, 1>>,
                         <<1, 1, 1, 1, -7>> \o Ones(11) \o <<2>> \o Ones(5),
                         <<-4>> \o Ones(11) \o <<2>> \o Ones(5)>>, {})

BlackholeL1Counters == AllOf(7, {0} \cup 2..9, PerfCounters)

BlackholeL1Addresses ==
  (<<8, 13>> :> Signals(<< <<-15, 17>>, <<17, 15>>, <<2>> >>, {2})
                \o AcrossGroups(<< <<15>> >>, {}))
  @@ (<<8, 11>> :> Signals(<< <<-7, 17, 8>>, <<9, 17, 6>>, <<11, 17, 4>>, <<13, 17>> >>, {1, 2, 3})
                   \o AcrossGroups(<< <<7>>, None, None, <<-30, 2>> >>, {}))
  @@ (<<8, 10>> :> Signals(<< <<-16, 16>>, <<1, 17, 14>>, <<3, 17, 12>>, <<5, 17>> >>, {1, 2, 3})
                   \o AcrossGroups(<< <<16>>, None, None, <<-22, 10>> >>, {}))
  @@ (<<8, 9>> :> Signals(<< <<-8, 17, 7>>, <<10, 17, 5>>, <<12, 17, 3>>, <<14, 17>> >>, {1, 2, 3})
                  \o AcrossGroups(<< <<8>>, None, None, <<-31, 1>> >>, {}))
  @@ (<<8, 8>> :> Signals(<< <<17, 15>>, <<2, 17, 13>>, <<4, 17, 11>>, <<6, 17>> >>, {1, 2, 3})
                  \o AcrossGroups(<<None, None, None, <<-23, 9>> >>, {}))
  @@ (<<8, 7>> :> Signals(<< <<-15, 17>>, <<17, 15>>, <<2, 17, 13>>, <<4, 17, 11>> >>, {2, 3}))
BlackholeL1Access ==
  (<<8, 6>> :> Signals(<<Full, <<10, 22>>, <<20, 12>>, <<30>> >>, {1, 2, 3}))
  @@ (<<8, 5>> :> Signals(<< <<16, 16>> >>, {})) @@ AllOf(8, 0..4, Signals(Rep(4, <<16, 16>>), {}))

Unpackers == [g \in {12, 13} \X {1} |-> Signals(<< <<-28, 1>>, <<-25, 1, 3, 3>> >>, {})]
UnpackersEmpty == [g \in {12, 13} \X {0} |-> Signals(<<None, <<-28, 1, 1, 1, 1>> >>, {})]
BlackholePacker ==
  (<<10, 3>> :> Signals(<<None, <<-20, 12>>, <<20, 12>>, <<20>> >>, {2, 3}))
  @@ (<<10, 2>> :> Signals(<< <<4>> >>, {})) @@ (<<10, 0>> :> Signals(<<None, Full>>, {}))
  @@ (<<11, 2>> :> Signals(<< <<2, 1, 13, 13, 3>>, <<1, 16, 15>>, <<1, 16>> >>, {1, 2}))
BlackholeUnpackers == Unpackers @@ UnpackersEmpty
BlackholePacked ==
  (<<14, 6>> :> Signals(<< <<16, 16>>, <<8>> >>, {1}))
  @@ (<<14, 5>> :> Signals(<<None, <<-2, 30>>, Full>>, {2}) \o AcrossGroups(<<Full, <<2>> >>, {1}))
  @@ (<<14, 4>> :> Signals(<<None, None, Ones(32), Ones(4)>>, {})
                   \o AcrossGroups(<<None, None, None, <<-4, 28>> >>, {}))

BlackholeWorkerBus ==
  BlackholeBriscBus @@ BlackholeTrisc0Bus @@ BlackholeTrisc1Bus @@ BlackholeTrisc2Bus
  @@ BlackholeNcriscBus @@ BlackholeThread0Bus @@ BlackholeThread1Bus @@ BlackholeThread2Bus
  @@ BlackholeFrontend0 @@ BlackholeFrontend1 @@ BlackholeFrontend2 @@ BlackholeStalls0
  @@ BlackholeStalls1 @@ BlackholeStalls2 @@ BlackholeThcon @@ BlackholeRwcPipes
  @@ BlackholeRwcCoordinates @@ BlackholeRwcStatus @@ BlackholeIssueHigh @@ BlackholeIssueLow
  @@ BlackholeAdcs @@ BlackholeCounters @@ BlackholeSfpu @@ BlackholeNocControl
  @@ BlackholeInstructionCaches @@ BlackholeL1Counters @@ BlackholeL1Addresses
  @@ BlackholeL1Access @@ BlackholePacker @@ BlackholeUnpackers @@ BlackholePacked

EriscBus(a, b) == (<<7, a>> :> GroupA(Memory3)) @@ (<<7, b>> :> GroupB(Decoded) \o PcInB)
BlackholeEthBus == EriscBus(18, 19) @@ EriscBus(20, 21)
BlackholeDramBus == EriscBus(18, 19)
---------------------------------------------------------------------------
(* Quasar: the pcs of the cores of a neo, and no group_map.                *)

QuasarNeoBus == AllOf(7, {11, 13, 15, 17}, PcInB)
=============================================================================
