# Verification of tt-exalens

tt-exalens is a host-side debugger for Tenstorrent chips (Wormhole, Blackhole,
Quasar).  A Python process reaches the chips through the UMD driver, reads and
writes their memories over a network on chip (NOC), halts, resumes and steps
their RISC-V cores through debug registers, and offers all that as a command
line, as a library, through a GDB server and through a remote (Pyro) server.

This directory holds TLA+ modules for the parts of it that keep state and can
go wrong in an order nobody wrote a test for, TLC configurations that check
them on small instances, and proofs, checked by TLAPS, of what matters most for
every value of the constants.  `PROJECT.json` lists the components, the runs,
the source lines of every definition, the hazards and the findings.

    tlc -workers 2 -config MCGdbSession_safety.cfg MCGdbSession.tla
    tlapm GdbSession_proofs.tla

Paths below are relative to `src/ttexalens/`.

## 1. The system

### Processes and shared state

One ttexalens process has a main thread (the command line, or the program that
uses the library), the thread that a `GdbServer` is, and, when it serves
others, Pyro threads.  They share one `Context`, its `Device` objects, and the
chip.  No lock orders what they do to a core or to the active NOC: the few
locks of the code guard registries (`umd_api.py`, `server.py`), a cache
(`memory_map.py`) and the choice of a port (`gdb_communication.py`).  The chip runs on its own: cores execute, stop at
breakpoints, NOCs hang, and other host programs reset and start cores.

Every access to the chip may fail.  A failed access raises
`TimeoutDeviceRegisterError` or another `HardwareError`, which derives from
`BaseException` and so passes every `except Exception` of the code
(`exceptions.py`).  Much of what is hard here comes from that one decision.

### Components

| component | state it keeps | operations | what is hard | what makes it correct |
|---|---|---|---|---|
| Baby RISC debugging (`hardware/baby_risc_debug.py`) | none on the host but locals of nested contexts; on the chip: reset bit, halt, watchpoints, the word at the start address | halt, cont, step, ensure_halted, set watchpoint, private memory access | nested contexts, exceptions in any step and in `finally` blocks, two threads on one core, others' resets | bodies run on a halted core; a core is given back as it was found; the start word is restored |
| Architecture variants (`hardware/{wormhole,blackhole,quasar}/baby_risc_debug.py`) | none | overrides of cont, step, read_gpr | workarounds skipped when an inner call goes to the base class | every resume runs the workaround of its architecture |
| NOC selection and failover (`device.py`, `context.py`, `_lib_helpers.py`) | active NOC per device, NOC of the context, NOC of the initialization, the prompt | access with and without a NOC, `go`, failover, callback | the loop walks from a NOC that other threads move; the setter compares with a stale copy; a switch fails between two devices | every NOC is tried once; a healthy NOC is found; the active NOC moves only for a reason; the prompt shows it |
| GDB server (`gdb/gdb_server.py`, `gdb_data.py`) | process ids, debugged processes, current process, pending stop statuses, the writer's buffer, stop event | attach, detach, Hg, vCont, breakpoints, process list, stop, start | cores stop and are reset meanwhile; a request fails halfway; a break, a disconnect, `gdb stop` during vCont; statuses outlive the run that made them | debugged cores are halted between requests; ids are stable; every stop is told; a detach gives cores back; the server goes on, and stops when asked |
| GDB packet layer (`gdb/gdb_communication.py`) | input buffer and position, output buffer | read and parse packets, acknowledge, checksum, break | a packet split over two reads; a break between packets | each packet sent is delivered once, whole |
| GDB file server (`gdb/gdb_file_server.py`) | open descriptors | open, close, pread, pwrite, stat | descriptors that outlive a client | a descriptor names the file it was opened for |
| GDB client wrapper (`gdb/gdb_client.py`, `cli_commands/gdb.py`) | none | finds and starts gdb | - | - |
| Safe access validation (`device.py`, `memory_map.py`) | memory maps (constant) | validate an access range | ranges over several memory blocks | an access is allowed exactly when every byte of it is safe |
| UMD device and API (`umd_device.py`, `umd_api.py`) | device registry, remote ETH core in use | open, read, write, reconfigure ETH, recover from SIGBUS, reinitialize | retries, a time-out that is not an `Exception`, re-initialization halfway | a transient failure is retried, a reset device is replaced everywhere |
| Word and byte access (`hardware/risc_debug.py`, `memory_access.py`) | none | read and write byte ranges of private memory | unaligned prefix and suffix | exactly the bytes of the range change |
| ELF loader (`elf_loader.py`) | reset bits, start address, loaded ELFs | load, verify, run | failures between reset, load and start | a core runs only a program that was loaded whole |
| Quasar Rocket debugging (`hardware/quasar/rocket_core_debug.py`) | program buffer, scratch register, abstract command status | halt, resume, step, register and memory access | scratch register clobbered between steps | registers other than the one written are preserved |
| Remote access server (`server.py`) | registry of exposed objects | call, expose, release | identity reused after collection | a proxy keeps meaning the object it was made for |
| Debug bus and L1 sampling (`debug_bus_signal_store.py`) | one select register, a sampling buffer in L1 | select, read, sample | another thread selects in between | the value read is of the signal selected |
| Tensix injection (`debug_tensix.py`, `pack_unpack_regfile.py`) | FIFO of an instruction port | push, poll, read register file | polls for ever | instructions arrive once and in order |
| ARC messages (`hardware/arc_block.py`, `arc_dbg_fw.py`) | mailbox registers | send, wait for the answer | a late answer taken for the next one | an answer belongs to its message |
| Register stores and coordinates (`register_store.py`, `coordinate.py`) | none; the register selected for reading on the chip | read and write registers, translate coordinates | registers share words; four paths to a register | a value that is written is read back, and its neighbours keep theirs |
| Search command (`cli_commands/search-memory.py`) | none | search ranges of memory in chunks | matches across two reads, limits, gaps between blocks | every match is found, once |
| Register maps, blocks and memory maps, debug bus signals (`hardware/<architecture>/`) | constant tables | lookups | maps that overlap, registers outside the map of their block, parts of signals apart from each other | the checks and the registers agree; a sample of a group holds its signals |
| Performance counters, NIU registers, other hardware descriptions | none | reads | - | - |
| Command line, front end and utilities | the UI state | parse, dispatch, format | - | - |
| ELF and DWARF reader (`cpp/`) | the parsed file | parse, evaluate locations | input formats | - |

### Interactions

The command line, the library and the GDB server call `RiscDebug` objects,
which access a core's debug registers through `Device.noc_read/noc_write` or
the safe variants.  Those go through `_with_noc_failover` to a `UmdDevice`,
which talks to UMD.  The context is read for the default NOC and for the list
of loaded ELFs, from which the GDB server makes its process ids.  A failover
calls back into the UI to redraw the prompt.  The GDB server is owned by the
UI state: `gdb start` and `gdb stop` make and end it from the main thread.

## 2. The modules

| module | models | extends or uses |
|---|---|---|
| `BabyRiscDebug` | one core and the host threads that debug it | |
| `NocFailover` | devices, their NOCs, the context, several threads | |
| `GdbSession` | the GDB server thread, its clients, the cores, the owner | |
| `Watchpoints` | Z and z packets over the watchpoint slots of a core | implements `WatchpointSet` |
| `WatchpointSet` | what those packets promise: a bounded set of points | |
| `GdbPackets` | the packet layer over a byte stream in pieces, and its client | |
| `UmdTransport` | SIGBUS recovery, the search for a working ETH core, the device registry | |
| `RocketDebug` | the Rocket cores of a Quasar overlay and their debug module | |
| `WorkerDebug` | debug bus, L1 sampling, Tensix injection and register files of a block | |
| `HostLogic` | the data path of the host, one job at a time | the seven below |
| `ByteAccess` | byte ranges over words | |
| `SafeAccess` | memory maps and the checks of an access | |
| `MemorySearch` | the search command | `SafeAccess` |
| `GdbEncoding` | fields, bytes and registers in packets | |
| `RegisterAccess` | reads and writes of registers | |
| `ElfLoading` | sections, start address and start of an ELF file | `SafeAccess` |
| `DebugBus` | signals, groups and combined signals | |
| `RegisterMaps`, `NocBlocks`, `SignalTables` | the register maps, blocks, memory maps and signals of the chips | inputs of `HostLogic` |
| `MC*` | instances for TLC | |
| `HostAccess_proofs` | theorems about `NocFailover` and `HostLogic`, and their proofs | |
| `*_proofs` | theorems about the module of that name, and their proofs | |

How the modules fit together.  `BabyRiscDebug` is the layer that `GdbSession`
uses for halt, cont and step, there one access each; `GdbSession` knows of a
core's watchpoints only whether there are any, and `Watchpoints` has the slots.
`GdbPackets` delivers what `GdbSession` and `Watchpoints` receive as requests.
`NocFailover` is the layer above `UmdTransport`: an access that times out in
the one is an attempt of the other.  `HostLogic` composes the pure modules with
the tables of the chips.

### BabyRiscDebug

State.  `inReset`, `run` and `word` are the core: its bit of the soft reset
register, whether and by whom it is halted, and the instruction at its start
address.  Per thread, `pc` and `op` are the place in the code and the operation
called; `depth` and `wasHalted` are the open `ensure_halted` contexts and the
local `was_halted` of each; `guarded` says that the thread is inside the `try`
of `ensure_private_memory_access` and `saved` is its `saved_bytes`; `raised`
that an exception is propagating.  `entry`, `disturbed` and `faultedAt` are
history that properties read.

Actions.  One access to the chip is one step, because anything may happen
between two.  `Call` starts any of the operations; `HaltCheck`, `HaltCommand`
and `HaltVerify` are `halt`, used on its own and by `EnsureHalted`; `ContCheck`
and `ContCommand` are `cont`, on its own and in the `finally` of
`ensure_halted` (`ExitContext`).  `WriteWatchpointAddress` and
`WriteWatchpointSettings` show the nesting: the setter holds one context while
the settings update opens a second.  `ProbeReset` to `RestoreStartWord` are the
path of `ensure_private_memory_access` for a core that is in reset: the start
word is saved, an endless loop written in its place, reset released, the body
run halted, reset asserted, the word written back.  `Raise` is the unwinding:
the `finally` of the innermost context, then that of the private memory access.
`AccessLost`, and the second disjunct of `Complete`, are accesses that time
out without and with having had their effect.  `CoreStops` and
`OtherHostSetsReset` are the rest of the world.

### NocFailover

State.  `contextNoc`, `initNoc` and `noc_failover` are fields of `Context`;
`active_noc` is that of each `Device`; `shown` is the prompt; `hung` says which
NOCs of which device do not answer.  Per thread, the locals of
`_with_noc_failover` and of the setter loop.  `tried` and `healthy` are history.

Actions.  An access is started in one of the four ways the code has, which
differ in the NOC they name: `DefaultAccess` leaves it open (only these fail
over), `LibraryAccess` pins the NOC of the context, `ExplicitAccess` names one,
`TelemetryAccess` pins the NOC of the initialization.  Each attempt then
succeeds, times out or raises something else (`AttemptSucceeds`,
`AttemptTimesOut`, `AttemptFails`); publishing the new active NOC and the
callback are two steps.  `Go`, `SwitchNoc` and `NotifySwitch` are the setter
`Context.noc_id` with its early return and its loop over the devices, which an
assertion may end halfway.

### GdbSession

State.  `state`, `armed` and `elf` are the chip.  `process`, `last` and
`next_pid` are the process ids: `last` stands for `_last_available_processes`,
and `process[p]` is the core and ELF behind an id.  `debugging_threads`,
`current_process` and `vCont_pending_statuses` have their names from the code;
`leftover` says that the reply writer holds text that was never sent.  `pc`,
`op`, `todo`, `focus`, `thread_actions`, `processes_to_watch` and
`stop_watching` are the place and the locals of the request at hand.  `client`,
`break_sent` and `stopper` are the connection, the break character in it, and
the main thread in `gdb stop`.

Actions.  The thread accepts (`Accept`), starts a session, reads a message
(`CheckStop`, `ReadEnd`, `StrayBreak`) and handles it.  Requests that do not
touch a core, or touch it in one access, are one action (`ListProcesses`,
`SetThread`, `InsertWatchpoint`, `VContPending`); the others go core by core,
so that a core may stop, be reset or fail to answer in between: attach
(`VAttach`, `AttachHalt`), detach (`Detach` or `DetachAll`, then `DetachCheck`,
`DetachDisarm`, `DetachRelease`), vCont (`VCont`, `ApplyAction` per process,
`ApplyDone`, then the watch loop `WatchAgain`, `LookAt`, `RoundDone`, and
`HaltRest` per process).  Each request that names or lists processes
re-evaluates `available_processes`, which may hand out new ids.  `AccessFails`
ends a request with a `HardwareError`, which ends the thread; `RequestFails`
is any other exception, which becomes an error reply.

### Watchpoints

State.  `settings` and `address` are the slot registers of the core; `pc`,
`insert`, `request`, `watchpoints`, `slot` and `old_settings` the locals of the
handler of a Z or z packet; `reply` its answer.  `believed` is what the client
takes to be inserted.

Actions.  `Packet` is a request; `ReadSettings` copies all slots, `Search` finds
the slot with the point, or for an insertion the first free one; `WriteAddress`,
`ReadOldSettings` and `WriteSettings` are `__set_watchpoint` and
`__update_watchpoint_setting`.  `AccessFails` ends the server thread between any
two of them, and `NewClient` starts a session over the slots that are left.

`ImplementsSet` is the refinement: `PointSet == INSTANCE WatchpointSet WITH
Limit <- NumSlots`, where the points of the set are those that the slots hold.
It holds for clients that do not ask for two kinds of memory watchpoint at one
address: the handlers test single bits of the settings, and take an access
watchpoint for one of the other kinds.

### GdbPackets

State.  `wire` holds the pieces in which the client's bytes arrive, one per
read of the socket; `input_buffer`, `position` and the fields of the message
that is being read are those of `GdbInputStream`; `should_ack` tells the two
modes of acknowledgment apart.  `server` is where the server thread is,
`answers` what is under way to the client, `client` what it waits for.
`delivered`, `answered`, `torn`, `repeated` and `stray` are history.

Actions.  `ReadStep` is one turn of the parser (`Refill`, `EndOfStream`,
`ReadAck`, `ReadStart`, `ReadBody`, the two digits of the checksum, `Discard`);
`Handle` is `process_message`, with the acknowledgment after it; `SeeBreak` is
the look of vCont at the next byte, and `CoreStops` ends vCont.  `SendPacket`,
`SendBreak`, `Receive` and `Close` are the client, which sends a packet again
when it is refused.

### UmdTransport

State.  `epoch` counts resets of the system; a device works when its `handle`
is of this epoch and, if it is remote, when the ETH core `eth` it goes through
is among the `working` ones.  `lock` is `reset_lock`.  Per thread, `pc` and
`call` are the place and the locals; `note` and `renewed` are history.

Actions.  `Call`, then `Access` with its answer: success, an error, a time-out
or SIGBUS, which only what is wrong with the handle or the core explains, but
for `MaxFaults` of them.  `SelectEth` and `ProbeEth` are the search for a
working core, `AccessAgain` the access after it.  `Acquire`, `Discover`,
`Assign` and `Reinitialized` are the recovery from SIGBUS, which replaces the
devices of the registry one by one.  `Reset` and `LinkChanges` are the world.

### RocketDebug and WorkerDebug

A method of these classes is a straight line of register accesses with few
branches.  Each is written as the sequence of accesses it makes, its `script`;
an action carries out the next access on the registers of the hardware, and
`AccessFails` raises instead, at any of them, which leads through the `finally`
of `ensure_halted` in `RocketDebug`.  The hardware is external, and modelled as
the code uses it: an abstract command acts on the hart that was selected last
and fails unless it is halted; samples are taken, and instructions executed,
in the hardware's own time; the program of the block pushes instructions of its
own until the FIFO is claimed.

### HostLogic and its parts

The data path has no interleavings but many boundaries.  A behaviour of
`HostLogic` is one job and its answer (`AccessBytes`, `Check`, `SearchMemory`,
`Encode`, `Register`, `Load`, `Signal`), computed by the operators of the pure
modules and compared by the properties with a reference definition that does
not mention words, blocks, chunks or packets.  `MCHostLogic` enumerates the jobs:
every one of a small complete set, and those that the tables of the chips give:
every register with the base of its class (`RegisterMaps`, `NocBlocks`), every
memory map with the accesses at its boundaries, the cores with their memories
and start addresses, and every debug bus signal (`SignalTables`).

The tables are compressed where the source is regular: registers of one class
are given by ranges of offsets or by the bit ranges that a sequence of words is
divided into, signals by the widths of what a word consists of.  Names are left
out, and two names of the same bits are one register.

## 3. What the runs check

Passing runs, with the distinct states of the instance:

| run | instance | states | shows |
|---|---|---|---|
| `baby_risc_single` | 1 thread, 2 stops, 1 reset by others, 2 faults | 1.0 M | with one thread, whatever accesses are lost, bodies run halted, a core found halted stays halted, a core found running is resumed, the start word and the reset bit are given back |
| `noc_threads` | 2 threads, 1 device with 2 NOCs, `go` also to one it does not have | 1.1 M | an access with failover finds a healthy NOC and tries none twice while another thread moves the active NOC, which is always one the device has and moves only to one that answered; the prompt is right |
| `gdb_safety` | 2 cores, 1 reset or start by others, 1 failing access | 2.3 M | debugged cores are halted between requests and keep their ids, an exit is told only of a core that was reset, a detach gives cores back |
| `gdb_fair` | 2 cores, 1 reset, stop and start of the server, fair | 535 k | a break, `gdb stop` and the stop of a resumed core each end the watch loop of vCont |
| `watchpoints` | 2 slots, 2 addresses, 1 fault | 108 k | Z and z packets implement a bounded set of points, across sessions and failed requests |
| `gdb_packets` | 2 payloads, one escaped; 3 packets, 1 break, 1 torn packet, 1 error; both modes of acknowledgment, fair | 87 k | messages are delivered whole and in order, an answer belongs to its packet, and each packet is answered |
| `umd_transport` | 2 threads, a local and a remote device, 2 ETH cores, 2 calls, 1 reset, 1 fault, 1 link change, fair | 255 k | a reset is recovered from and every device renewed, the search finds a core that works, every call returns |
| `rocket` | 1 hart, 2 values, 3 calls, 2 faults | 829 k | registers keep their values, the hart is given back as it was found, a step is one instruction |
| `worker_debug` | 2 groups of 2 words, 3 lines of L1, 2 Tensix threads, FIFO of depth 2, 2 calls, 1 fault | 244 k | samples are those of the call, an instruction is executed once, a register file is read as it was |
| `host_logic` | every job | 415 k | each answer is that of the reference definition |

Violation runs, each a disagreement between the code and what it, or its
documentation, says:

| run | what happens |
|---|---|
| `noc_go` | after a failover `go -n 0` compares with the NOC the context remembers, which is still 0, and does nothing |
| `gdb_register_packet` | the packet by which GDB writes a register is answered E01: `read_hex` wants a character after the eight digits, which are the last of the packet |

Every property of a passing run has a mutant in its module: a definition next
to the one it replaces, changed as a plausible bug would change it (a dropped
check, a swapped branch, a loop that leaves one out), under which TLC finds the
property violated.

### Bounds

`BabyRiscDebug`: `MaxStops`, `MaxResets`, `MaxFaults` bound what the chip and
others do, not what the code does.  Two faults are the interesting number: one
to start the unwinding and one to hit a `finally`.  Two stops let the core
stop both before and during an operation.  Two is also the deepest nesting in
the code, `MaxDepth`; `TypeOK`, which is proved, says it is never exceeded.

`NocFailover` has no counter that grows, so nothing is capped.  Two NOCs are
what Wormhole and Blackhole list; three of them make the order of the rotation
visible, and are in the instance of `noc_go`.  The theorems cover the rest: any
number of threads, NOCs and devices.

`GdbSession`: `MaxResets` bounds resets and starts by others, `MaxFaults` the
failing accesses.  `MaxPid` is not a limit on the behaviour: an id is handed out
at most once for each core and once more for each start, since a core gets a
new one only when it was seen out of reset before, left the list or changed its
ELF, and came back; `next_pid + Cardinality(fresh) <= MaxPid + 1` is therefore
never what disables an evaluation of `available_processes`.  Two cores are what it takes for a request to fail, or a core to
stop, between one and the other.  vCont's choice of an action per process
covers every map from the debugged processes to continue, step or unchanged.

`Watchpoints`: two slots and two addresses with each kind of point fill the
slots, free them in the other order and leave gaps.  `MaxFaults` is the only
bound, sessions and packets are not counted.

`GdbPackets`: three packets are what it takes for a late answer to meet the
packet after next; `MaxTears` packets arrive in two pieces.  The payloads are
one character each: the command that resumes cores, and one that must be
escaped.

`UmdTransport`: a call of each thread, a reset during either, and a core or link
that changes during a search.  With two ETH cores the order of the search on an
N300, which begins with the second, differs from that of the list.

`RocketDebug` and `WorkerDebug`: `MaxCalls` lets a call meet what one that raised
has left behind, and the third of `RocketDebug` what the second made of it.  One
hart is enough for what is promised: a method selects its hart by `DMCONTROL`
only to halt, resume and step it (section 6).

`HostLogic` has no bounds of its own; a job is one step.  Byte ranges start at
each offset in two words and are up to nine bytes long, so that prefix, middle
and suffix take every combination.  Small maps have two blocks that touch,
overlap or leave a gap; searches are over every memory of six cells with two
values, with reads shorter than the pattern and longer than a block.

Deadlock checking is off where the system really ends.  In `gdb_safety` the
server thread may die of a `HardwareError`, and nothing can start the server
again in that instance; in `gdb_packets`, `umd_transport`, `rocket`,
`worker_debug` and `host_logic` the client or the host has made all its calls.

### Fairness

`GdbSession`: weak fairness of the server thread's own steps (`ThreadStep`) and
of the return of `join` when the thread has ended.  Reading from a client is not
among them: a client may stay silent for ever.  Nor are the cores assumed to do
anything.

`GdbPackets`: weak fairness of the server thread (`ReadStep`, `Handle`,
`SeeBreak`) and of `Receive`: the client reads what it is sent and sends again
what is refused.  Nobody has to send a packet or a break, and no core has to
stop, so that `PacketsAnswered` says nothing of a packet that resumed cores.

`UmdTransport`: weak fairness of what each thread does once called, since UMD
ends each access by its own time-out, and strong fairness of `Acquire`: a lock
of Python that is released again and again is passed on.  No reset, and no
repair of a link, has to happen.

`BabyRiscDebug`, `RocketDebug`, `WorkerDebug` and `NocFailover` state no
liveness: an operation is a finite sequence of accesses, or, in the loops that
poll the hardware, waits for something that nothing guarantees.

## 4. What is proved

The assumptions are those the modules state on their constants, and nothing
else; a theorem with a further hypothesis says so in its name and below.  TLC
evaluates each of them on the values of the runs, among these the tables of the
chips.

| module | obligations | theorems |
|---|---|---|
| `BabyRiscDebug_proofs` | 894 | 6 |
| `HostAccess_proofs` | 7861 | 13 |
| `GdbSession_proofs` | 1328 | 5 |
| `Watchpoints_proofs` | 583 | 4 |
| `UmdTransport_proofs` | 1311 | 5 |
| `WorkerDebug_proofs` | 3527 | 4 |
| `RocketDebug_proofs` | 2894 | 4 |
| `GdbPackets_proofs` | 4809 | 3 |

**BabyRiscDebug** (`BoundsAssumption`).

- `TypeCorrect`: the type invariant, for any set of threads and any bounds.
  It is not inductive alone: that `depth` stays within `MaxDepth` depends on
  where in the code each step is.  `IInv` adds `ControlOK`: `StackOK` (which
  depths are possible at which step of which operation) and `GuardOK` (where a
  thread can be inside the private memory access).
- `BodyRunsHaltedOneThread`: with one thread, the body of `ensure_halted` runs
  on a halted core, unless others reset it.  `IInv` adds that a core in reset
  is never halted; `HaltInv` joins the property, thread by thread, with the
  next one.
- `StoppedCoreStaysStoppedOneThread`: with one thread, an operation that finds
  the core halted (and is neither `cont` nor `step`) leaves it so.  `StoppedInv` adds
  `OwesNoCont`: the thread is on its way to no `cont`, and
  every context on its stack remembers a halted core.
- `StartWordRestoredOneThread`, `ResetSignalRestoredOneThread`,
  `RunningCoreResumedOneThread`: what an operation gives back, whatever accesses
  are lost on the way.  `OneInv` adds to `HaltInv`, for the only thread,
  `WordOK` (the start address holds the program's word, or the thread holds that
  word and is inside the `try` whose `finally` writes it back), `ResetOK` (a
  private access that has not raised has left the reset signal alone, or is on
  its way to put it back) and `ResumeOK` (a core that the host has halted
  belongs to the outermost `ensure_halted`, which recorded that it ran; the
  nested context of a watchpoint never halts the core itself).

All but the first have "one thread" as a hypothesis, and need it: with two
threads a `cont` that has already seen the core halted lands inside the other
thread's `ensure_halted` (section 6).

**NocFailover** (`DevicesAssumption`, `AvailableAssumption`: each device lists
at least one NOC and none twice).  All for any number of threads, devices and
NOCs.

- `ActiveNocIsAvailable`: from it, the index lookup that starts each failover
  never raises.
- `NocsTriedAtMostOnce`, `FailoverFindsHealthyNoc`: the walk around the ring.
  The invariant (`ThreadOK`) says that the NOCs tried so far are exactly those at the
  offsets walked, counted from a start index that is local to the thread, which
  is why a thread that moves the active NOC does not disturb it; and that what
  was tried and timed out is not healthy.
- `ActiveNocMovesToAnswer`: an action property, from the same invariant.
- `PromptIsCurrent`: the prompt shows the active NOC whenever nothing is under
  way.  `PromptInv` says who owes it: for a device whose prompt is stale some
  thread is between the assignment and the callback (`OwesCallback`), and a
  thread that pays its debt sets the prompt to what is active then, not to what
  it has assigned itself.
- `TypeCorrect`.

**GdbSession** (`SessionAssumption`).  All for any number of cores, ELF files,
resets and faults.

- `TypeCorrect`: includes that every id in use is below `next_pid`, for which
  the numbering of fresh processes has to be shown injective: lemmas on
  `Cardinality` of the cores before a core.
- `ProcessIdsAreStable`: a debugged process stays in `last`, on its core, with
  its ELF, however often `available_processes` is evaluated, until the core is
  reset.  `PidsInv` adds `OneProcessPerCore` (two ids of `last` are never of
  one core) and `AttachIntact` (the same for a process between `VAttach` and
  `AttachHalt`).
- `CoresAreHeld`: the debugged cores are halted between two requests, but for
  those reset and those of a request that failed halfway.  `HeldInv` follows
  the request: `HeldWaiting` between messages, `HeldDetaching` (only what is
  left to detach from, or already taken out of the session, may run) and
  `HeldRunning` (a core that vCont resumed is in `processes_to_watch`, or still
  in the part of it that is left to halt).
- `ExitsAreReal`: an exit is told only of a process whose core was reset.
  `ExitInv` follows the statuses that vCont gathers: it looks at debugged
  processes only, and these are intact until a reset.
- `DetachReleasesCores`: a core that was detached from is no longer halted by
  the host and has no breakpoints, unless it was reset.  `FreedInv` says of each
  process that a detach has taken up that it waits, is at hand, or is released;
  that it cannot be skipped needs `IInv`.

**Watchpoints** (`SlotsAssumption`).  For any number of slots, addresses and
failing accesses.

- `HandlersImplementSet`: the refinement `ImplementsSet`.  Every step of a
  handler is a step of `WatchpointSet` or a stutter; only the write that
  enables or disables a slot is not a stutter.
- `SlotsHoldNoPointTwice`, `BelievedPointsAreWatched`, `TypeCorrect`.  `IInv`
  says which values the settings can hold (`SlotsOK`), that the copy a handler
  searches still agrees with the slots (`CopyOK`), that the slot it has chosen
  is free or holds the point of the request (`ChosenOK`), and that what the
  client takes to be inserted is in some slot.

That the answer of a handler is one of four cases with conditions that exclude
each other was found by the proof: two arms of `Answer` used to overlap.

**UmdTransport** (`TransportAssumption`).  For any threads, devices and list of
ETH cores, and any number of resets and faults.

- `AllHandlesRenewed`, `SigbusIsHandled`, `LocalDevicesRecover`: SIGBUS leads to
  a re-initialization that leaves no device behind, and a SIGBUS that reaches the
  caller, or a failure of a local device, has another cause.  Handles only
  grow: the holder of `reset_lock` assigns handles as new as any that was
  promised, and those it has passed have theirs (`AssignOK`); a reset meanwhile
  makes the epoch pass them by, but takes back nothing (`HandlesOK`).
- `WorkingEthIsFound`: a search that nothing has disturbed and that ends without
  a core has seen each core fail.  `SearchOK` says that those passed so far are
  the ones that failed; `EthOrderOK` that the order of the search, which is
  rotated on an N300, has every core in it.
- `TypeCorrect`.

**WorkerDebug** (`WorkerAssumption`).  For any groups, lines, Tensix threads,
rows and depth of the FIFOs, and any number of calls and failing accesses.

- `SamplesAreExact`: the samples returned are those the sampler took in this
  call.  `SampleInv` (`Arranged`) says what the registers of the sampler hold at
  each access of the script, which lines are written and that the sentinel in
  the last line is of this call until the sampler has reached it.
- `InjectedExactlyOnce`: an injected instruction is executed once.  The entries
  of a FIFO are of this call, of earlier calls that raised or of the program
  (`Quiet`, `Fresh`), and an entry of this call is the last of its FIFO
  (`OnlyLast`), since the FIFO is claimed before it is pushed.
- `FilesAreExact`: each row is read after the instruction that shows it was
  executed (`Reading`), and row 0 of DST is given back.
- `TypeCorrect`.

The scripts of `WorkerDebug` for register files and samples are put together by
recursion over rows and lines.  What they hold at each place is proved from
`Induction`, which states induction for sets of naturals and needs no operator
as a parameter: were it false, adding one would be an injection of a finite set
into a smaller one.

**RocketDebug** (`RocketAssumption`).

- `TypeCorrect`: for any harts, registers and values.
- `RegistersKeptOneHart`, `HartGivenBackOneHart`, `OneInstructionOneHart`: the
  three properties for a cluster of one hart.  They need that hypothesis: an
  abstract command acts on the hart that was last selected (section 6), so that
  with a second hart a value can land there.  `CallOK` follows the call: its
  script is that of an entry check, of a stage (a move through DATA0, the
  program buffer, dcsr) or of its end (`Placed`), and at each place the
  invariant says what the stage needs and what it has brought about; that a
  halted hart stays halted and keeps its other registers in between
  (`StaysHalted`, `Kept`); and that dcsr.step is set only inside a step of a
  halted hart or after one has failed (`SingleOK`).

**GdbPackets** (`PacketsAssumption`: payloads are sequences of bytes).  For any
payloads and modes of acknowledgment, and any number of packets, breaks, errors
and packets in two pieces.

- `TypeCorrect`: a packet is sent again only by a client that has sent one
  (`Asked`), or its last packet would have no type.
- `MessagesInOrder`: the messages handed over are packets of the client, whole
  and in its order.  The invariant gives every byte in the buffer and every
  piece on the wire a tag, the packet it is of and its place in the frame.
  `Tagged` says that the bytes are those of the frame there and that the tags
  follow each other without a gap, so that a frame that has begun is read to its
  end; `Ordered` that no packet in flight is older than one delivered; `InFrame`
  that what was read of a frame is the beginning of its payload, with the
  escapes undone.  The lemmas under it say what reads, acknowledgments, breaks
  and packets do to the tags, and where the bytes of pieces that are joined lie.
- `AnswersAreMatched`: as long as no packet was sent again, there is one thing
  for the client to wait for: a frame that begins in flight, and is of its last
  packet (`Fresh`), a message that is handled, or one reply (`Dialogue`).

That bytes of joined pieces and of an escaped payload can be found again is
proved by the same `Induction` as in `WorkerDebug`.  `Total` is a recursive
function for this reason, not a fold.

**HostLogic** (`AccessJobsAssumption` and one such assumption for each kind of
job).  For memories, maps, texts, files and signals of any size; the invariant is
that the job is one of its kind and does not change (`JobInv`), and each
property then is a statement about what the functions compute.

- `BytesReadAndWritten`: reads return the bytes of their range and writes change
  these alone, whatever the alignment and after any number of changes of an
  attempt that failed.  A range is cut into a prefix, words and a suffix; each
  change that is made is of bytes of the range (`Fits`), and together they are
  all of them (`Writes`), also when some of them were made before (`RetriedWrites`).
- `AccessesValidated`: the walk over the blocks lets an access through if and
  only if each byte is safe, and the constructor refuses a map if and only if two
  blocks share an address.  Sorting permutes the blocks (`SortSorts`); in a map
  that is not refused each block ends before every later one starts, so that the
  bisection and the interval found last give the one block of an address.  That
  the maps of the chips are not refused, and hold the registers that are read
  over the NOC, is the assumption (`MapRefused` and `AllSafe` of the tables),
  which TLC evaluates; the theorem is that the code then agrees.
- `FirstMatchesFound`: the search reports the first matches, each once and up to
  the limit.  `First` says so of any part of the result, and joins
  (`FirstOfBoth`): matches of one read (`FindFirst`), of the reads of a range
  (`SearchFirst`) and of the ranges in turn (`AllFirst`).  Between two reads the
  tail is what comes before the place, as much of it as a match can begin in
  (`TailHeld`), so that a match is reported by the read that its end is in, and
  by no other; `RestAfter` follows the end of what can be read, a remainder,
  through the reads.
- `WrittenTextReadBack`: what the writer encodes the parser reads back, for
  numbers and texts of any length.  `Spells` is what the digits of a number stand
  for, from any of its digits on; registers go through the bytes of both orders.
- `RegistersReadBack`: what was written is read, and other registers keep their
  bits.
- `LoadedThenStarted`: a core that leaves reset starts at `.init` and finds every
  section in its place.  A section that was written stays as it is while the
  others, which lie elsewhere (`Sound`), are written (`Present`); the jump goes
  where its bits say because the halves of the offset end in its sign
  (`LastHalf`).
- `SamplesAgreeWithReads`: the parts of a signal in a sample make up the value a
  direct read gives.

The functions are recursive.  The provers take a recursive function for the
`CHOOSE` of one that satisfies its equation, so that nothing follows before there
is one: `RecursionDefines` shows it, for any definition whose value at a place
depends on places of a smaller measure, from `IterationUpTo` (finitely many
steps) and `Iteration`.  `MeasureInduction` and `BoundedInduction` then say what
they compute; all of them come down to `Induction`, for sets of naturals.

The invariants were checked by TLC on the instances above before they were
proved.

Only model-checked:

- the liveness properties `BreakEndsRun`, `StopEndsRun`, `PacketsAnswered` and
  `CallsReturn`: liveness under fairness is outside what the prover does;
- the two violation runs.

## 5. What is not modelled, and why

Inside the modelled components.

- `BabyRiscDebug`: the control and status register protocol below each access
  (one access is one step), register access and pipeline flush, and the
  neighbours of a core in the shared soft reset register.  The protocol is a
  straight line of writes with one poll, so that with one thread it has nothing
  to go wrong; with two it is as unprotected as the rest (section 6).
- `NocFailover` and `UmdTransport`: DMA, the configuration of TLBs, and how
  devices are found and opened the first time.
- `GdbSession`: features and files (they change neither the session nor whether
  a core runs), the text of the replies, and a second client waiting in the
  listen queue.  `Watchpoints` and `GdbEncoding` have the slots and the values.
- `RocketDebug`: system bus accesses, whose errors the code does not look at.
- `WorkerDebug`: a DEST that a core reads by itself, and number formats.
- `ElfLoading`: the list of loaded ELF files, cached files, and sections loaded
  through private memory access, which is `BabyRiscDebug`.
- `NocBlocks`: register stores that are in no memory map of their block, so that
  there is no check they could agree with: harvested and simulated DRAM of
  Blackhole, the overlay and the NOCs of Quasar (section 6).
- Coordinate systems, whose translation is taken from UMD.

Whole components.

- The architecture variants of cont, step and read_gpr work around defects of
  the chips, which are not described in the repository: a model of a pipeline
  could only restate the workaround.
- ARC messages and debug firmware: the other side of the mailbox is a firmware
  that is not in the repository.
- The remote access server: calls and their threads are Pyro's, and its
  registry keeps every object it names, so that an id is never used again.
- The GDB file server: a table of numbers in front of the operating system's
  files; it comes next.
- The ELF and DWARF readers (parsers: their state space is the input file),
  performance counters (reads of free-running counters), the GDB client wrapper
  (starts a program), generated tables that no modelled behaviour depends on,
  parsing, formatting and logging.

## 6. Known behaviours

What the models show, or the translation has met, besides the two findings.  The
properties above are stated so that they say what holds in spite of it; where
one of these is an exception of a property, the property names it.

Two threads on one core, bus or port.

- A `cont` that has already seen the core halted lands inside the other
  thread's `ensure_halted`: the body goes on with a running core.
- Two threads on one debug bus read each other's signal, and two injections to
  different Tensix threads drop each other's claim of the FIFO.
- Two read-modify-writes of one soft reset register may lose a change.

Exceptions.

- A time-out is a `BaseException`: it passes the `except Exception` of the GDB
  server and ends its thread.
- An exception inside a private memory access of a core found in reset skips the
  line that takes it back to reset.
- After a vCont that failed between two cores, the next one may return with a
  debugged core running: the final loop halts only the processes it watched.
- A failed step of a Rocket core leaves `dcsr.step` set, so that the next cont
  is another step.
- An injection that raises leaves the FIFO claimed; a read of a register file
  that raises leaves `DBG_ARRAY_RD_EN` set and row 0 of DST overwritten.
- A setter of `Context.noc_id` that fails between two devices leaves them on
  different NOCs.

GDB.

- A core that hits its breakpoint after it was looked at, and before the final
  loop of vCont, is skipped there and its stop is never told.
- `gdb stop` joins a thread that is blocked reading from an idle client, and
  closes the socket only afterwards.
- A refill replaces the input buffer and keeps the position, so that a packet
  split over two reads is lost; the digits of a checksum need only differ from
  the numbers they should stand for, which any text does, so that a wrong
  checksum is not noticed (`gdb_communication.py` 136, 201-227).
- The reply to `m` has the bytes of a word in the other order than `M` and `x`;
  `p` is big-endian and `g` little-endian; `G` ends with E01 at the last register;
  the test for the highest register is off by one; thread id 0 is read as -1.
- Two kinds of watchpoint at one address are taken for each other, and an access
  watchpoint is reported as `watch`.
- `vFile:pwrite` answers F-1 first; closing all files starts the numbers again.

UMD and devices.

- A SIGBUS of a remote access is treated as a failed access: the search for an
  ETH core, no re-initialization; telemetry reads test `is_mmio_capable` the
  other way round; re-initialization forgets the ETH core that was selected.
- Library calls without a NOC are pinned to the NOC of the context, and never
  fail over (`_lib_helpers.py` 58).

Commands and loading.

- `wchpt setr` and `setw` are swapped (`cli_commands/riscv.py` 141-149).
- A search with no `--end`, or with `all`, ends at the first gap between blocks;
  a pattern across two adjacent blocks is not found.
- A section in a private data memory that has a NOC address is written to the
  NOC at its private address (`elf_loader.py` 92-106).  A failed verification is
  logged, and the core started.
- A core without a start address register, whose `.init` is in its code memory,
  cannot be started: the jump to it is out of range.
- A write of a configuration register with a shift and a mask of all bits is not
  read back.
- The "clear" command of the ARC debug firmware sends the message that sets up
  logging (`hardware/arc_dbg_fw.py`).
- Sampling waits for ever when the first word of a sample is 0xDEADBEEF.

Rocket cores.

- Commands act on the hart that was last selected.  Writing the program counter
  of a running hart sets x5, resumes and halts again; reading it changes x5.

Tables of the chips.

- The register blocks of a remote Blackhole ARC are declared 0x10000 long and
  overlap (`blackhole/arc_block.py` 89-92); the memory map that would refuse them
  is built only when no local one was built before.
- `rwc0_dst/0` and `/1` of Blackhole (749-754) are in two groups without
  `across_groups`, so that a sample of either group delivers half a value.
- Keys that are in a signal table twice lose a signal: `trisc*_pc_buffer_next_cmd_fifo_data`
  of both chips, and `trisc0_mop_decode_mop_stage_opcode`, `brisc_icache_req_fifo_empty`
  and `_full` of Blackhole.
- The register stores of harvested DRAM of Blackhole have another base than its
  memory map (`harvested_dram_block.py` 14-15, 27-33), and those of the Quasar
  overlay and NOCs are in no map: with safe access every read is refused.

## 7. Plan

Every safety property of a passing run is stated by a theorem, with the
restrictions that the names of the theorems give (`OneThread`, `OneHart`).  Proofs
that are left: the same with several threads, for what then still holds (the
exceptions are in section 6), which needs a property that says which accesses of
another thread are harmless.

Modelling that is left: the control and status registers below an access and
the architecture variants, the soft reset register of several cores and two
threads, the GDB file server, and system bus accesses of Rocket cores.
