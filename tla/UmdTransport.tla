---------------------------- MODULE UmdTransport ----------------------------
(***************************************************************************)
(* UmdDevice (umd_device.py) over the device registry of UmdApi            *)
(* (umd_api.py): accesses of several threads to devices that are reset     *)
(* under them and, for a device without PCIe of its own, through one of    *)
(* several Ethernet cores of its neighbour.                                *)
(*                                                                         *)
(* UMD is external.  An access through a handle that is older than the     *)
(* last reset raises SigbusError; an access to a remote device through an  *)
(* Ethernet core that does not work raises an error; any access may time   *)
(* out or raise some other error.  A time-out of a NOC access becomes a    *)
(* TimeoutDeviceRegisterError, which is no Exception; SigbusError and the  *)
(* time-out of an ARC operation are.                                       *)
(***************************************************************************)
EXTENDS Integers, Sequences, FiniteSets, SequencesExt

CONSTANTS
  Threads,
  Local, Remote,  \* devices (unique ids): with and without MMIO
  Stranger,       \* a chip that was not there before
  EthCores,       \* active_eth_coords_on_mmio_chip, in their order
  N300,           \* the remote devices sit on N300 boards
  MaxCalls,       \* bound on calls
  MaxResets,      \* bound on resets of the system
  MaxFaults,      \* bound on accesses that time out or raise by themselves
  MaxLinkChanges  \* bound on Ethernet cores that stop or start working

Devices == Local \cup Remote
Eths == Range(EthCores)

ASSUME TransportAssumption ==
  /\ IsFiniteSet(Devices) /\ Local \cap Remote = {} /\ Stranger \notin Devices
  /\ "free" \notin Threads
  /\ EthCores \in Seq(Eths) \ {<<>>} /\ N300 \in BOOLEAN
  /\ MaxCalls \in Nat /\ MaxResets \in Nat /\ MaxFaults \in Nat /\ MaxLinkChanges \in Nat

VARIABLES
  epoch,        \* resets so far
  working,      \* Ethernet cores that work
  faults, link_changes, calls,
  handle,       \* the epoch in which __device of each device was made
  eth,          \* Ethernet core that UMD uses for each remote device
  lock,         \* holder of reset_lock, or "free"
  pc,           \* next step of each thread
  call,         \* operation, device and local variables of its call
  ended,        \* how its last call failed, and which it was
  note,         \* history of its call, read by the properties only
  renewed       \* history: the handles a re-initialization has promised

world == <<epoch, working, faults, link_changes, calls>>
shared == <<handle, eth, lock>>
vars == <<world, shared, pc, call, ended, note, renewed>>

Operations == {"noc", "arc_msg", "bar0", "telemetry"}
Outcomes == {"ok", "timeout", "error", "sigbus"}

\* again: the access is repeated after a re-initialization.  next_eth: index
\* of the core that the search tries next.  found, found_epoch: the devices of
\* the discovered topology that are not yet assigned, and their handles' epoch.
NoCall == [op |-> "none", dev |-> Stranger, again |-> FALSE, next_eth |-> 1,
           found |-> {}, found_epoch |-> 0]

\* since: epoch in which a call of bar0 began.  good: the cores that have worked
\* since its search began.  disturbed: the core moved, a reset struck or a
\* probe failed by itself in the search.  excused: an access to a device with
\* MMIO failed by itself.
NoNote == [since |-> 0, good |-> {}, disturbed |-> FALSE, excused |-> FALSE]

Nothing == [op |-> "none", dev |-> Stranger, how |-> "none"]
---------------------------------------------------------------------------
\* On N300 boards the search begins with the second core.
EthOrder == IF N300 /\ Len(EthCores) > 1
            THEN Append(Tail(EthCores), Head(EthCores)) ELSE EthCores

Init ==
  /\ epoch = 0 /\ faults = 0 /\ link_changes = 0 /\ calls = 0
  /\ working \in SUBSET Eths
  /\ handle = [d \in Devices |-> 0]
  /\ eth \in [Remote -> Eths]
  \* The constructor of a remote device on an N300 board has searched.
  /\ N300 => \E i \in DOMAIN EthOrder :
               /\ EthOrder[i] \in working
               /\ \A j \in 1 .. i - 1 : EthOrder[j] \notin working
               /\ \A d \in Remote : eth[d] = EthOrder[i]
  /\ lock = "free"
  /\ pc = [t \in Threads |-> "idle"]
  /\ call = [t \in Threads |-> NoCall]
  /\ ended = [t \in Threads |-> Nothing]
  /\ note = [t \in Threads |-> NoNote]
  /\ renewed = [d \in Devices |-> 0]
---------------------------------------------------------------------------
(* Control.                                                                *)

Goto(t, step, newcall) ==
  /\ pc' = [pc EXCEPT ![t] = step]
  /\ call' = [call EXCEPT ![t] = newcall]
  /\ UNCHANGED ended

End(t, how) ==
  /\ pc' = [pc EXCEPT ![t] = "idle"]
  /\ call' = [call EXCEPT ![t] = NoCall]
  /\ ended' = [ended EXCEPT ![t] = IF how = "ok" THEN Nothing ELSE
                   [op |-> call[t].op, dev |-> call[t].dev, how |-> how]]

\* The access is in order: nothing but the access itself can fail.
Sound(d) == handle[d] = epoch /\ (d \in Remote => eth[d] \in working)

\* What UMD may answer, by the state of the handle and the links.
Answers(t) ==
  LET d == call[t].dev
  IN IF handle[d] < epoch THEN {"sigbus"}
     ELSE IF ~Sound(d) THEN {"error"}
     ELSE {"ok"} \cup
          (IF faults < MaxFaults
           THEN {"error"} \cup {o \in {"timeout"} : call[t].op = "noc" \/ pc[t] = "probe"}
           ELSE {})

ByItself(t, answer) == Sound(call[t].dev) /\ answer # "ok"

\* One access of the call, whose history becomes newnote.
Attempt(t, answer, newnote) ==
  /\ answer \in Answers(t)
  /\ faults' = IF ByItself(t, answer) THEN faults + 1 ELSE faults
  /\ note' = [note EXCEPT ![t] =
                IF answer # "ok" THEN [newnote EXCEPT !.excused =
                                           @ \/ (ByItself(t, answer) /\ call[t].dev \in Local)]
                ELSE IF pc[t] = "probe" THEN [NoNote EXCEPT !.since = newnote.since,
                                                            !.excused = newnote.excused]
                ELSE NoNote]

\* A call enters: select_noc_id, which concerns the thread alone, and access.
Call(t, o, d) ==
  /\ pc[t] = "idle"
  /\ calls < MaxCalls /\ calls' = calls + 1
  /\ IF o = "bar0" /\ d \in Remote
     THEN /\ ended' = [ended EXCEPT ![t] = [op |-> o, dev |-> d, how |-> "not_mmio"]]
          /\ note' = [note EXCEPT ![t] = NoNote]
          /\ UNCHANGED <<pc, call>>
     ELSE /\ pc' = [pc EXCEPT ![t] = "access"]
          /\ call' = [call EXCEPT ![t] = [NoCall EXCEPT !.op = o, !.dev = d]]
          /\ note' = [note EXCEPT ![t] = [NoNote EXCEPT !.since = IF o = "bar0" THEN epoch ELSE 0]]
          /\ ended' = [ended EXCEPT ![t] = Nothing]
  /\ UNCHANGED <<epoch, working, faults, link_changes, shared, renewed>>

\* Mutant of Reconfigures: the answer to a failed access of any device.
ReconfiguresAny(o, d, answer) == o = "noc" /\ answer \in {"error", "sigbus"}

\* Which failed accesses are answered with a search for a working core.  The
\* handler of NOC accesses takes a SIGBUS for an error; that of telemetry and
\* firmware reads tests is_mmio_capable the other way round.
Reconfigures(o, d, answer) ==
  \/ o = "noc" /\ d \in Remote /\ answer \in {"error", "sigbus"}
  \/ o = "telemetry" /\ d \in Local /\ answer = "error"

\* Mutant of Recovers: messages to the ARC are not guarded.
RecoversNoMessage(o, repeated) == o \in {"noc", "telemetry"} \/ (o = "bar0" /\ ~repeated)

\* A SIGBUS leads to re-initialization, but for the second one of bar0.
Recovers(o, repeated) == o # "bar0" \/ ~repeated

Finish(t, answer) ==
  IF answer = "sigbus" /\ Recovers(call[t].op, call[t].again)
  THEN Goto(t, "lock", call[t]) ELSE End(t, answer)

Access(t) ==
  /\ pc[t] = "access"
  /\ \E answer \in Outcomes :
       LET d == call[t].dev IN
       \/ /\ Reconfigures(call[t].op, d, answer)
          /\ Attempt(t, answer,
                     [note[t] EXCEPT !.good = working, !.disturbed = handle[d] < epoch])
          /\ Goto(t, "search", [call[t] EXCEPT !.next_eth = 1])
       \/ /\ ~Reconfigures(call[t].op, d, answer)
          /\ Attempt(t, answer, note[t])
          /\ Finish(t, answer)
  /\ UNCHANGED <<epoch, working, link_changes, calls, shared, renewed>>

\* The access of a call that has found a working core: no second search.
AccessAgain(t) ==
  /\ pc[t] = "access_again"
  /\ \E answer \in Outcomes : Attempt(t, answer, note[t]) /\ Finish(t, answer)
  /\ UNCHANGED <<epoch, working, link_changes, calls, shared, renewed>>
---------------------------------------------------------------------------
(* __configure_working_active_eth.                                         *)

\* Mutant of Cores: the last core is never tried.
CoresButLast(d) == IF d \in Remote THEN Front(EthOrder) ELSE <<>>

Cores(d) == IF d \in Remote THEN EthOrder ELSE <<>>

\* History: the searches of other threads in which the core of d moved.
Disturb(t, d) ==
  [s \in Threads |->
     [note[s] EXCEPT !.disturbed =
        @ \/ (s # t /\ call[s].dev = d /\ pc[s] \in {"search", "probe"})]]

SelectEth(t) ==
  /\ pc[t] = "search"
  /\ LET d == call[t].dev
         next == call[t].next_eth
     IN \/ /\ next > Len(Cores(d))
           /\ End(t, "unconfigured")
           /\ UNCHANGED <<eth, note>>
        \/ /\ next <= Len(Cores(d))
           /\ eth' = [eth EXCEPT ![d] = Cores(d)[next]]
           /\ note' = Disturb(t, d)
           /\ Goto(t, "probe", call[t])
  /\ UNCHANGED <<world, handle, lock, renewed>>

\* The test read.  A time-out is no Exception and ends the search.
ProbeEth(t) ==
  /\ pc[t] = "probe"
  /\ \E answer \in Outcomes :
       /\ Attempt(t, answer, [note[t] EXCEPT !.disturbed = @ \/ ByItself(t, answer)])
       /\ \/ answer = "ok" /\ Goto(t, "access_again", call[t])
          \/ answer = "timeout" /\ End(t, answer)
          \/ /\ answer \in {"error", "sigbus"}
             /\ Goto(t, "search", [call[t] EXCEPT !.next_eth = @ + 1])
  /\ UNCHANGED <<epoch, working, link_changes, calls, shared, renewed>>
---------------------------------------------------------------------------
(* _reinit_devices_after_sigbus.                                           *)

Acquire(t) ==
  /\ pc[t] = "lock" /\ lock = "free"
  /\ lock' = t
  /\ Goto(t, "discover", call[t])
  /\ UNCHANGED <<world, handle, eth, note, renewed>>

\* One chip may be missing, or be another one than before.  (A discovery that
\* raises ends the call as a missing chip does.)
Topologies ==
  {Devices} \cup {Devices \ {d} : d \in Devices}
    \cup {(Devices \ {d}) \cup {Stranger} : d \in Devices}

\* Mutant of Release: a failed re-initialization keeps the lock.
ReleaseOnSuccess(t) == IF call[t].found = {} /\ pc[t] = "assign" THEN "free" ELSE lock

\* with self.reset_lock.
Release(t) == "free"

Discover(t) ==
  /\ pc[t] = "discover"
  /\ \E topology \in Topologies :
       /\ note' = [note EXCEPT ![t].excused =
                    @ \/ (topology # Devices /\ call[t].dev \in Local)]
       /\ \/ /\ Cardinality(topology) # Cardinality(Devices)
             /\ lock' = Release(t)
             /\ End(t, "discovery")
          \/ /\ Cardinality(topology) = Cardinality(Devices)
             /\ Goto(t, "assign",
                     [call[t] EXCEPT !.found = topology, !.found_epoch = epoch])
             /\ UNCHANGED lock
  /\ UNCHANGED <<world, handle, eth, renewed>>

\* Mutant of Renew: only the device that was accessed gets its new handle.
RenewOwn(t, d) == IF d = call[t].dev THEN call[t].found_epoch ELSE handle[d]

Renew(t, d) == call[t].found_epoch

\* _update_device_after_sigbus for one chip after the other.  The new TTDevice
\* uses a core of UMD's choice, not the one that was selected for the old one.
Assign(t, d) ==
  /\ pc[t] = "assign" /\ d \in call[t].found
  /\ \/ /\ d = Stranger
        /\ lock' = Release(t)
        /\ End(t, "discovery")
        /\ UNCHANGED <<handle, eth, note>>
     \/ /\ d \in Devices
        /\ handle' = [handle EXCEPT ![d] = Renew(t, d)]
        /\ IF d \in Remote THEN \E e \in Eths : eth' = [eth EXCEPT ![d] = e]
                           ELSE UNCHANGED eth
        /\ note' = Disturb(t, d)
        /\ Goto(t, "assign", [call[t] EXCEPT !.found = @ \ {d}])
        /\ UNCHANGED lock
  /\ UNCHANGED <<world, renewed>>

\* The call is made again from its beginning; bar0 repeats the access only.
Reinitialized(t) ==
  /\ pc[t] = "assign" /\ call[t].found = {}
  /\ lock' = Release(t)
  /\ renewed' = [d \in Devices |-> call[t].found_epoch]
  /\ Goto(t, "access", [NoCall EXCEPT !.op = call[t].op, !.dev = call[t].dev,
                                      !.again = call[t].op = "bar0"])
  /\ UNCHANGED <<world, handle, eth, note>>
---------------------------------------------------------------------------
(* The system around the process.                                          *)

Reset ==
  /\ epoch < MaxResets
  /\ epoch' = epoch + 1
  /\ note' = [t \in Threads |->
                [note[t] EXCEPT !.disturbed = @ \/ pc[t] \in {"search", "probe"}]]
  /\ UNCHANGED <<working, faults, link_changes, calls, shared, pc, call, ended, renewed>>

LinkChanges(e) ==
  /\ link_changes < MaxLinkChanges
  /\ link_changes' = link_changes + 1
  /\ working' = IF e \in working THEN working \ {e} ELSE working \cup {e}
  /\ note' = [t \in Threads |->
                [note[t] EXCEPT !.good = IF pc[t] = "idle" THEN @ ELSE @ \ {e}]]
  /\ UNCHANGED <<epoch, faults, calls, shared, pc, call, ended, renewed>>

Step(t) ==
  \/ Access(t) \/ AccessAgain(t) \/ SelectEth(t) \/ ProbeEth(t)
  \/ Acquire(t) \/ Discover(t) \/ Reinitialized(t)
  \/ \E d \in Devices \cup {Stranger} : Assign(t, d)

Next ==
  \/ \E t \in Threads : Step(t) \/ \E o \in Operations, d \in Devices : Call(t, o, d)
  \/ Reset
  \/ \E e \in Eths : LinkChanges(e)

Spec == Init /\ [][Next]_vars

\* Threads run, and the lock is passed on.
FairSpec == Spec /\ \A t \in Threads : WF_vars(Step(t)) /\ SF_vars(Acquire(t))
---------------------------------------------------------------------------
(* Properties.                                                             *)

Calls ==
  [op : Operations \cup {"none"}, dev : Devices \cup {Stranger}, again : BOOLEAN,
   next_eth : 1 .. Len(EthCores) + 1, found : SUBSET (Devices \cup {Stranger}),
   found_epoch : 0 .. MaxResets]

Endings ==
  [op : Operations \cup {"none"}, dev : Devices \cup {Stranger},
   how : Outcomes \cup {"none", "not_mmio", "unconfigured", "discovery"}]

\* A call is at a step of the protocol, holds reset_lock in two of them, and
\* its variables stay in their ranges.
TypeOK ==
  /\ epoch \in 0 .. MaxResets /\ working \in SUBSET Eths
  /\ faults \in 0 .. MaxFaults /\ link_changes \in 0 .. MaxLinkChanges
  /\ calls \in 0 .. MaxCalls
  /\ handle \in [Devices -> 0 .. MaxResets] /\ eth \in [Remote -> Eths]
  /\ lock \in Threads \cup {"free"}
  /\ \A t \in Threads : lock = t <=> pc[t] \in {"discover", "assign"}
  /\ pc \in [Threads -> {"idle", "access", "access_again", "search", "probe", "lock",
                         "discover", "assign"}]
  /\ call \in [Threads -> Calls] /\ ended \in [Threads -> Endings]

\* A SIGBUS never reaches the caller of noc_read, noc_write, arc_msg and the
\* telemetry reads (umd_device.py 339-343), and that of bar0_read32 and
\* bar0_write32 only when a reset struck during the call (it repeats the access
\* once, outside the handler).
SigbusHandled ==
  \A t \in Threads :
    ended[t].how = "sigbus" => ended[t].op = "bar0" /\ epoch > note[t].since

\* The search for an Ethernet core (umd_device.py 125-136) gives up only when
\* no core worked all the time, unless another thread moved the device to
\* another core meanwhile, the system was reset or a probe failed by itself.
WorkingEthFound ==
  \A t \in Threads :
    ended[t].how = "unconfigured" /\ ended[t].dev \in Remote
      => note[t].good = {} \/ note[t].disturbed

\* An access to a device with MMIO ends in a failure only when one of its
\* accesses failed by itself or a discovery was incomplete: a reset alone is
\* recovered from (umd_device.py 339-343), and so is a link that went down.
LocalRecovers ==
  \A t \in Threads :
    ended[t].dev \in Local /\ ended[t].how \in {"timeout", "error", "unconfigured", "discovery"}
      => note[t].excused

\* Once a re-initialization has succeeded, every device of the registry has a
\* handle at least as new as the topology it discovered (umd_api.py 222-233),
\* also when another thread re-initializes, in part or at all, afterwards.
AllRenewed == \A d \in Devices : handle[d] >= renewed[d]

\* Every call returns: resets end, a search ends with its list, and whoever
\* holds reset_lock lets go of it, also when the discovery fails.
CallsReturn == \A t \in Threads : pc[t] # "idle" ~> pc[t] = "idle"
=============================================================================
