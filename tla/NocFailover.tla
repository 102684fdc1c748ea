---------------------------- MODULE NocFailover ----------------------------
(***************************************************************************)
(* Which NOC a device is reached over: Device._with_noc_failover and       *)
(* Device.switch_noc (device.py), the noc_id property of Context           *)
(* (context.py), and the ways callers choose a NOC: the low-level          *)
(* accessors leave it open, the library resolves it from the context       *)
(* (check_noc_id in _lib_helpers.py), ARC telemetry pins the NOC used at   *)
(* initialization.                                                         *)
(*                                                                         *)
(* Host threads of one process (the command line, the GDB server, the      *)
(* Pyro server) share the context and its devices without a lock.  A NOC   *)
(* of a device may hang or recover at any time.                            *)
(***************************************************************************)
EXTENDS Naturals

CONSTANTS
  Threads,      \* host threads
  Nocs,         \* NocId
  NoNoc,        \* None, where a NocId is optional
  Devices,      \* context.devices
  NumDevices,
  DeviceAt,     \* the order of context.devices, from 1
  NumNocs,      \* len(available_nocs) of each device
  Available     \* available_nocs of each device: the failover order, from 0

ASSUME DevicesAssumption ==
  /\ NumDevices \in Nat \ {0}
  /\ DeviceAt \in [1..NumDevices -> Devices]
  /\ NoNoc \notin Nocs

\* Every architecture lists at least one NOC, and none twice.
ASSUME AvailableAssumption ==
  \A d \in Devices :
    /\ NumNocs[d] \in Nat \ {0}
    /\ Available[d] \in [0..(NumNocs[d] - 1) -> Nocs]
    /\ \A i, j \in 0..(NumNocs[d] - 1) : Available[d][i] = Available[d][j] => i = j

VARIABLES
  contextNoc,   \* Context._noc_id
  initNoc,      \* Context.init_noc_id
  noc_failover, \* Context.noc_failover
  active_noc,   \* Device.active_noc
  hung,         \* <<device, NOC>> pairs that do not answer
  shown,        \* the NOC in the prompt, when the device is the selected one
  pc, op,       \* next step and operation of each thread
  dev,          \* the device it accesses
  selected,     \* the NOC it was told to use, or NoNoc
  start_index, offset,
  target,       \* what the accessed address does: "answers", "silent", "error"
  switching,    \* how many devices the noc_id setter has come to
  result,
  \* history
  tried,        \* NOCs on which the current access has been attempted
  healthy       \* NOCs of the device that have not been hung during the access

context == <<contextNoc, initNoc, noc_failover>>
locals  == <<op, dev, selected, start_index, target, switching>>
history == <<tried, healthy>>
vars    == <<context, active_noc, hung, shown, pc, locals, offset, result, history>>

Operations == {"access", "go"}
Steps      == {"idle", "try", "publish", "notify", "switch", "switched", "done"}
Targets    == {"answers", "silent", "error"}
Results    == {"none", "ok", "timeout", "error"}

Indices(d)        == 0..(NumNocs[d] - 1)
available_nocs(d) == {Available[d][i] : i \in Indices(d)}

\* available_nocs[i % num_nocs], for the i < 2 * num_nocs that occur.
NocAt(d, i) == Available[d][IF i < NumNocs[d] THEN i ELSE i - NumNocs[d]]

start_noc(t) == NocAt(dev[t], start_index[t])
next_noc(t)  == NocAt(dev[t], start_index[t] + offset[t] + 1)

current_noc(t) ==
  IF selected[t] = NoNoc THEN NocAt(dev[t], start_index[t] + offset[t])
                         ELSE selected[t]

Goto(t, label) == pc' = [pc EXCEPT ![t] = label]
Finish(t, r)   == Goto(t, "done") /\ result' = [result EXCEPT ![t] = r]
---------------------------------------------------------------------------
\* UMD has discovered the devices over the NOC the context starts with.
Init ==
  /\ initNoc \in {n \in Nocs : \A d \in Devices : n \in available_nocs(d)}
  /\ contextNoc = initNoc
  /\ noc_failover \in BOOLEAN
  /\ active_noc = [d \in Devices |-> initNoc]
  /\ shown = active_noc
  /\ hung = {}
  /\ pc = [t \in Threads |-> "idle"]
  /\ op = [t \in Threads |-> "access"]
  /\ dev = [t \in Threads |-> DeviceAt[1]]
  /\ selected = [t \in Threads |-> NoNoc]
  /\ start_index = [t \in Threads |-> 0]
  /\ offset = [t \in Threads |-> 0]
  /\ target = [t \in Threads |-> "answers"]
  /\ switching = [t \in Threads |-> 0]
  /\ result = [t \in Threads |-> "none"]
  /\ tried = [t \in Threads |-> {}]
  /\ healthy = [t \in Threads |-> {}]

\* The start of an access to device d.  With noc = NoNoc the caller leaves
\* the choice to _with_noc_failover: the active NOC, and failover if enabled.
Access(t, d, noc) ==
  /\ pc[t] = "idle"
  /\ op' = [op EXCEPT ![t] = "access"]
  /\ dev' = [dev EXCEPT ![t] = d]
  /\ selected' = [selected EXCEPT ![t] =
                    IF noc = NoNoc /\ ~noc_failover THEN active_noc[d] ELSE noc]
  /\ \E i \in Indices(d) :
       /\ Available[d][i] = active_noc[d]
       /\ start_index' = [start_index EXCEPT ![t] = i]
  /\ offset' = [offset EXCEPT ![t] = 0]
  /\ \E behaviour \in Targets : target' = [target EXCEPT ![t] = behaviour]
  /\ Goto(t, "try")
  /\ tried' = [tried EXCEPT ![t] = {}]
  /\ healthy' = [healthy EXCEPT ![t] = {n \in available_nocs(d) : <<d, n>> \notin hung}]
  /\ UNCHANGED <<context, active_noc, hung, shown, switching, result>>

\* Device.noc_read and noc_write, called without a noc_id.
DefaultAccess(t, d) == Access(t, d, NoNoc)

\* The library functions resolve a missing noc_id to the context's NOC.
LibraryAccess(t, d) == Access(t, d, contextNoc)

\* Any of them called with a noc_id.
ExplicitAccess(t, d) == \E n \in available_nocs(d) : Access(t, d, n)

\* read_arc_telemetry_entry always reads over the NOC of the initialization.
TelemetryAccess(t, d) == Access(t, d, initNoc)

Attempted(t) == tried' = [tried EXCEPT ![t] = @ \cup {current_noc(t)}]

\* noc_operation succeeds: with failover the NOC becomes the active one.
AttemptSucceeds(t) ==
  /\ pc[t] = "try"
  /\ target[t] = "answers" /\ <<dev[t], current_noc(t)>> \notin hung
  /\ Attempted(t)
  /\ IF selected[t] = NoNoc /\ current_noc(t) # start_noc(t)
     THEN Goto(t, "publish") /\ UNCHANGED result
     ELSE Finish(t, "ok")
  /\ UNCHANGED <<context, active_noc, hung, shown, locals, offset, healthy>>

\* Mutant of AttemptTimesOut: the last NOC of the rotation is left out.
TimesOutOneShort(t) ==
  /\ pc[t] = "try"
  /\ target[t] = "silent" \/ <<dev[t], current_noc(t)>> \in hung
  /\ Attempted(t)
  /\ IF selected[t] # NoNoc \/ offset[t] + 2 >= NumNocs[dev[t]]
     THEN Finish(t, "timeout") /\ UNCHANGED offset
     ELSE /\ offset' = [offset EXCEPT ![t] = @ + 1]
          /\ UNCHANGED <<pc, result>>
  /\ UNCHANGED <<context, active_noc, hung, shown, locals, healthy>>

\* Mutant of AttemptTimesOut: the end of the rotation is the NOC active by now.
TimesOutAtActive(t) ==
  /\ pc[t] = "try"
  /\ target[t] = "silent" \/ <<dev[t], current_noc(t)>> \in hung
  /\ Attempted(t)
  /\ IF selected[t] # NoNoc \/ next_noc(t) = active_noc[dev[t]]
     THEN Finish(t, "timeout") /\ UNCHANGED offset
     ELSE /\ offset' = [offset EXCEPT ![t] = @ + 1]
          /\ UNCHANGED <<pc, result>>
  /\ UNCHANGED <<context, active_noc, hung, shown, locals, healthy>>

\* Mutant of AttemptTimesOut: the next NOC becomes active before it has answered.
TimesOutSwitching(t) ==
  /\ pc[t] = "try"
  /\ target[t] = "silent" \/ <<dev[t], current_noc(t)>> \in hung
  /\ Attempted(t)
  /\ IF selected[t] # NoNoc \/ next_noc(t) = start_noc(t)
     THEN Finish(t, "timeout") /\ UNCHANGED <<active_noc, offset>>
     ELSE /\ offset' = [offset EXCEPT ![t] = @ + 1]
          /\ active_noc' = [active_noc EXCEPT ![dev[t]] = next_noc(t)]
          /\ UNCHANGED <<pc, result>>
  /\ UNCHANGED <<context, hung, shown, locals, healthy>>

\* TimeoutDeviceRegisterError: go on to the next NOC until all have hung.
AttemptTimesOut(t) ==
  /\ pc[t] = "try"
  /\ target[t] = "silent" \/ <<dev[t], current_noc(t)>> \in hung
  /\ Attempted(t)
  /\ IF selected[t] # NoNoc \/ next_noc(t) = start_noc(t)
     THEN Finish(t, "timeout") /\ UNCHANGED offset
     ELSE /\ offset' = [offset EXCEPT ![t] = @ + 1]
          /\ UNCHANGED <<pc, result>>
  /\ UNCHANGED <<context, active_noc, hung, shown, locals, healthy>>

\* Any other exception of noc_operation leaves the loop at once.
AttemptFails(t) ==
  /\ pc[t] = "try"
  /\ target[t] = "error" \/ current_noc(t) \notin available_nocs(dev[t])
  /\ Attempted(t)
  /\ Finish(t, "error")
  /\ UNCHANGED <<context, active_noc, hung, shown, locals, offset, healthy>>

\* Mutant of PublishActiveNoc: the callback does not follow.
PublishQuietly(t) ==
  /\ pc[t] = "publish"
  /\ active_noc' = [active_noc EXCEPT ![dev[t]] = current_noc(t)]
  /\ Finish(t, "ok")
  /\ UNCHANGED <<context, hung, shown, locals, offset, history>>

\* self.active_noc = current_noc
PublishActiveNoc(t) ==
  /\ pc[t] = "publish"
  /\ active_noc' = [active_noc EXCEPT ![dev[t]] = current_noc(t)]
  /\ Goto(t, "notify")
  /\ UNCHANGED <<context, hung, shown, locals, offset, result, history>>

\* on_noc_switch redraws the prompt.
NotifyFailover(t) ==
  /\ pc[t] = "notify"
  /\ shown' = [shown EXCEPT ![dev[t]] = active_noc[dev[t]]]
  /\ Finish(t, "ok")
  /\ UNCHANGED <<context, active_noc, hung, locals, offset, history>>

\* The noc_id setter of the context, called by the go command.
Go(t, noc) ==
  /\ pc[t] = "idle"
  /\ op' = [op EXCEPT ![t] = "go"]
  /\ selected' = [selected EXCEPT ![t] = noc]
  /\ IF noc = contextNoc
     THEN Finish(t, "ok") /\ UNCHANGED <<contextNoc, switching>>
     ELSE /\ contextNoc' = noc
          /\ switching' = [switching EXCEPT ![t] = 1]
          /\ Goto(t, "switch")
          /\ UNCHANGED result
  /\ UNCHANGED <<initNoc, noc_failover, active_noc, hung, shown, dev, start_index,
                 target, offset, history>>

\* Mutant of SwitchNoc: the availability of the NOC is not asserted.
SwitchUnchecked(t) ==
  LET d == DeviceAt[switching[t]] IN
  /\ pc[t] = "switch"
  /\ active_noc' = [active_noc EXCEPT ![d] = selected[t]]
  /\ Goto(t, "switched")
  /\ UNCHANGED <<context, hung, shown, locals, offset, result, history>>

\* Device.switch_noc of the next device; it asserts that the NOC is available.
SwitchNoc(t) ==
  LET d == DeviceAt[switching[t]] IN
  /\ pc[t] = "switch"
  /\ \/ /\ selected[t] \notin available_nocs(d)
        /\ Finish(t, "error")
        /\ UNCHANGED active_noc
     \/ /\ selected[t] \in available_nocs(d)
        /\ active_noc' = [active_noc EXCEPT ![d] = selected[t]]
        /\ Goto(t, "switched")
        /\ UNCHANGED result
  /\ UNCHANGED <<context, hung, shown, locals, offset, history>>

NotifySwitch(t) ==
  LET d == DeviceAt[switching[t]] IN
  /\ pc[t] = "switched"
  /\ shown' = [shown EXCEPT ![d] = active_noc[d]]
  /\ IF switching[t] = NumDevices
     THEN Finish(t, "ok") /\ UNCHANGED switching
     ELSE /\ switching' = [switching EXCEPT ![t] = @ + 1]
          /\ Goto(t, "switch")
          /\ UNCHANGED result
  /\ UNCHANGED <<context, active_noc, hung, op, dev, selected, start_index, target,
                 offset, history>>

\* The call returns or raises; its locals are gone.
Return(t) ==
  /\ pc[t] = "done"
  /\ Goto(t, "idle")
  /\ op' = [op EXCEPT ![t] = "access"]
  /\ dev' = [dev EXCEPT ![t] = DeviceAt[1]]
  /\ selected' = [selected EXCEPT ![t] = NoNoc]
  /\ start_index' = [start_index EXCEPT ![t] = 0]
  /\ offset' = [offset EXCEPT ![t] = 0]
  /\ target' = [target EXCEPT ![t] = "answers"]
  /\ switching' = [switching EXCEPT ![t] = 0]
  /\ result' = [result EXCEPT ![t] = "none"]
  /\ tried' = [tried EXCEPT ![t] = {}]
  /\ healthy' = [healthy EXCEPT ![t] = {}]
  /\ UNCHANGED <<context, active_noc, hung, shown>>

\* A NOC of a device stops answering, or answers again after a reset.
NocHangs(d, n) ==
  /\ hung' = hung \cup {<<d, n>>}
  /\ healthy' = [t \in Threads |-> IF dev[t] = d THEN healthy[t] \ {n} ELSE healthy[t]]
  /\ UNCHANGED <<context, active_noc, shown, pc, locals, offset, result, tried>>

NocRecovers(d, n) ==
  /\ hung' = hung \ {<<d, n>>}
  /\ UNCHANGED <<context, active_noc, shown, pc, locals, offset, result, history>>

Continue(t) ==
  \/ AttemptSucceeds(t) \/ AttemptTimesOut(t) \/ AttemptFails(t)
  \/ PublishActiveNoc(t) \/ NotifyFailover(t)
  \/ SwitchNoc(t) \/ NotifySwitch(t)
  \/ Return(t)

Start(t) ==
  \/ \E d \in Devices : \/ DefaultAccess(t, d) \/ LibraryAccess(t, d)
                        \/ ExplicitAccess(t, d) \/ TelemetryAccess(t, d)
  \/ \E n \in Nocs : Go(t, n)

Next ==
  \/ \E t \in Threads : Start(t) \/ Continue(t)
  \/ \E d \in Devices : \E n \in available_nocs(d) : NocHangs(d, n) \/ NocRecovers(d, n)

Spec == Init /\ [][Next]_vars

---------------------------------------------------------------------------
(* Properties.                                                             *)

\* Type invariant.
TypeOK ==
  /\ contextNoc \in Nocs /\ initNoc \in Nocs /\ noc_failover \in BOOLEAN
  /\ active_noc \in [Devices -> Nocs]
  /\ shown \in [Devices -> Nocs]
  /\ hung \subseteq Devices \X Nocs
  /\ pc \in [Threads -> Steps]
  /\ op \in [Threads -> Operations]
  /\ dev \in [Threads -> Devices]
  /\ selected \in [Threads -> Nocs \cup {NoNoc}]
  /\ start_index \in [Threads -> Nat]
  /\ \A t \in Threads : start_index[t] < NumNocs[dev[t]]
  /\ offset \in [Threads -> Nat]
  /\ \A t \in Threads : offset[t] < NumNocs[dev[t]]
  /\ target \in [Threads -> Targets]
  /\ switching \in [Threads -> 0..NumDevices]
  /\ result \in [Threads -> Results]
  /\ tried \in [Threads -> SUBSET Nocs]
  /\ healthy \in [Threads -> SUBSET Nocs]

\* A device is never left on a NOC it does not have, whatever NOC the user
\* asks for: the index lookup that starts every failover would raise.
ActiveNocAvailable == \A d \in Devices : active_noc[d] \in available_nocs(d)

\* The loop of _with_noc_failover attempts the operation at most once on each
\* NOC, even while other threads move the active NOC under it.
TriedAtMostOnce ==
  \A t \in Threads : pc[t] = "try" => current_noc(t) \notin tried[t]

\* With failover an access gives up only after it has tried all the NOCs, so
\* it does not time out on a device that kept one NOC healthy throughout.
HealthyNocFound ==
  \A t \in Threads :
    pc[t] = "done" /\ op[t] = "access" /\ selected[t] = NoNoc
      /\ target[t] = "answers" /\ result[t] = "timeout"
    => /\ tried[t] = available_nocs(dev[t])
       /\ healthy[t] = {}

\* The active NOC of a device moves only to a NOC that a user asked for, or
\* to one that has just answered an access to that device: a failover that
\* exhausts the NOCs, or whose caller chose the NOC, leaves it alone.
ActiveNocAnswered ==
  [][\A d \in Devices :
       active_noc'[d] # active_noc[d] =>
         \E t \in Threads :
           \/ op[t] = "go" /\ selected[t] = active_noc'[d]
           \/ /\ op[t] = "access" /\ dev[t] = d /\ selected[t] = NoNoc
              /\ target[t] = "answers" /\ active_noc'[d] \in tried[t]]_vars

\* Whenever no thread is between a change of a device's active NOC and the
\* callback for it, the prompt shows the NOC the device is really using.
PromptShowsActiveNoc ==
  \A d \in Devices :
    (\A t \in Threads : pc[t] \notin {"notify", "switched"}) => shown[d] = active_noc[d]

\* "NOC to use for communication with the device": when go returns normally,
\* the devices are on the NOC that it named.
GoSelectsNoc ==
  \A t \in Threads :
    pc[t] = "done" /\ op[t] = "go" /\ result[t] = "ok"
      => \A d \in Devices : active_noc[d] = selected[t]
===========================================================================
